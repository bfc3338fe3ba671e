------------------------------ MODULE MCBuffer ------------------------------
(* A Buffer of three bytes, chunks of up to three of two byte values.      *)
EXTENDS Buffer

MCBytes == {0, 1}
MCChunks == UNION {[1 .. n -> MCBytes] : n \in 0 .. 3}
=============================================================================
