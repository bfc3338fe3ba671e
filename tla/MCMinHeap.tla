----------------------------- MODULE MCMinHeap -----------------------------
(* Seven entries, three pairs of which have equal keys.                        *)
EXTENDS MinHeap

MCEntries == {"a", "b", "c", "d", "e", "f", "g"}
MCKey == [e \in MCEntries |->
            CASE e \in {"a", "b"} -> 1 [] e \in {"c", "d"} -> 2
              [] e = "e" -> 3 [] e \in {"f", "g"} -> 4]
=============================================================================
