--------------------------- MODULE PriorityQueue ---------------------------
(***************************************************************************)
(* What a MinHeap promises, without its array: a set of entries of which   *)
(* one with the least key is at the top.  A push puts the new entry on top *)
(* only if its key is less than the present one's.                         *)
(***************************************************************************)
EXTENDS Integers

CONSTANTS Entries, Key, NoEntry

VARIABLES
    queue,   \* the entries
    top,     \* what top() returns
    out      \* what the last pop() returned

pqvars == <<queue, top, out>>

Least(S) == {e \in S : \A f \in S : Key[e] <= Key[f]}

Init == queue = {} /\ top = NoEntry /\ out = NoEntry

Push(e) ==
    /\ e \notin queue
    /\ queue' = queue \cup {e}
    /\ top' = IF queue = {} \/ Key[e] < Key[top] THEN e ELSE top
    /\ UNCHANGED out

Pop ==
    /\ queue # {}
    /\ out' = top
    /\ queue' = queue \ {top}
    /\ top' \in IF queue' = {} THEN {NoEntry} ELSE Least(queue')

PopEmpty ==
    /\ queue = {}
    /\ out' = NoEntry
    /\ UNCHANGED <<queue, top>>

Next == (\E e \in Entries : Push(e)) \/ Pop \/ PopEmpty

Spec == Init /\ [][Next]_pqvars
=============================================================================
