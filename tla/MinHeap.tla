------------------------------ MODULE MinHeap ------------------------------
(***************************************************************************)
(* The binary heap of MinHeap.h.  push() and pop() change the array and    *)
(* then call shiftUp() or shiftDown(), which call themselves until the     *)
(* order is restored; a step of the model is one such call.  The heap is   *)
(* used by one thread and no other operation starts before the shifts end. *)
(*                                                                         *)
(* The array is the function pHeap on 0 .. size - 1; indices are those of  *)
(* the code.  An entry is pushed only when it is not in the heap, as       *)
(* TimerManager does.  init() is taken to succeed.                         *)
(***************************************************************************)
EXTENDS Integers

CONSTANTS
    Entries,
    Key,         \* by which compareFunc_ compares two entries
    NoEntry,     \* NULL
    Initial,     \* MIN_HEAP_INITIAL
    EntrySize    \* sizeof(T)

ASSUME ConstantsOK ==
    /\ Key \in [Entries -> Int]
    /\ NoEntry \notin Entries
    /\ Initial \in Nat \ {0}
    /\ EntrySize \in Nat \ {0}

VARIABLES
    pHeap,       \* pHeap_[0 .. size_ - 1]
    size,        \* size_
    capacity,    \* capacity_
    room,        \* the entries for which the allocated block has room
    hole,        \* holeIndex of the running shiftUp() or shiftDown()
    pc,          \* "idle", "up", "down"; "overrun": an entry was stored
                 \* beyond the block
    out          \* what the last pop() returned

vars == <<pHeap, size, capacity, room, hole, pc, out>>

Stored == {pHeap[i] : i \in 0 .. size - 1}
KeyAt(i) == Key[pHeap[i]]

TypeOK ==
    /\ size \in Nat
    /\ pHeap \in [0 .. size - 1 -> Entries]
    /\ capacity \in Nat
    /\ room \in Nat
    /\ pc \in {"idle", "up", "down", "overrun"}
    /\ hole \in Nat
    /\ pc = "up" => hole < size
    /\ pc = "down" => hole < size \/ (hole = 0 /\ size = 0)
    /\ out \in Entries \cup {NoEntry}

\* MinHeap::MinHeap() and init()
Init ==
    /\ size = 0
    /\ pHeap = [i \in 0 .. -1 |-> NoEntry]
    /\ capacity = Initial
    /\ room = Initial
    /\ hole = 0
    /\ pc = "idle"
    /\ out = NoEntry

-----------------------------------------------------------------------------

heap_parent(i) == (i - 1) \div 2
heap_left(i) == 2 * i + 1
heap_right(i) == 2 * i + 2

Swapped(h, i, j) == [h EXCEPT ![i] = h[j], ![j] = h[i]]

\* Mutant: the block grows one entry too early.
ResizeEarly ==
    IF capacity <= size + 1
    THEN /\ capacity' = 2 * capacity
         /\ room' = capacity' \div EntrySize
    ELSE UNCHANGED <<capacity, room>>

\* resize(size_ + 1).  realloc() is given the number of entries for the number
\* of bytes.  When it fails, push() returns -1 and nothing has changed.
resize ==
    IF capacity < size + 1
    THEN /\ capacity' = 2 * capacity
         /\ room' = capacity' \div EntrySize
    ELSE UNCHANGED <<capacity, room>>

\* push(), up to the call of shiftUp().  Memory beyond the block is not
\* modelled: a store there ends the behaviour.
push(e) ==
    /\ pc = "idle"
    /\ e \notin Stored
    /\ resize
    /\ IF size < room'
       THEN /\ pHeap' = [i \in 0 .. size |-> IF i = size THEN e ELSE pHeap[i]]
            /\ size' = size + 1
            /\ hole' = size
            /\ pc' = "up"
       ELSE /\ pc' = "overrun"
            /\ UNCHANGED <<pHeap, size, hole>>
    /\ UNCHANGED out

shiftUp ==
    /\ pc = "up"
    /\ LET parent == heap_parent(hole)
       IN  IF hole # 0 /\ KeyAt(parent) > KeyAt(hole)
           THEN /\ pHeap' = Swapped(pHeap, parent, hole)
                /\ hole' = parent
                /\ UNCHANGED pc
           ELSE /\ pc' = "idle"
                /\ UNCHANGED <<pHeap, hole>>
    /\ UNCHANGED <<size, capacity, room, out>>

\* Mutant: the moved entry is not shifted down.
PopLeavesRoot ==
    /\ pc = "idle"
    /\ size > 0
    /\ out' = pHeap[0]
    /\ pHeap' = [i \in 0 .. size - 2 |-> IF i = 0 THEN pHeap[size - 1] ELSE pHeap[i]]
    /\ size' = size - 1
    /\ UNCHANGED <<capacity, room, hole, pc>>

\* pop(), up to the call of shiftDown() ...
pop ==
    /\ pc = "idle"
    /\ size > 0
    /\ out' = pHeap[0]
    /\ pHeap' = [i \in 0 .. size - 2 |-> IF i = 0 THEN pHeap[size - 1] ELSE pHeap[i]]
    /\ size' = size - 1
    /\ hole' = 0
    /\ pc' = "down"
    /\ UNCHANGED <<capacity, room>>

\* ... and of an empty heap.
popEmpty ==
    /\ pc = "idle"
    /\ size = 0
    /\ out' = NoEntry
    /\ UNCHANGED <<pHeap, size, capacity, room, hole, pc>>

\* Mutant: the right child is compared with the entry in the hole.
MinIndexAgainstHole(i) ==
    LET left == heap_left(i)
        right == heap_right(i)
        first == IF left < size /\ KeyAt(i) > KeyAt(left) THEN left ELSE i
    IN  IF right < size /\ KeyAt(i) > KeyAt(right) THEN right ELSE first

\* min_index of shiftDown(i): the left child if it is less, and then the right
\* one if it is less than the first choice.
MinIndex(i) ==
    LET left == heap_left(i)
        right == heap_right(i)
        first == IF left < size /\ KeyAt(i) > KeyAt(left) THEN left ELSE i
    IN  IF right < size /\ KeyAt(first) > KeyAt(right) THEN right ELSE first

shiftDown ==
    /\ pc = "down"
    /\ LET min == MinIndex(hole)
       IN  IF min # hole
           THEN /\ pHeap' = Swapped(pHeap, min, hole)
                /\ hole' = min
                /\ UNCHANGED pc
           ELSE /\ pc' = "idle"
                /\ UNCHANGED <<pHeap, hole>>
    /\ UNCHANGED <<size, capacity, room, out>>

Next ==
    \/ \E e \in Entries : push(e)
    \/ shiftUp
    \/ pop
    \/ popEmpty
    \/ shiftDown

Spec == Init /\ [][Next]_vars

-----------------------------------------------------------------------------

\* When no operation is running, no entry is less than its parent.
HeapOrdered ==
    pc = "idle" => \A i \in 1 .. size - 1 : KeyAt(heap_parent(i)) <= KeyAt(i)

\* No entry is stored outside the allocated block before the heap has held
\* MIN_HEAP_INITIAL entries at once.
FitsUntilGrowth == pc = "overrun" => size >= Initial

\* The entry that is, or will be when the running operation ends, at the root.
Top ==
    IF size = 0 THEN NoEntry
    ELSE IF pc = "up" /\ KeyAt(hole) < KeyAt(0) THEN pHeap[hole]
    ELSE IF pc = "down" /\ hole = 0 THEN pHeap[MinIndex(0)]
    ELSE pHeap[0]

\* pop() returns a least entry, and no entry is lost, doubled or invented,
\* whatever the shifts do.  An operation takes effect when it starts.
PQ == INSTANCE PriorityQueue WITH queue <- Stored, top <- Top

ImplementsPriorityQueue == PQ!Spec
=============================================================================
