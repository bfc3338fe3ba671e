--------------------------- MODULE MinHeapProofs ---------------------------
(***************************************************************************)
(* The heap order of a MinHeap, for any number of entries and any keys, and*)
(* that a MinHeap is a priority queue.                                     *)
(***************************************************************************)
EXTENDS MinHeap, WellFoundedInduction, TLAPS

Less == {ss \in Nat \X Nat : ss[1] < ss[2]}

\* A set of natural numbers that is not empty has a least element.
LEMMA LeastNat ==
    ASSUME NEW T \in SUBSET Nat, T # {}
    PROVE  \E n \in T : \A m \in T : n <= m
<1>1. IsWellFoundedOn(Less, Nat)
  BY NatLessThanWellFounded DEF OpToRel, Less
<1>2. PICK n \in T : \A m \in T : ~(<<m, n>> \in Less)
  BY <1>1, WFMin
<1>3. \A m \in T : ~(m < n)
  BY <1>2 DEF Less
<1>4. QED
  BY <1>3

-----------------------------------------------------------------------------
\* c is a child of p.
Child(p, c) == c = heap_left(p) \/ c = heap_right(p)

\* The parent of an index other than the root's comes before it and is the
\* only index of which it is a child.
LEMMA Parents ==
    ASSUME NEW i \in Nat, i # 0
    PROVE  /\ heap_parent(i) \in Nat /\ heap_parent(i) < i
           /\ Child(heap_parent(i), i)
           /\ \A p \in Nat : Child(p, i) => p = heap_parent(i)
BY DEF heap_parent, heap_left, heap_right, Child

\* The order holds on all edges but those to the entry in the hole, whose
\* children are not less than its parent.
UpOrdered ==
    /\ \A p, c \in 0 .. size - 1 :
           Child(p, c) /\ c # hole => KeyAt(p) <= KeyAt(c)
    /\ \A p, c \in 0 .. size - 1 :
           Child(p, hole) /\ Child(hole, c) => KeyAt(p) <= KeyAt(c)

\* The order holds on all edges but those from the entry in the hole, whose
\* children are not less than its parent.
DownOrdered ==
    /\ \A p, c \in 0 .. size - 1 :
           Child(p, c) /\ p # hole => KeyAt(p) <= KeyAt(c)
    /\ \A p, c \in 0 .. size - 1 :
           Child(p, hole) /\ Child(hole, c) => KeyAt(p) <= KeyAt(c)

AllOrdered ==
    \A p, c \in 0 .. size - 1 : Child(p, c) => KeyAt(p) <= KeyAt(c)

OrderInv ==
    /\ pc = "idle" => AllOrdered
    /\ pc = "up" => UpOrdered
    /\ pc = "down" => DownOrdered

\* No entry is stored twice.
Distinct ==
    \A i, j \in 0 .. size - 1 : pHeap[i] = pHeap[j] => i = j

Inv == TypeOK /\ Distinct /\ OrderInv

LEMMA KeysAreInts == TypeOK => \A i \in 0 .. size - 1 : KeyAt(i) \in Int
BY ConstantsOK DEF TypeOK, KeyAt, ConstantsOK

LEMMA InitInv == Init => Inv
BY ConstantsOK DEF Init, Inv, TypeOK, Distinct, OrderInv, AllOrdered, ConstantsOK

\* MinIndex() chooses the least of an entry and its children.
LEMMA MinIndexIsLeast ==
    ASSUME TypeOK, NEW h \in 0 .. size - 1
    PROVE  /\ MinIndex(h) \in 0 .. size - 1
           /\ \/ MinIndex(h) = h
              \/ Child(h, MinIndex(h)) /\ KeyAt(MinIndex(h)) < KeyAt(h)
           /\ KeyAt(MinIndex(h)) <= KeyAt(h)
           /\ \A c \in 0 .. size - 1 : Child(h, c) => KeyAt(MinIndex(h)) <= KeyAt(c)
<1>1. \A i \in 0 .. size - 1 : KeyAt(i) \in Int
  BY KeysAreInts
<1>2. size \in Nat
  BY DEF TypeOK
<1> DEFINE left == heap_left(h)
           right == heap_right(h)
           first == IF left < size /\ KeyAt(h) > KeyAt(left) THEN left ELSE h
           m == MinIndex(h)
<1>3. left \in Nat /\ right \in Nat /\ h \in Nat /\ left # right
  BY DEF heap_left, heap_right
<1>4. /\ first \in 0 .. size - 1
      /\ first = h \/ (first = left /\ KeyAt(left) < KeyAt(h))
      /\ KeyAt(first) <= KeyAt(h)
      /\ left < size => KeyAt(first) <= KeyAt(left)
  <2>1. CASE left < size /\ KeyAt(h) > KeyAt(left)
    BY <1>1, <1>2, <1>3, <2>1
  <2>2. CASE ~(left < size /\ KeyAt(h) > KeyAt(left))
    BY <1>1, <1>2, <1>3, <2>2
  <2>3. QED
    BY <2>1, <2>2
<1>5. m = IF right < size /\ KeyAt(first) > KeyAt(right) THEN right ELSE first
  BY DEF MinIndex
<1> HIDE DEF left, right, first, m
<1>6. /\ m \in 0 .. size - 1
      /\ m = h \/ ((m = left \/ m = right) /\ KeyAt(m) < KeyAt(h))
      /\ KeyAt(m) <= KeyAt(h)
      /\ left < size => KeyAt(m) <= KeyAt(left)
      /\ right < size => KeyAt(m) <= KeyAt(right)
  <2>1. CASE right < size /\ KeyAt(first) > KeyAt(right)
    BY <1>1, <1>2, <1>3, <1>4, <1>5, <2>1
  <2>2. CASE ~(right < size /\ KeyAt(first) > KeyAt(right))
    <3>1. m = first
      BY <1>5, <2>2
    <3>2. right < size => KeyAt(first) <= KeyAt(right)
      BY <1>1, <1>2, <1>3, <1>4, <2>2
    <3>3. QED
      BY <1>4, <3>1, <3>2
  <2>3. QED
    BY <2>1, <2>2
<1>7. QED
  BY <1>2, <1>6 DEF Child, left, right, m

\* The root is not greater than any entry, when its children are ordered.
LEMMA RootIsLeast ==
    ASSUME TypeOK, AllOrdered
    PROVE  \A i \in 0 .. size - 1 : KeyAt(0) <= KeyAt(i)
<1> DEFINE T == {i \in 0 .. size - 1 : ~(KeyAt(0) <= KeyAt(i))}
<1>1. \A i \in 0 .. size - 1 : KeyAt(i) \in Int
  BY KeysAreInts
<1>2. SUFFICES ASSUME T # {}
               PROVE  FALSE
  OBVIOUS
<1>3. PICK i \in T : \A j \in T : i <= j
  <2>1. T \in SUBSET Nat
    BY DEF TypeOK
  <2>2. QED
    BY <1>2, <2>1, LeastNat
<1>4. i \in 0 .. size - 1 /\ i # 0 /\ size \in Nat
  BY <1>1, <1>3 DEF TypeOK
<1> DEFINE p == heap_parent(i)
<1>5. p \in 0 .. size - 1 /\ p < i /\ Child(p, i)
  BY <1>4, Parents
<1>6. KeyAt(0) <= KeyAt(p)
  BY <1>3, <1>4, <1>5
<1>7. KeyAt(p) <= KeyAt(i)
  BY <1>4, <1>5 DEF AllOrdered
<1>8. QED
  BY <1>1, <1>3, <1>4, <1>5, <1>6, <1>7

\* When an entry has just been moved to the root, the least of the root and
\* its children is not greater than any entry.
LEMMA NextRootIsLeast ==
    ASSUME TypeOK, DownOrdered, hole = 0, size # 0
    PROVE  /\ MinIndex(0) \in 0 .. size - 1
           /\ \A i \in 0 .. size - 1 : KeyAt(MinIndex(0)) <= KeyAt(i)
<1> DEFINE m == MinIndex(0)
           T == {i \in 0 .. size - 1 : ~(KeyAt(m) <= KeyAt(i))}
<1>1. \A i \in 0 .. size - 1 : KeyAt(i) \in Int
  BY KeysAreInts
<1>2. /\ m \in 0 .. size - 1 /\ 0 \in 0 .. size - 1
      /\ KeyAt(m) <= KeyAt(0)
      /\ \A c \in 0 .. size - 1 : Child(0, c) => KeyAt(m) <= KeyAt(c)
  <2>1. 0 \in 0 .. size - 1
    BY DEF TypeOK
  <2>2. QED
    BY <2>1, MinIndexIsLeast
<1> HIDE DEF m
<1>3. SUFFICES ASSUME T # {}
               PROVE  FALSE
  BY <1>2 DEF m
<1>4. PICK i \in T : \A j \in T : i <= j
  <2>1. T \in SUBSET Nat
    BY DEF TypeOK
  <2>2. QED
    BY <1>3, <2>1, LeastNat
<1>5. i \in 0 .. size - 1 /\ i # 0 /\ size \in Nat
  BY <1>2, <1>4 DEF TypeOK
<1> DEFINE p == heap_parent(i)
<1>6. p \in 0 .. size - 1 /\ p < i /\ Child(p, i)
  BY <1>5, Parents
<1> HIDE DEF p
<1>7. p # 0
  BY <1>2, <1>4, <1>5, <1>6
<1>8. KeyAt(m) <= KeyAt(p)
  BY <1>4, <1>5, <1>6
<1>9. KeyAt(p) <= KeyAt(i)
  BY <1>5, <1>6, <1>7 DEF DownOrdered
<1>10. QED
  BY <1>1, <1>2, <1>4, <1>5, <1>6, <1>8, <1>9

-----------------------------------------------------------------------------
LEMMA QuotientIsNat == \A a \in Nat, b \in Nat \ {0} : a \div b \in Nat
OBVIOUS

\* Swapping two entries.
LEMMA SwapKeeps ==
    ASSUME TypeOK, Distinct, NEW i \in 0 .. size - 1, NEW j \in 0 .. size - 1,
           i # j, pHeap' = Swapped(pHeap, i, j), size' = size
    PROVE  /\ pHeap' \in [0 .. size - 1 -> Entries]
           /\ Distinct'
           /\ Stored' = Stored
           /\ pHeap'[i] = pHeap[j] /\ pHeap'[j] = pHeap[i]
           /\ Key[pHeap'[i]] = KeyAt(j) /\ Key[pHeap'[j]] = KeyAt(i)
           /\ \A k \in 0 .. size - 1 :
                  k # i /\ k # j => pHeap'[k] = pHeap[k] /\ Key[pHeap'[k]] = KeyAt(k)
<1>1. /\ pHeap' = [pHeap EXCEPT ![i] = pHeap[j], ![j] = pHeap[i]]
      /\ pHeap \in [0 .. size - 1 -> Entries]
  BY DEF Swapped, TypeOK
<1>2. /\ pHeap' \in [0 .. size - 1 -> Entries]
      /\ pHeap'[i] = pHeap[j] /\ pHeap'[j] = pHeap[i]
      /\ \A k \in 0 .. size - 1 : k # i /\ k # j => pHeap'[k] = pHeap[k]
  BY <1>1
<1>3. /\ Key[pHeap'[i]] = KeyAt(j) /\ Key[pHeap'[j]] = KeyAt(i)
      /\ \A k \in 0 .. size - 1 : k # i /\ k # j => Key[pHeap'[k]] = KeyAt(k)
  BY <1>2 DEF KeyAt
<1>4. Distinct'
  BY <1>2 DEF Distinct
<1>5. Stored' = Stored
  BY <1>2 DEF Stored
<1>6. QED
  BY <1>2, <1>3, <1>4, <1>5

LEMMA PushKeepsInv ==
    ASSUME Inv, NEW e \in Entries, push(e)
    PROVE  Inv'
<1> USE DEF Inv
<1>1. /\ size \in Nat /\ pHeap \in [0 .. size - 1 -> Entries]
      /\ pc = "idle" /\ AllOrdered
  BY DEF TypeOK, push, OrderInv
<1>2. capacity' \in Nat /\ room' \in Nat
  <2>1. capacity \in Nat /\ room \in Nat /\ EntrySize \in Nat \ {0}
    BY ConstantsOK DEF TypeOK, ConstantsOK
  <2>2. (2 * capacity) \div EntrySize \in Nat
    BY <2>1, QuotientIsNat
  <2>3. QED
    BY <2>1, <2>2 DEF push, resize
<1>3. CASE size < room'
  <2>1. /\ pHeap' = [i \in 0 .. size |-> IF i = size THEN e ELSE pHeap[i]]
        /\ size' = size + 1 /\ hole' = size /\ pc' = "up" /\ out' = out
    BY <1>3 DEF push
  <2>2. TypeOK'
    BY <1>1, <1>2, <2>1 DEF TypeOK
  <2>3. \A i \in 0 .. size - 1 : pHeap'[i] = pHeap[i] /\ Key[pHeap'[i]] = KeyAt(i)
    BY <1>1, <2>1 DEF KeyAt
  <2>4. Distinct'
    <3>1. \A i \in 0 .. size - 1 : pHeap[i] # e
      BY DEF push, Stored
    <3>2. QED
      BY <1>1, <2>1, <2>3, <3>1 DEF Distinct
  <2>5. UpOrdered'
    BY <1>1, <2>1, <2>3 DEF UpOrdered, AllOrdered, KeyAt, Child, heap_left, heap_right
  <2>6. QED
    BY <2>1, <2>2, <2>4, <2>5 DEF OrderInv
<1>4. CASE ~(size < room')
  <2>1. UNCHANGED <<pHeap, size, hole, out>> /\ pc' = "overrun"
    BY <1>4 DEF push
  <2>2. TypeOK'
    BY <1>1, <1>2, <2>1 DEF TypeOK
  <2>3. QED
    BY <2>1, <2>2 DEF Distinct, OrderInv
<1>5. QED
  BY <1>3, <1>4

LEMMA ShiftUpKeepsInv ==
    ASSUME Inv, shiftUp
    PROVE  Inv' /\ Stored' = Stored
<1> USE DEF Inv
<1> DEFINE parent == heap_parent(hole)
<1>1. /\ size \in Nat /\ hole \in 0 .. size - 1 /\ pc = "up" /\ UpOrdered
      /\ UNCHANGED <<size, capacity, room, out>>
  BY DEF TypeOK, shiftUp, OrderInv
<1>2. \A i \in 0 .. size - 1 : KeyAt(i) \in Int
  BY KeysAreInts
<1>3. CASE hole # 0 /\ KeyAt(parent) > KeyAt(hole)
  <2>1. /\ pHeap' = Swapped(pHeap, parent, hole) /\ hole' = parent
        /\ pc' = pc
    BY <1>3 DEF shiftUp
  <2>2. /\ parent \in 0 .. size - 1 /\ parent < hole /\ Child(parent, hole)
        /\ \A p \in Nat : Child(p, hole) => p = parent
    BY <1>1, <1>3, Parents
  <2> HIDE DEF parent
  <2>3. /\ pHeap' \in [0 .. size - 1 -> Entries] /\ Distinct' /\ Stored' = Stored
        /\ Key[pHeap'[parent]] = KeyAt(hole) /\ Key[pHeap'[hole]] = KeyAt(parent)
        /\ \A k \in 0 .. size - 1 :
               k # parent /\ k # hole => Key[pHeap'[k]] = KeyAt(k)
    <3>1. TypeOK /\ Distinct /\ size' = size /\ hole \in 0 .. size - 1
      BY <1>1
    <3> HIDE DEF Inv
    <3>2. QED
      BY <2>1, <2>2, <3>1, SwapKeeps
  <2>4. TypeOK'
    BY <1>1, <2>1, <2>2, <2>3 DEF TypeOK
  <2>5. ASSUME NEW p \in 0 .. size - 1, NEW c \in 0 .. size - 1,
               Child(p, c), c # parent
        PROVE  Key[pHeap'[p]] <= Key[pHeap'[c]]
    <3>1. p < c
      BY <2>5 DEF Child, heap_left, heap_right
    <3>2. CASE c = hole
      BY <1>2, <1>3, <2>2, <2>3, <2>5, <3>2
    <3>3. CASE c # hole /\ p = parent
      BY <1>1, <1>2, <1>3, <2>2, <2>3, <2>5, <3>3 DEF UpOrdered
    <3>4. CASE c # hole /\ p = hole
      BY <1>1, <1>2, <2>2, <2>3, <2>5, <3>4 DEF UpOrdered
    <3>5. CASE c # hole /\ p # hole /\ p # parent
      BY <1>1, <2>3, <2>5, <3>5 DEF UpOrdered
    <3>6. QED
      BY <3>2, <3>3, <3>4, <3>5
  <2>6. ASSUME NEW p \in 0 .. size - 1, NEW c \in 0 .. size - 1,
               Child(p, parent), Child(parent, c)
        PROVE  Key[pHeap'[p]] <= Key[pHeap'[c]]
    <3>1. p < parent /\ parent < c
      BY <2>2, <2>6 DEF Child, heap_left, heap_right
    <3>2. Key[pHeap'[p]] = KeyAt(p) /\ KeyAt(p) <= KeyAt(parent)
      BY <1>1, <2>2, <2>3, <2>6, <3>1 DEF UpOrdered
    <3>3. CASE c = hole
      BY <2>3, <3>2, <3>3
    <3>4. CASE c # hole
      <4>1. Key[pHeap'[c]] = KeyAt(c) /\ KeyAt(parent) <= KeyAt(c)
        BY <1>1, <2>2, <2>3, <2>6, <3>1, <3>4 DEF UpOrdered
      <4>2. QED
        BY <1>2, <2>2, <3>2, <4>1
    <3>5. QED
      BY <3>3, <3>4
  <2>7. UpOrdered'
    BY <1>1, <2>1, <2>5, <2>6 DEF UpOrdered, KeyAt
  <2>8. QED
    BY <1>1, <2>1, <2>3, <2>4, <2>7 DEF OrderInv
<1>4. CASE ~(hole # 0 /\ KeyAt(parent) > KeyAt(hole))
  <2>1. UNCHANGED <<pHeap, hole, size, capacity, room, out>> /\ pc' = "idle"
    BY <1>4 DEF shiftUp
  <2>2. AllOrdered
    <3> SUFFICES ASSUME NEW p \in 0 .. size - 1, NEW c \in 0 .. size - 1,
                        Child(p, c)
                 PROVE  KeyAt(p) <= KeyAt(c)
      BY DEF AllOrdered
    <3>1. CASE c # hole
      BY <1>1, <3>1 DEF UpOrdered
    <3>2. CASE c = hole
      <4>1. hole # 0
        BY <3>2 DEF Child, heap_left, heap_right
      <4>2. p = parent
        BY <1>1, <3>2, <4>1, Parents
      <4>3. QED
        BY <1>2, <1>4, <3>2, <4>1, <4>2
    <3>3. QED
      BY <3>1, <3>2
  <2>3. QED
    BY <2>1, <2>2 DEF TypeOK, Distinct, OrderInv, AllOrdered, KeyAt, Stored
<1>5. QED
  BY <1>3, <1>4

LEMMA PopKeepsInv ==
    ASSUME Inv, pop
    PROVE  Inv'
<1> USE DEF Inv
<1>1. /\ size \in Nat \ {0} /\ pHeap \in [0 .. size - 1 -> Entries]
      /\ pc = "idle" /\ AllOrdered
  BY DEF TypeOK, pop, OrderInv
<1>2. /\ pHeap' = [i \in 0 .. size - 2 |->
                       IF i = 0 THEN pHeap[size - 1] ELSE pHeap[i]]
      /\ size' = size - 1 /\ hole' = 0 /\ pc' = "down" /\ out' = pHeap[0]
      /\ UNCHANGED <<capacity, room>>
  BY DEF pop
<1>3. TypeOK'
  BY <1>1, <1>2 DEF TypeOK
<1>4. \A i \in 1 .. size - 2 : pHeap'[i] = pHeap[i] /\ Key[pHeap'[i]] = KeyAt(i)
  BY <1>1, <1>2 DEF KeyAt
<1>5. Distinct'
  BY <1>1, <1>2, <1>4 DEF Distinct
<1>6. DownOrdered'
  BY <1>1, <1>2, <1>4 DEF DownOrdered, AllOrdered, KeyAt, Child, heap_left, heap_right
<1>7. QED
  BY <1>2, <1>3, <1>5, <1>6 DEF OrderInv

LEMMA ShiftDownKeepsInv ==
    ASSUME Inv, shiftDown
    PROVE  Inv' /\ Stored' = Stored
<1> USE DEF Inv
<1> DEFINE m == MinIndex(hole)
<1>1. /\ size \in Nat /\ hole \in Nat /\ pc = "down" /\ DownOrdered
      /\ hole < size \/ (hole = 0 /\ size = 0)
      /\ UNCHANGED <<size, capacity, room, out>>
  BY DEF TypeOK, shiftDown, OrderInv
<1>2. \A i \in 0 .. size - 1 : KeyAt(i) \in Int
  BY KeysAreInts
<1>3. CASE m # hole
  <2>1. /\ pHeap' = Swapped(pHeap, m, hole) /\ hole' = m /\ pc' = pc
    BY <1>3 DEF shiftDown
  <2>2. hole \in 0 .. size - 1
    BY <1>1, <1>3 DEF MinIndex, heap_left, heap_right
  <2>3. /\ m \in 0 .. size - 1 /\ Child(hole, m) /\ KeyAt(m) < KeyAt(hole)
        /\ \A c \in 0 .. size - 1 : Child(hole, c) => KeyAt(m) <= KeyAt(c)
    BY <1>3, <2>2, MinIndexIsLeast
  <2> HIDE DEF m
  <2>4. hole < m /\ \A p \in Nat : Child(p, m) => p = hole
    BY <2>2, <2>3 DEF Child, heap_left, heap_right
  <2>5. /\ pHeap' \in [0 .. size - 1 -> Entries] /\ Distinct' /\ Stored' = Stored
        /\ Key[pHeap'[m]] = KeyAt(hole) /\ Key[pHeap'[hole]] = KeyAt(m)
        /\ \A k \in 0 .. size - 1 : k # m /\ k # hole => Key[pHeap'[k]] = KeyAt(k)
    <3>1. TypeOK /\ Distinct /\ size' = size /\ m # hole
      BY <1>1, <1>3
    <3> HIDE DEF Inv
    <3>2. QED
      BY <2>1, <2>2, <2>3, <3>1, SwapKeeps
  <2>6. TypeOK'
    BY <1>1, <2>1, <2>3, <2>5 DEF TypeOK
  <2>7. ASSUME NEW p \in 0 .. size - 1, NEW c \in 0 .. size - 1,
               Child(p, c), p # m
        PROVE  Key[pHeap'[p]] <= Key[pHeap'[c]]
    <3>1. p < c
      BY <2>7 DEF Child, heap_left, heap_right
    <3>2. CASE p = hole /\ c = m
      BY <1>2, <2>2, <2>3, <2>5, <3>2
    <3>3. CASE p = hole /\ c # m
      BY <2>3, <2>5, <2>7, <3>1, <3>3
    <3>4. CASE p # hole /\ c = hole
      BY <1>1, <2>3, <2>5, <2>7, <3>4 DEF DownOrdered
    <3>5. CASE p # hole /\ c # hole
      <4>1. c # m
        BY <2>4, <2>7, <3>5
      <4>2. QED
        BY <1>1, <2>5, <2>7, <3>5, <4>1 DEF DownOrdered
    <3>6. QED
      BY <3>2, <3>3, <3>4, <3>5
  <2>8. ASSUME NEW p \in 0 .. size - 1, NEW c \in 0 .. size - 1,
               Child(p, m), Child(m, c)
        PROVE  Key[pHeap'[p]] <= Key[pHeap'[c]]
    <3>1. p = hole /\ m < c
      BY <2>3, <2>4, <2>8 DEF Child, heap_left, heap_right
    <3>2. Key[pHeap'[c]] = KeyAt(c) /\ KeyAt(m) <= KeyAt(c)
      BY <1>1, <1>3, <2>2, <2>3, <2>4, <2>5, <2>8, <3>1 DEF DownOrdered
    <3>3. QED
      BY <2>5, <3>1, <3>2
  <2>9. DownOrdered'
    BY <1>1, <2>1, <2>7, <2>8 DEF DownOrdered, KeyAt
  <2>10. QED
    BY <1>1, <2>1, <2>5, <2>6, <2>9 DEF OrderInv
<1>4. CASE m = hole
  <2>1. UNCHANGED <<pHeap, hole, size, capacity, room, out>> /\ pc' = "idle"
    BY <1>4 DEF shiftDown
  <2>2. AllOrdered
    <3> SUFFICES ASSUME NEW p \in 0 .. size - 1, NEW c \in 0 .. size - 1,
                        Child(p, c)
                 PROVE  KeyAt(p) <= KeyAt(c)
      BY DEF AllOrdered
    <3>1. CASE p # hole
      BY <1>1, <3>1 DEF DownOrdered
    <3>2. CASE p = hole
      BY <1>4, <3>2, MinIndexIsLeast
    <3>3. QED
      BY <3>1, <3>2
  <2>3. QED
    BY <2>1, <2>2 DEF TypeOK, Distinct, OrderInv, AllOrdered, KeyAt, Stored
<1>5. QED
  BY <1>3, <1>4

LEMMA StepKeepsInv == Inv /\ [Next]_vars => Inv'
<1> SUFFICES ASSUME Inv, [Next]_vars
             PROVE  Inv'
  OBVIOUS
<1>1. CASE popEmpty
  BY <1>1 DEF Inv, popEmpty, TypeOK, Distinct, OrderInv, AllOrdered, KeyAt
<1>2. CASE UNCHANGED vars
  BY <1>2 DEF Inv, vars, TypeOK, Distinct, OrderInv, AllOrdered, UpOrdered,
              DownOrdered, KeyAt
<1>3. QED
  BY <1>1, <1>2, PushKeepsInv, ShiftUpKeepsInv, PopKeepsInv, ShiftDownKeepsInv
     DEF Next

LEMMA InvHolds == Spec => []Inv
BY InitInv, StepKeepsInv, PTL DEF Spec

\* Every variable of a MinHeap keeps its type; holeIndex in particular is an
\* index of the array (MinHeap.h).
THEOREM MinHeapTypeCorrect == Spec => []TypeOK
BY InvHolds, PTL DEF Inv

\* When no operation is running, no entry is less than its parent, for any
\* number of entries and any keys (shiftUp and shiftDown of MinHeap.h).
THEOREM MinHeapIsOrdered == Spec => []HeapOrdered
<1>1. Inv => HeapOrdered
  <2> SUFFICES ASSUME Inv, pc = "idle", NEW i \in 1 .. size - 1
               PROVE  KeyAt(heap_parent(i)) <= KeyAt(i)
    BY DEF HeapOrdered
  <2>1. size \in Nat /\ i \in Nat /\ i # 0
    BY DEF Inv, TypeOK
  <2>2. heap_parent(i) \in 0 .. size - 1 /\ Child(heap_parent(i), i)
    BY <2>1, Parents
  <2>3. QED
    BY <2>1, <2>2 DEF Inv, OrderInv, AllOrdered
<1>2. QED
  BY <1>1, InvHolds, PTL

-----------------------------------------------------------------------------
\* The entry that the abstraction has on top is a least one, in every state.
LEMMA TopIsLeast ==
    Inv /\ size # 0 /\ (pc = "idle" \/ (pc = "down" /\ hole = 0))
        => Top \in PQ!Least(Stored)
<1> SUFFICES ASSUME Inv, size # 0, pc = "idle" \/ (pc = "down" /\ hole = 0)
             PROVE  Top \in PQ!Least(Stored)
  OBVIOUS
<1>1. size \in Nat \ {0} /\ TypeOK
  BY DEF Inv, TypeOK
<1> DEFINE m == IF pc = "idle" THEN 0 ELSE MinIndex(0)
<1>2. m \in 0 .. size - 1 /\ \A i \in 0 .. size - 1 : KeyAt(m) <= KeyAt(i)
  BY <1>1, RootIsLeast, NextRootIsLeast DEF Inv, OrderInv
<1>3. Top = pHeap[m]
  BY <1>1 DEF Top
<1> HIDE DEF m
<1>4. QED
  BY <1>2, <1>3 DEF PQ!Least, Stored, KeyAt

LEMMA PushRefines ==
    ASSUME Inv, NEW e \in Entries, push(e), pc' # "overrun"
    PROVE  PQ!Push(e)
<1>1. /\ pHeap' = [i \in 0 .. size |-> IF i = size THEN e ELSE pHeap[i]]
      /\ size' = size + 1 /\ hole' = size /\ pc' = "up" /\ out' = out
      /\ pc = "idle" /\ size \in Nat
  BY DEF push, Inv, TypeOK
<1>2. e \notin Stored
  BY DEF push
<1>3. Stored' = Stored \cup {e}
  BY <1>1 DEF Stored
<1>4. Stored = {} <=> size = 0
  BY <1>1 DEF Stored
<1>5. Top' = IF Stored = {} \/ Key[e] < Key[Top] THEN e ELSE Top
  <2>1. CASE size = 0
    BY <1>1, <1>4, <2>1 DEF Top, KeyAt
  <2>2. CASE size # 0
    <3>1. Top = pHeap[0] /\ pHeap'[0] = pHeap[0] /\ pHeap'[size] = e
      BY <1>1, <2>2 DEF Top
    <3>2. Top' = IF Key[e] < Key[pHeap[0]] THEN e ELSE pHeap[0]
      BY <1>1, <2>2, <3>1 DEF Top, KeyAt
    <3>3. QED
      BY <1>4, <2>2, <3>1, <3>2
  <2>3. QED
    BY <2>1, <2>2
<1>6. QED
  BY <1>1, <1>2, <1>3, <1>5 DEF PQ!Push

LEMMA PopRefines ==
    ASSUME Inv, pop
    PROVE  PQ!Pop
<1>1. /\ pHeap' = [i \in 0 .. size - 2 |->
                       IF i = 0 THEN pHeap[size - 1] ELSE pHeap[i]]
      /\ size' = size - 1 /\ hole' = 0 /\ pc' = "down" /\ out' = pHeap[0]
      /\ pc = "idle" /\ size \in Nat \ {0}
  BY DEF pop, Inv, TypeOK
<1>2. Top = pHeap[0] /\ Stored # {}
  BY <1>1 DEF Top, Stored
<1>3. Stored' = Stored \ {pHeap[0]}
  <2>1. \A i \in 1 .. size - 1 : pHeap[i] # pHeap[0]
    BY <1>1 DEF Inv, Distinct
  <2>2. ASSUME NEW x \in Stored'
        PROVE  x \in Stored \ {pHeap[0]}
    <3>1. PICK i \in 0 .. size - 2 : x = pHeap'[i]
      BY <1>1 DEF Stored
    <3>2. PICK j \in 1 .. size - 1 : x = pHeap[j]
      BY <1>1, <3>1
    <3>3. QED
      BY <2>1, <3>2 DEF Stored
  <2>3. ASSUME NEW x \in Stored \ {pHeap[0]}
        PROVE  x \in Stored'
    <3>1. PICK j \in 1 .. size - 1 : x = pHeap[j]
      BY <1>1 DEF Stored
    <3>2. PICK i \in 0 .. size - 2 : x = pHeap'[i]
      BY <1>1, <3>1
    <3>3. QED
      BY <1>1, <3>2 DEF Stored
  <2>4. QED
    BY <2>2, <2>3
<1>4. Inv'
  BY PopKeepsInv
<1>5. Top' \in IF Stored' = {} THEN {NoEntry} ELSE PQ!Least(Stored')
  <2>1. CASE size' = 0
    BY <1>1, <2>1 DEF Top, Stored
  <2>2. CASE size' # 0
    <3>1. Stored' # {}
      <4>1. 0 \in 0 .. size' - 1
        BY <1>1, <2>2
      <4>2. QED
        BY <4>1 DEF Stored
    <3>2. Top' \in PQ!Least(Stored')
      <4>1. (Inv /\ size # 0 /\ (pc = "idle" \/ (pc = "down" /\ hole = 0))
                 => Top \in PQ!Least(Stored))'
        BY TopIsLeast, PTL
      <4>2. QED
        BY <1>1, <1>4, <2>2, <4>1
    <3>3. QED
      BY <3>1, <3>2
  <2>3. QED
    BY <2>1, <2>2
<1>6. QED
  BY <1>1, <1>2, <1>3, <1>5 DEF PQ!Pop

LEMMA ShiftUpRefines ==
    ASSUME Inv, shiftUp
    PROVE  UNCHANGED <<Stored, Top, out>>
<1> DEFINE parent == heap_parent(hole)
<1>1. /\ TypeOK /\ Distinct /\ size \in Nat \ {0} /\ hole \in 0 .. size - 1
      /\ pc = "up" /\ UNCHANGED <<size, out>>
  BY DEF Inv, TypeOK, shiftUp
<1>2. Inv' /\ Stored' = Stored
  BY ShiftUpKeepsInv
<1>3. \A i \in 0 .. size - 1 : KeyAt(i) \in Int
  BY <1>1, KeysAreInts
<1>4. CASE hole # 0 /\ KeyAt(parent) > KeyAt(hole)
  <2>1. /\ pHeap' = Swapped(pHeap, parent, hole) /\ hole' = parent
        /\ pc' = pc
    BY <1>4 DEF shiftUp
  <2>2. parent \in 0 .. size - 1 /\ parent < hole
    BY <1>1, <1>4, Parents
  <2> HIDE DEF parent
  <2>3. /\ pHeap'[parent] = pHeap[hole] /\ Key[pHeap'[parent]] = KeyAt(hole)
        /\ parent # 0 => pHeap'[0] = pHeap[0] /\ Key[pHeap'[0]] = KeyAt(0)
    BY <1>1, <2>1, <2>2, SwapKeeps
  <2>4. Top = IF KeyAt(hole) < KeyAt(0) THEN pHeap[hole] ELSE pHeap[0]
    BY <1>1 DEF Top
  <2>5. Top' = IF Key[pHeap'[parent]] < Key[pHeap'[0]]
               THEN pHeap'[parent] ELSE pHeap'[0]
    BY <1>1, <2>1 DEF Top, KeyAt
  <2>6. Top' = Top
    <3>1. CASE parent = 0
      <4>1. KeyAt(hole) < KeyAt(0) /\ pHeap'[0] = pHeap[hole]
        BY <1>1, <1>3, <1>4, <2>3, <3>1 DEF parent
      <4>2. QED
        BY <2>3, <2>4, <2>5, <3>1, <4>1
    <3>2. CASE parent # 0
      BY <2>3, <2>4, <2>5, <3>2
    <3>3. QED
      BY <3>1, <3>2
  <2>7. QED
    BY <1>1, <1>2, <2>6
<1>5. CASE ~(hole # 0 /\ KeyAt(parent) > KeyAt(hole))
  <2>1. UNCHANGED <<pHeap, hole>> /\ pc' = "idle"
    BY <1>5 DEF shiftUp
  <2>2. AllOrdered
    BY <1>1, <1>2, <2>1 DEF Inv, OrderInv, AllOrdered, KeyAt
  <2>3. ~(KeyAt(hole) < KeyAt(0))
    BY <1>1, <1>3, <2>2, RootIsLeast
  <2>4. Top = pHeap[0] /\ Top' = pHeap[0]
    BY <1>1, <2>1, <2>3 DEF Top
  <2>5. QED
    BY <1>1, <1>2, <2>4
<1>6. QED
  BY <1>4, <1>5

LEMMA ShiftDownRefines ==
    ASSUME Inv, shiftDown
    PROVE  UNCHANGED <<Stored, Top, out>>
<1> DEFINE m == MinIndex(hole)
<1>1. /\ TypeOK /\ Distinct /\ size \in Nat /\ hole \in Nat /\ pc = "down"
      /\ hole < size \/ (hole = 0 /\ size = 0)
      /\ UNCHANGED <<size, out>>
  BY DEF Inv, TypeOK, shiftDown
<1>2. Stored' = Stored
  BY ShiftDownKeepsInv
<1>3. Top = IF size = 0 THEN NoEntry ELSE IF hole = 0 THEN pHeap[m] ELSE pHeap[0]
  BY <1>1 DEF Top
<1>4. CASE m # hole
  <2>1. pHeap' = Swapped(pHeap, m, hole) /\ hole' = m /\ pc' = pc
    BY <1>4 DEF shiftDown
  <2>2. hole \in 0 .. size - 1 /\ size # 0
    BY <1>1, <1>4 DEF MinIndex, heap_left, heap_right
  <2>3. m \in 0 .. size - 1 /\ Child(hole, m)
    BY <1>1, <1>4, <2>2, MinIndexIsLeast
  <2>4. m # 0
    BY <2>2, <2>3 DEF Child, heap_left, heap_right
  <2> HIDE DEF m
  <2>5. /\ pHeap'[hole] = pHeap[m]
        /\ \A k \in 0 .. size - 1 : k # m /\ k # hole => pHeap'[k] = pHeap[k]
    BY <1>1, <1>4, <2>1, <2>2, <2>3, SwapKeeps
  <2>6. Top' = pHeap'[0]
    BY <1>1, <2>1, <2>2, <2>4 DEF Top
  <2>7. pHeap'[0] = IF hole = 0 THEN pHeap[m] ELSE pHeap[0]
    BY <1>1, <2>2, <2>4, <2>5
  <2>8. Top' = Top
    BY <1>3, <2>2, <2>6, <2>7
  <2>9. QED
    BY <1>1, <1>2, <2>8
<1>5. CASE m = hole
  <2>1. UNCHANGED pHeap /\ pc' = "idle"
    BY <1>5 DEF shiftDown
  <2>2. Top' = IF size = 0 THEN NoEntry ELSE pHeap[0]
    BY <1>1, <2>1 DEF Top
  <2>3. QED
    BY <1>1, <1>2, <1>3, <1>5, <2>2
<1>6. QED
  BY <1>4, <1>5

LEMMA StepRefines == Inv /\ [Next]_vars => [PQ!Next]_(PQ!pqvars)
<1> SUFFICES ASSUME Inv, [Next]_vars
             PROVE  [PQ!Next]_(PQ!pqvars)
  OBVIOUS
<1>1. ASSUME NEW e \in Entries, push(e), pc' # "overrun"
      PROVE  PQ!Next
  BY <1>1, PushRefines DEF PQ!Next
<1>2. ASSUME NEW e \in Entries, push(e), pc' = "overrun"
      PROVE  UNCHANGED PQ!pqvars
  <2>1. pc = "idle" /\ UNCHANGED <<pHeap, size, out>>
    BY <1>2 DEF push
  <2>2. QED
    BY <1>2, <2>1 DEF PQ!pqvars, Stored, Top
<1>3. CASE popEmpty
  <2>1. /\ size = 0 /\ out' = NoEntry /\ pc = "idle"
        /\ UNCHANGED <<pHeap, size, hole, pc>>
    BY <1>3 DEF popEmpty
  <2>2. Stored = {} /\ Stored' = Stored /\ Top' = Top
    BY <2>1 DEF Stored, Top
  <2>3. QED
    BY <2>1, <2>2 DEF PQ!Next, PQ!PopEmpty
<1>4. CASE pop
  BY <1>4, PopRefines DEF PQ!Next
<1>5. CASE shiftUp \/ shiftDown
  BY <1>5, ShiftUpRefines, ShiftDownRefines DEF PQ!pqvars
<1>6. CASE UNCHANGED vars
  BY <1>6 DEF vars, PQ!pqvars, Stored, Top, MinIndex, KeyAt
<1>7. QED
  BY <1>1, <1>2, <1>3, <1>4, <1>5, <1>6 DEF Next

\* A MinHeap is a priority queue: pop() returns a least entry and the shifts
\* lose, double and invent none (push, pop, shiftUp, shiftDown of MinHeap.h).
THEOREM MinHeapImplementsPriorityQueue == Spec => ImplementsPriorityQueue
<1>1. Init => PQ!Init
  BY DEF Init, PQ!Init, Stored, Top
<1>2. QED
  BY <1>1, InvHolds, StepRefines, PTL DEF Spec, ImplementsPriorityQueue, PQ!Spec

-----------------------------------------------------------------------------
\* The block has room for Initial entries, until an entry is stored beyond it.
RoomInv ==
    /\ capacity >= Initial
    /\ pc # "overrun" => room >= Initial
    /\ FitsUntilGrowth

LEMMA StepKeepsRoom == Inv /\ Inv' /\ RoomInv /\ [Next]_vars => RoomInv'
<1> SUFFICES ASSUME Inv, Inv', RoomInv, [Next]_vars
             PROVE  RoomInv'
  OBVIOUS
<1>1. /\ size \in Nat /\ capacity \in Nat /\ room \in Nat
      /\ capacity' \in Nat /\ room' \in Nat /\ Initial \in Nat \ {0}
  BY ConstantsOK DEF Inv, TypeOK, ConstantsOK
<1>2. ASSUME NEW e \in Entries, push(e)
      PROVE  RoomInv'
  <2>1. pc = "idle" /\ capacity >= Initial /\ room >= Initial
    BY <1>2 DEF push, RoomInv
  <2>2. \/ capacity' = capacity /\ room' = room
        \/ capacity < size + 1 /\ capacity' = 2 * capacity
    BY <1>2 DEF push, resize
  <2>3. capacity' >= Initial /\ (room' >= Initial \/ size >= Initial)
    BY <1>1, <2>1, <2>2
  <2>4. CASE size < room'
    <3>1. pc' = "up"
      BY <1>2, <2>4 DEF push
    <3>2. QED
      BY <1>1, <2>3, <2>4, <3>1 DEF RoomInv, FitsUntilGrowth
  <2>5. CASE ~(size < room')
    <3>1. pc' = "overrun" /\ size' = size
      BY <1>2, <2>5 DEF push
    <3>2. QED
      BY <1>1, <2>3, <2>5, <3>1 DEF RoomInv, FitsUntilGrowth
  <2>6. QED
    BY <2>4, <2>5
<1>3. CASE shiftUp \/ pop \/ popEmpty \/ shiftDown
  <2>1. UNCHANGED <<capacity, room>> /\ pc # "overrun" /\ pc' # "overrun"
    BY <1>3 DEF shiftUp, pop, popEmpty, shiftDown
  <2>2. QED
    BY <2>1 DEF RoomInv, FitsUntilGrowth
<1>4. CASE UNCHANGED vars
  BY <1>4 DEF vars, RoomInv, FitsUntilGrowth
<1>5. QED
  BY <1>2, <1>3, <1>4 DEF Next

\* Nothing is stored outside the block before the heap has held
\* MIN_HEAP_INITIAL entries at once, whatever the size of an entry (push and
\* resize of MinHeap.h).
THEOREM MinHeapFitsUntilGrowth == Spec => []FitsUntilGrowth
<1>1. Init => RoomInv
  BY ConstantsOK DEF Init, RoomInv, FitsUntilGrowth, ConstantsOK
<1>2. QED
  BY <1>1, InvHolds, StepKeepsRoom, PTL DEF Spec, RoomInv
=============================================================================
