-------------------------- MODULE ConnectionProofs --------------------------
(***************************************************************************)
(* What a Connection guarantees for any number of bytes, any socket and    *)
(* user code that sends and closes wherever it runs.                       *)
(***************************************************************************)
EXTENDS Connection, SequenceTheorems, TLAPS

USE DEF epollVars, streamVars, socketVars, peerVars, connVars

-----------------------------------------------------------------------------
(* The bytes, numbered.                                                    *)

\* The m bytes after the first k.
Numbers(k, m) == [i \in 1 .. m |-> k + i]

LEMMA NumbersIsSeq ==
    ASSUME NEW k \in Nat, NEW m \in Nat, NEW n \in Nat, k + m <= n
    PROVE  /\ Numbers(k, m) \in Seq(1 .. n) /\ Len(Numbers(k, m)) = m
           /\ Numbers(k, m) \in Seq(Nat)
           /\ \A i \in 1 .. m : Numbers(k, m)[i] = k + i
<1>1. \A i \in 1 .. m : k + i \in 1 .. n
  OBVIOUS
<1> QED BY <1>1 DEF Numbers

\* One sequence after another: the provers match the name Cat, and not \o.
Cat(s, t) == s \o t

LEMMA CatNumbers ==
    ASSUME NEW k \in Nat, NEW m \in Nat, NEW n \in Nat,
           NEW l \in Nat, l = k + m
    PROVE  Cat(Numbers(k, m), Numbers(l, n)) = Numbers(k, m + n)
<1> DEFINE a == Numbers(k, m)
           b == Numbers(l, n)
           c == Numbers(k, m + n)
<1>1. /\ a \in Seq(Nat) /\ Len(a) = m /\ \A i \in 1 .. m : a[i] = k + i
      /\ b \in Seq(Nat) /\ Len(b) = n /\ \A i \in 1 .. n : b[i] = l + i
      /\ c \in Seq(Nat) /\ Len(c) = m + n
      /\ \A i \in 1 .. m + n : c[i] = k + i
  <2>1. /\ k + m <= l + n /\ k + (m + n) <= l + n /\ l + n <= l + n
        /\ m + n \in Nat /\ l + n \in Nat
    OBVIOUS
  <2>2. a \in Seq(Nat) /\ Len(a) = m /\ \A i \in 1 .. m : a[i] = k + i
    BY <2>1, NumbersIsSeq
  <2>3. b \in Seq(Nat) /\ Len(b) = n /\ \A i \in 1 .. n : b[i] = l + i
    BY <2>1, NumbersIsSeq
  <2>4. /\ c \in Seq(Nat) /\ Len(c) = m + n
        /\ \A i \in 1 .. m + n : c[i] = k + i
    BY <2>1, NumbersIsSeq
  <2> QED BY <2>2, <2>3, <2>4, Zenon
<1> HIDE DEF a, b, c
<1>2. /\ a \o b \in Seq(Nat) /\ Len(a \o b) = m + n
      /\ \A i \in 1 .. m + n : (a \o b)[i] = IF i <= m THEN a[i] ELSE b[i - m]
  BY <1>1, ConcatProperties, Zenon
<1>3. \A i \in 1 .. m + n : (a \o b)[i] = c[i]
  <2> TAKE i \in 1 .. m + n
  <2>1. CASE i <= m
    BY <1>1, <1>2, <2>1
  <2>2. CASE i > m
    <3>1. i - m \in 1 .. n
      BY <2>2
    <3>2. b[i - m] = l + (i - m)
      BY <1>1, <3>1
    <3>3. l + (i - m) = k + i
      OBVIOUS
    <3>4. (a \o b)[i] = b[i - m] /\ c[i] = k + i
      BY <1>1, <1>2, <2>2
    <3> QED BY <3>2, <3>3, <3>4
  <2>3. i <= m \/ i > m
    OBVIOUS
  <2> QED BY <2>1, <2>2, <2>3
<1>4. a \o b = c
  BY <1>1, <1>2, <1>3, SeqEqual
<1> QED BY <1>4 DEF a, b, c, Cat

\* Cutting a sequence in two loses nothing.
LEMMA CutKeeps ==
    ASSUME NEW S, NEW s \in Seq(S), NEW n \in 0 .. Len(s)
    PROVE  /\ SubSeq(s, 1, n) \in Seq(S)
           /\ SubSeq(s, n + 1, Len(s)) \in Seq(S)
           /\ Cat(SubSeq(s, 1, n), SubSeq(s, n + 1, Len(s))) = s
           /\ n = Len(s) <=> SubSeq(s, n + 1, Len(s)) = <<>>
<1>1. Len(s) \in Nat /\ \A i \in 1 .. Len(s) : s[i] \in S
  BY LenProperties, ElementOfSeq
<1>2. /\ SubSeq(s, 1, n) \in Seq(S)
      /\ SubSeq(s, n + 1, Len(s)) \in Seq(S)
      /\ Len(SubSeq(s, n + 1, Len(s))) = Len(s) - n
  <2>1. \A i \in 1 .. n : s[i] \in S
    BY <1>1
  <2>2. \A i \in n + 1 .. Len(s) : s[i] \in S
    BY <1>1
  <2>3. n \in Int /\ n + 1 \in Int /\ Len(s) \in Int
    BY <1>1
  <2>4. SubSeq(s, 1, n) \in Seq(S)
    BY <2>1, <2>3, SubSeqProperties
  <2>5. /\ SubSeq(s, n + 1, Len(s)) \in Seq(S)
        /\ Len(SubSeq(s, n + 1, Len(s))) =
               IF n + 1 <= Len(s) THEN Len(s) - (n + 1) + 1 ELSE 0
    BY <2>2, <2>3, SubSeqProperties
  <2> QED BY <1>1, <2>4, <2>5
<1>3. Cat(SubSeq(s, 1, n), SubSeq(s, n + 1, Len(s))) = s
  <2>1. /\ 1 \in 1 .. Len(s) + 1 /\ n \in 1 - 1 .. Len(s)
        /\ Len(s) \in n .. Len(s)
    BY <1>1
  <2>2. SubSeq(s, 1, n) \o SubSeq(s, n + 1, Len(s)) = SubSeq(s, 1, Len(s))
    BY <2>1, ConcatAdjacentSubSeq
  <2> QED BY <2>2, SubSeqFull DEF Cat
<1>4. n = Len(s) <=> SubSeq(s, n + 1, Len(s)) = <<>>
  <2> DEFINE t == SubSeq(s, n + 1, Len(s))
  <2>1. t \in Seq(S) /\ Len(t) = Len(s) - n
    BY <1>2
  <2> HIDE DEF t
  <2>2. t = <<>> <=> Len(t) = 0
    BY <2>1, EmptySeq
  <2>3. Len(s) - n = 0 <=> n = Len(s)
    BY <1>1
  <2> QED BY <2>1, <2>2, <2>3 DEF t
<1> QED BY <1>2, <1>3, <1>4

LEMMA CatIsSeq ==
    ASSUME NEW S, NEW s \in Seq(S), NEW t \in Seq(S)
    PROVE  Cat(s, t) \in Seq(S)
BY ConcatProperties DEF Cat

LEMMA CatRegroups ==
    ASSUME NEW S, NEW s \in Seq(S), NEW t \in Seq(S), NEW u \in Seq(S)
    PROVE  Cat(Cat(s, t), u) = Cat(s, Cat(t, u))
BY ConcatAssociative DEF Cat

LEMMA CatEmpty ==
    ASSUME NEW S, NEW s \in Seq(S)
    PROVE  /\ Cat(s, <<>>) = s /\ Cat(<<>>, s) = s
           /\ \A t \in Seq(S) : Cat(s, t) = <<>> => t = <<>>
<1>1. Cat(s, <<>>) = s /\ Cat(<<>>, s) = s
  BY ConcatEmptySeq DEF Cat
<1>2. \A t \in Seq(S) : Cat(s, t) = <<>> => t = <<>>
  BY ConcatEqualIffEmpty DEF Cat
<1> QED BY <1>1, <1>2

\* Two parts that are sent one by one are what was sent at once.
LEMMA CatParts ==
    ASSUME NEW k \in Nat, NEW len \in Nat, NEW n \in 0 .. len
    PROVE  /\ Cat(Numbers(k, n), Numbers(k + n, len - n)) = Numbers(k, len)
           /\ Cat(Numbers(0, k), Numbers(k, len)) = Numbers(0, k + len)
<1>1. n \in Nat /\ len - n \in Nat /\ k + n \in Nat
  OBVIOUS
<1>2. Cat(Numbers(k, n), Numbers(k + n, len - n)) = Numbers(k, n + (len - n))
  BY <1>1, CatNumbers
<1>3. n + (len - n) = len
  OBVIOUS
<1>4. Cat(Numbers(0, k), Numbers(k, len)) = Numbers(0, k + len)
  BY CatNumbers
<1> QED BY <1>2, <1>3, <1>4

-----------------------------------------------------------------------------
(* The flags and the tables.                                               *)

\* isWriting_ says the same as the EV_WRITE of event_.
EventsOK ==
    /\ event \subseteq {"READ", "WRITE"} /\ interest \subseteq Bits
    /\ isWriting \in BOOLEAN /\ registered \in BOOLEAN /\ epollFailed \in BOOLEAN
    /\ isWriting <=> "WRITE" \in event

LEMMA Updated ==
    ASSUME EventsOK, NEW mask \in SUBSET {"READ", "WRITE"}, updateEvent(mask)
    PROVE  /\ interest' \subseteq Bits
           /\ registered' \in BOOLEAN /\ epollFailed' \in BOOLEAN
<1>1. mask \subseteq Bits
  BY DEF Bits
<1>2. CASE ~registered /\ addEvent(mask)
  BY <1>1, <1>2 DEF addEvent, EventsOK
<1>3. CASE registered /\ modEvent(mask)
  BY <1>1, <1>3, ConstantsOK DEF modEvent, EventsOK, ConstantsOK
<1>4. CASE epollFailed' = TRUE /\ UNCHANGED <<registered, interest>>
  BY <1>4 DEF EventsOK
<1> QED BY <1>2, <1>3, <1>4 DEF updateEvent

LEMMA Enabled ==
    ASSUME EventsOK, enableWriting
    PROVE  EventsOK' /\ "WRITE" \in event'
<1>1. CASE "WRITE" \in event
  BY <1>1 DEF enableWriting, EventsOK
<1>2. CASE "WRITE" \notin event
  <2>1. /\ event' = event \cup {"WRITE"} /\ isWriting' = TRUE
        /\ updateEvent(event \cup {"WRITE"})
    BY <1>2 DEF enableWriting, SetEvent
  <2>2. event \cup {"WRITE"} \in SUBSET {"READ", "WRITE"}
    BY DEF EventsOK
  <2>3. /\ interest' \subseteq Bits
        /\ registered' \in BOOLEAN /\ epollFailed' \in BOOLEAN
    BY <2>1, <2>2, Updated
  <2> QED BY <2>1, <2>2, <2>3 DEF EventsOK
<1> QED BY <1>1, <1>2

LEMMA Disabled ==
    ASSUME EventsOK, disableWriting
    PROVE  EventsOK' /\ ~isWriting'
<1>1. CASE "WRITE" \notin event
  BY <1>1 DEF disableWriting, EventsOK
<1>2. CASE "WRITE" \in event
  <2>1. /\ event' = event \ {"WRITE"} /\ isWriting' = FALSE
        /\ updateEvent(event \ {"WRITE"})
    BY <1>2 DEF disableWriting, SetEvent
  <2>2. event \ {"WRITE"} \in SUBSET {"READ", "WRITE"}
    BY DEF EventsOK
  <2>3. /\ interest' \subseteq Bits
        /\ registered' \in BOOLEAN /\ epollFailed' \in BOOLEAN
    BY <2>1, <2>2, Updated
  <2> QED BY <2>1, <2>2, <2>3 DEF EventsOK
<1> QED BY <1>1, <1>2

LEMMA Deleted ==
    ASSUME EventsOK, deleteEvent, UNCHANGED <<event, isWriting>>
    PROVE  EventsOK'
BY DEF EventsOK, deleteEvent, delEvent

-----------------------------------------------------------------------------
(* The stream.                                                             *)

StreamOK ==
    /\ sent \in 0 .. MaxSent /\ late \in BOOLEAN
    /\ outputBuf \in Seq(1 .. sent) /\ written \in Seq(1 .. sent)
    /\ Cat(written, outputBuf) = Numbers(0, sent)

LEMMA WritesSome ==
    ASSUME NEW len \in Nat, NEW n \in Writes(len)
    PROVE  n \in 0 .. len
BY DEF Writes

LEMMA RoomIsLeft ==
    ASSUME NEW n \in Nat, room \in 0 .. Room
    PROVE  RoomAfter(n) \in 0 .. Room
BY ConstantsOK DEF RoomAfter, ConstantsOK

\* What a write() of waiting bytes takes moves from outputBuf_ to the socket.
LEMMA Drained ==
    ASSUME StreamOK, NEW n, HandleWrite(n), isWriting
    PROVE  /\ StreamOK' /\ n \in 0 .. Len(outputBuf)
           /\ n = Len(outputBuf) <=> outputBuf' = <<>>
<1> DEFINE a == SubSeq(outputBuf, 1, n)
<1>1. /\ outputBuf \in Seq(1 .. sent) /\ written \in Seq(1 .. sent)
      /\ Cat(written, outputBuf) = Numbers(0, sent)
  BY DEF StreamOK
<1>0. n \in 0 .. Len(outputBuf)
  BY <1>1, WritesSome, LenProperties DEF HandleWrite
<1>2. /\ a \in Seq(1 .. sent) /\ outputBuf' \in Seq(1 .. sent)
      /\ Cat(a, outputBuf') = outputBuf
      /\ n = Len(outputBuf) <=> outputBuf' = <<>>
  <2>1. outputBuf' = SubSeq(outputBuf, n + 1, Len(outputBuf))
    BY DEF HandleWrite
  <2>2. /\ a \in Seq(1 .. sent) /\ SubSeq(outputBuf, n + 1, Len(outputBuf)) \in Seq(1 .. sent)
        /\ Cat(a, SubSeq(outputBuf, n + 1, Len(outputBuf))) = outputBuf
        /\ n = Len(outputBuf) <=> SubSeq(outputBuf, n + 1, Len(outputBuf)) = <<>>
    BY <1>0, <1>1, CutKeeps
  <2> QED BY <2>1, <2>2
<1>3. written' = Cat(written, a) /\ sent' = sent /\ late' \in BOOLEAN
  BY DEF Cat, HandleWrite, StreamOK
<1> HIDE DEF a
<1>4. Cat(Cat(written, a), outputBuf') = Cat(written, Cat(a, outputBuf'))
  BY <1>1, <1>2, CatRegroups
<1>5. Cat(written', outputBuf') = Numbers(0, sent)
  BY <1>1, <1>2, <1>3, <1>4
<1>6. written' \in Seq(1 .. sent)
  BY <1>1, <1>2, <1>3, CatIsSeq
<1> QED BY <1>0, <1>2, <1>3, <1>5, <1>6 DEF StreamOK

\* What send() does not write at once goes behind what waits already, and it
\* writes at once only if nothing waits.
LEMMA SendKeepsOrder ==
    ASSUME NEW k \in Nat, NEW len \in Nat, NEW n \in 0 .. len,
           NEW w \in Seq(1 .. k), NEW o \in Seq(1 .. k),
           Cat(w, o) = Numbers(0, k), o = <<>> \/ n = 0
    PROVE  LET w2 == Cat(w, Numbers(k, n))
               o2 == Cat(o, Numbers(k + n, len - n))
           IN  /\ w2 \in Seq(1 .. k + len) /\ o2 \in Seq(1 .. k + len)
               /\ Cat(w2, o2) = Numbers(0, k + len)
               /\ n = len => o2 = o
               /\ n < len => o2 # <<>>
<1> DEFINE w2 == Cat(w, Numbers(k, n))
           o2 == Cat(o, Numbers(k + n, len - n))
           S == 1 .. k + len
           a == Numbers(k, n)
           b == Numbers(k + n, len - n)
<1>1. w \in Seq(S) /\ o \in Seq(S)
  <2>1. 1 .. k \subseteq S
    OBVIOUS
  <2> HIDE DEF S
  <2> QED BY <2>1, SeqMonotonic
<1>2. a \in Seq(S) /\ Len(a) = n /\ b \in Seq(S) /\ Len(b) = len - n
  <2>1. /\ n \in Nat /\ len - n \in Nat /\ k + n \in Nat /\ k + len \in Nat
        /\ k + n <= k + len /\ k + n + (len - n) <= k + len
    OBVIOUS
  <2> QED BY <2>1, NumbersIsSeq
<1>3. Cat(a, b) = Numbers(k, len) /\ Cat(Numbers(0, k), Numbers(k, len)) = Numbers(0, k + len)
  BY CatParts
<1>4. /\ n = 0 => a = <<>>
      /\ n = len <=> b = <<>>
  <2> HIDE DEF a, b, S
  <2> QED BY <1>2, EmptySeq
<1>5. w2 = Cat(w, a) /\ o2 = Cat(o, b)
  OBVIOUS
<1> HIDE DEF S, a, b, w2, o2
<1>6. Cat(Cat(w, a), Cat(o, b)) = Cat(Cat(w, o), Cat(a, b))
  <2>1. CASE o = <<>>
    BY <1>1, <1>2, <2>1, CatEmpty, CatRegroups, CatIsSeq
  <2>2. CASE a = <<>>
    BY <1>1, <1>2, <2>2, CatEmpty, CatRegroups, CatIsSeq
  <2> QED BY <1>4, <2>1, <2>2
<1>7. Cat(w2, o2) = Numbers(0, k + len)
  BY <1>3, <1>5, <1>6
<1>8. w2 \in Seq(S) /\ o2 \in Seq(S)
  BY <1>1, <1>2, <1>5, CatIsSeq
<1>9. (n = len => o2 = o) /\ (n < len => o2 # <<>>)
  BY <1>1, <1>2, <1>4, <1>5, CatEmpty
<1> QED BY <1>7, <1>8, <1>9 DEF S, w2, o2

LEMMA Sent ==
    ASSUME StreamOK, NEW place, NEW len \in 1 .. MaxSent, NEW n \in 0 .. MaxSent,
           send(place, len, n)
    PROVE  /\ StreamOK' /\ n <= len
           /\ n = len => outputBuf' = outputBuf
           /\ n < len => outputBuf' # <<>>
<1>1. /\ sent \in Nat /\ MaxSent \in Nat /\ late \in BOOLEAN
      /\ outputBuf \in Seq(1 .. sent) /\ written \in Seq(1 .. sent)
      /\ Cat(written, outputBuf) = Numbers(0, sent)
  BY ConstantsOK DEF StreamOK, ConstantsOK, Cat
<1>2. len \in Nat /\ n \in 0 .. len
  BY <1>1, WritesSome DEF send
<1>3. /\ written' = Cat(written, Numbers(sent, n))
      /\ outputBuf' = Cat(outputBuf, Numbers(sent + n, len - n))
      /\ sent' = sent + len /\ sent + len <= MaxSent
      /\ outputBuf = <<>> \/ n = 0
  BY DEF send, Rest, Numbers, WritesAtOnce, Cat
<1>4. late' \in BOOLEAN
  BY <1>1 DEF send
<1> DEFINE w2 == Cat(written, Numbers(sent, n))
           o2 == Cat(outputBuf, Numbers(sent + n, len - n))
<1>5. /\ w2 \in Seq(1 .. sent + len) /\ o2 \in Seq(1 .. sent + len)
      /\ Cat(w2, o2) = Numbers(0, sent + len)
      /\ n = len => o2 = outputBuf
      /\ n < len => o2 # <<>>
  <2>1. outputBuf = <<>> \/ n = 0
    BY <1>3
  <2> QED BY <1>1, <1>2, <2>1, SendKeepsOrder
<1>6. /\ written' \in Seq(1 .. sent + len) /\ outputBuf' \in Seq(1 .. sent + len)
      /\ Cat(written', outputBuf') = Numbers(0, sent + len)
      /\ n = len => outputBuf' = outputBuf
      /\ n < len => outputBuf' # <<>>
  BY <1>3, <1>5
<1>7. sent' \in 0 .. MaxSent
  BY <1>1, <1>2, <1>3
<1> QED BY <1>2, <1>3, <1>4, <1>6, <1>7 DEF StreamOK

-----------------------------------------------------------------------------
(* The invariants.                                                         *)

\* What TypeOK says of the rest.
RestOK ==
    /\ revent \subseteq {"READ", "WRITE"}
    /\ pc \in Places \cup {"new", "wait", "read", "test", "write", "lost",
                           "deleted", "dangling"}
    /\ caller \in Places \cup {"read"}
    /\ peer \in {"open", "fin", "reset"}
    /\ unread \in 0 .. MaxUnread /\ room \in 0 .. Room
    /\ blocking \in BOOLEAN

\* Bytes wait in outputBuf_ if and only if EV_WRITE is set for them, but for
\* what user code sends from the dataWriteDone() of handleWrite(), which starts
\* with nothing in outputBuf_.
WaitOK ==
    /\ AtRest /\ isWriting => outputBuf # <<>>
    /\ OutputIsWatched
    /\ pc = "done" => outputBuf = <<>> \/ late

ConnInv == EventsOK /\ StreamOK /\ RestOK /\ WaitOK

LEMMA ConnInvHolds == Spec => []ConnInv
<1>1. Init => ConnInv
  <2> SUFFICES ASSUME Init PROVE ConnInv
    OBVIOUS
  <2>1. EventsOK
    BY DEF Init, EventInit, EventsOK, Bits
  <2>2. StreamOK
    <3>1. <<>> \in Seq(1 .. 0) /\ Numbers(0, 0) = <<>> /\ Cat(<<>>, <<>>) = <<>>
      <4>1. Numbers(0, 0) \in Seq(Nat) /\ Len(Numbers(0, 0)) = 0
        BY NumbersIsSeq
      <4>2. Numbers(0, 0) = <<>>
        BY <4>1, EmptySeq
      <4>3. <<>> \in Seq(1 .. 0)
        BY EmptySeq
      <4> QED BY <4>2, <4>3, CatEmpty
    <3>2. sent = 0 /\ late = FALSE /\ outputBuf = <<>> /\ written = <<>>
      BY DEF Init
    <3>3. sent \in 0 .. MaxSent
      BY <3>2, ConstantsOK DEF ConstantsOK
    <3> QED BY <3>1, <3>2, <3>3 DEF StreamOK
  <2>3. RestOK
    BY ConstantsOK DEF Init, EventInit, RestOK, ConstantsOK
  <2>4. WaitOK
    BY DEF Init, WaitOK, OutputIsWatched
  <2> QED BY <2>1, <2>2, <2>3, <2>4 DEF ConnInv
<1>2. ConnInv /\ [Next]_vars => ConnInv'
  <2> SUFFICES ASSUME ConnInv, [Next]_vars PROVE ConnInv'
    OBVIOUS
  <2>0. EventsOK /\ StreamOK /\ RestOK /\ WaitOK
    BY DEF ConnInv
  <2>a. ASSUME UNCHANGED <<event, isWriting, registered, interest, epollFailed>>
        PROVE  EventsOK'
    BY <2>0, <2>a DEF EventsOK
  <2>b. ASSUME UNCHANGED <<outputBuf, sent, written, late>>
        PROVE  StreamOK'
    BY <2>0, <2>b DEF StreamOK
  <2>c. ASSUME NEW place \in Places \cup {"new", "wait", "read", "test", "write",
                                          "lost", "deleted", "dangling"},
               Goto(place), AtRest' => AtRest /\ pc # "done", place # "done"
        PROVE  ConnInv'
    <3>1. EventsOK' /\ StreamOK'
      BY <2>a, <2>b, <2>c DEF Goto
    <3>2. RestOK'
      BY <2>0, <2>c DEF Goto, RestOK
    <3>3. WaitOK'
      BY <2>0, <2>c DEF Goto, WaitOK, OutputIsWatched
    <3> QED BY <3>1, <3>2, <3>3 DEF ConnInv
  <2>1. CASE registerConnection
    <3>1. /\ updateEvent(event) /\ pc = "new" /\ pc' = "make"
          /\ UNCHANGED <<event, isWriting, outputBuf, sent, written, late>>
          /\ UNCHANGED <<revent, caller, peer, unread, room, blocking>>
      BY <2>1 DEF registerConnection
    <3>2. EventsOK'
      <4>1. event \in SUBSET {"READ", "WRITE"}
        BY <2>0 DEF EventsOK
      <4>2. /\ interest' \subseteq Bits
            /\ registered' \in BOOLEAN /\ epollFailed' \in BOOLEAN
        BY <2>0, <3>1, <4>1, Updated
      <4> QED BY <2>0, <3>1, <4>2 DEF EventsOK
    <3>3. StreamOK' /\ RestOK' /\ WaitOK'
      BY <2>0, <2>b, <3>1 DEF RestOK, WaitOK, OutputIsWatched, AtRest, Places
    <3> QED BY <3>2, <3>3 DEF ConnInv
  <2>2. CASE MakeReturns \/ handleEvent \/ TestWrite \/ ReadNothing \/ TasksDone
             \/ LostReturns
    BY <2>2, <2>c DEF MakeReturns, handleEvent, TestWrite, ReadNothing, TasksDone,
        LostReturns, Goto, AtRest, Places
  <2>3. ASSUME NEW mask \in SUBSET {"READ", "WRITE"}, EpollReturns(mask)
        PROVE  ConnInv'
    <3>1. /\ pc = "wait" /\ pc' \in {"task", "batch"}
          /\ revent' \subseteq {"READ", "WRITE"} /\ interest' \subseteq Bits
          /\ UNCHANGED <<event, isWriting, registered, epollFailed>>
          /\ UNCHANGED <<outputBuf, sent, written, late, caller, peer, unread, room>>
          /\ UNCHANGED blocking
      BY <2>0, <2>3 DEF EpollReturns, RestOK, EventsOK
    <3>2. EventsOK' /\ StreamOK'
      BY <2>0, <2>b, <3>1 DEF EventsOK
    <3>3. RestOK' /\ WaitOK'
      BY <2>0, <3>1 DEF RestOK, WaitOK, OutputIsWatched, AtRest, Places
    <3> QED BY <3>2, <3>3 DEF ConnInv
  <2>4. ASSUME NEW place \in Places \cup {"read"}, handleClose(place)
        PROVE  ConnInv'
    <3>1. /\ deleteEvent /\ caller' = place /\ pc' = "lost"
          /\ UNCHANGED <<event, isWriting, outputBuf, sent, written, late>>
          /\ UNCHANGED <<revent, peer, unread, room, blocking>>
      BY <2>4 DEF handleClose
    <3>2. EventsOK' /\ StreamOK'
      BY <2>0, <2>b, <3>1, Deleted
    <3>3. RestOK' /\ WaitOK'
      BY <2>0, <3>1 DEF RestOK, WaitOK, OutputIsWatched, AtRest
    <3> QED BY <3>2, <3>3 DEF ConnInv
  <2>5. CASE ReadData
    <3>1. /\ pc = "read" /\ pc' = "data" /\ unread' \in 0 .. MaxUnread
          /\ UNCHANGED <<event, isWriting, registered, interest, epollFailed>>
          /\ UNCHANGED <<outputBuf, sent, written, late>>
          /\ UNCHANGED <<revent, caller, peer, room, blocking>>
      BY <2>0, <2>5, ConstantsOK DEF ReadData, RestOK, ConstantsOK
    <3>2. EventsOK' /\ StreamOK'
      BY <2>a, <2>b, <3>1
    <3>3. RestOK' /\ WaitOK'
      BY <2>0, <3>1 DEF RestOK, WaitOK, OutputIsWatched, AtRest, Places
    <3> QED BY <3>2, <3>3 DEF ConnInv
  <2>6. ASSUME NEW n \in 0 .. MaxSent, HandleWrite(n) PROVE ConnInv'
    <3>1. /\ pc = "write" /\ pc' \in {"done", "task"}
          /\ UNCHANGED <<event, isWriting, registered, interest, epollFailed>>
          /\ UNCHANGED <<revent, caller, sent, peer, unread, blocking>>
      BY <2>6 DEF HandleWrite
    <3>2. EventsOK'
      BY <2>a, <3>1
    <3>3. room' \in 0 .. Room
      <4>1. room \in 0 .. Room /\ n \in Nat
        BY <2>0 DEF RestOK
      <4>2. RoomAfter(n) \in 0 .. Room
        BY <4>1, RoomIsLeft
      <4> QED BY <2>6, <4>1, <4>2 DEF HandleWrite
    <3>4. RestOK'
      BY <2>0, <3>1, <3>3 DEF RestOK, Places
    <3>5. CASE isWriting
      <4>1. /\ StreamOK' /\ n \in 0 .. Len(outputBuf)
            /\ n = Len(outputBuf) <=> outputBuf' = <<>>
        BY <2>0, <2>6, <3>5, Drained
      <4>2. outputBuf # <<>> /\ "WRITE" \in event
        BY <2>0, <3>1, <3>5 DEF WaitOK, AtRest, EventsOK
      <4>3. Len(outputBuf) \in Nat \ {0}
        BY <2>0, <4>2, EmptySeq DEF StreamOK
      <4>4. pc' = IF n > 0 /\ n = Len(outputBuf) THEN "done" ELSE "task"
        BY <2>6, <3>5 DEF HandleWrite
      <4>5. pc' = "done" <=> outputBuf' = <<>>
        BY <4>1, <4>3, <4>4
      <4>6. WaitOK'
        BY <3>1, <4>2, <4>5 DEF WaitOK, OutputIsWatched, AtRest
      <4> QED BY <3>2, <3>4, <4>1, <4>6 DEF ConnInv
    <3>6. CASE ~isWriting
      <4>1. pc' = "task" /\ UNCHANGED <<outputBuf, written, late>>
        BY <2>6, <3>6 DEF HandleWrite
      <4>2. StreamOK'
        BY <2>b, <3>1, <4>1
      <4>3. WaitOK'
        BY <2>0, <3>1, <4>1 DEF WaitOK, OutputIsWatched, AtRest
      <4> QED BY <3>2, <3>4, <4>2, <4>3 DEF ConnInv
    <3> QED BY <3>5, <3>6
  <2>7. CASE WriteDoneReturns
    <3>1. /\ disableWriting /\ pc = "done" /\ pc' = "task"
          /\ UNCHANGED <<outputBuf, sent, written, late>>
          /\ UNCHANGED <<revent, caller, peer, unread, room, blocking>>
      BY <2>7 DEF WriteDoneReturns
    <3>2. EventsOK' /\ ~isWriting' /\ StreamOK'
      BY <2>0, <2>b, <3>1, Disabled
    <3>3. RestOK' /\ WaitOK'
      BY <2>0, <3>1, <3>2 DEF RestOK, WaitOK, OutputIsWatched, AtRest, Places
    <3> QED BY <3>2, <3>3 DEF ConnInv
  <2>8. CASE UserSetsNonblocking \/ PeerSends \/ PeerReads \/ PeerCloses
    <3>1. /\ UNCHANGED <<event, isWriting, registered, interest, epollFailed>>
          /\ UNCHANGED <<outputBuf, sent, written, late, revent, pc, caller>>
      BY <2>8 DEF UserSetsNonblocking, PeerSends, PeerReads, PeerCloses
    <3>2. /\ unread' \in 0 .. MaxUnread /\ room' \in 0 .. Room
          /\ peer' \in {"open", "fin", "reset"} /\ blocking' \in BOOLEAN
      <4>1. /\ unread \in 0 .. MaxUnread /\ room \in 0 .. Room
            /\ peer \in {"open", "fin", "reset"} /\ blocking \in BOOLEAN
            /\ MaxUnread \in Nat /\ Room \in Nat
        BY <2>0, ConstantsOK DEF RestOK, ConstantsOK
      <4>2. CASE UserSetsNonblocking
        BY <4>1, <4>2 DEF UserSetsNonblocking
      <4>3. CASE PeerSends
        BY <4>1, <4>3 DEF PeerSends
      <4>4. CASE PeerReads
        BY <4>1, <4>4 DEF PeerReads
      <4>5. CASE PeerCloses
        BY <4>1, <4>5 DEF PeerCloses
      <4> QED BY <2>8, <4>2, <4>3, <4>4, <4>5
    <3>3. EventsOK' /\ StreamOK'
      BY <2>a, <2>b, <3>1
    <3>4. RestOK' /\ WaitOK'
      BY <2>0, <3>1, <3>2 DEF RestOK, WaitOK, OutputIsWatched, AtRest
    <3> QED BY <3>3, <3>4 DEF ConnInv
  <2>9. ASSUME NEW place \in SendIn, NEW len \in 1 .. MaxSent, NEW n \in 0 .. MaxSent,
               send(place, len, n)
        PROVE  ConnInv'
    <3>1. /\ StreamOK' /\ n <= len
          /\ n = len => outputBuf' = outputBuf
          /\ n < len => outputBuf' # <<>>
      BY <2>0, <2>9, Sent
    <3>2. /\ pc = place /\ UNCHANGED <<revent, pc, caller, peer, unread, blocking>>
          /\ n < len /\ place = "done" => late'
          /\ late => late'
          /\ room' = RoomAfter(n)
      BY <2>9 DEF send
    <3>3. /\ EventsOK' /\ (n < len => "WRITE" \in event')
          /\ n = len => UNCHANGED <<event, isWriting>>
      <4>1. CASE AsksForWrite(len, n)
        <5>1. enableWriting
          BY <2>9, <4>1 DEF send
        <5>2. n # len
          BY <4>1 DEF AsksForWrite
        <5> QED BY <2>0, <5>1, <5>2, Enabled
      <4>2. CASE ~AsksForWrite(len, n)
        <5>1. UNCHANGED <<event, isWriting, registered, interest, epollFailed>>
          BY <2>9, <4>2 DEF send
        <5>2. n < len => isWriting
          BY <4>2 DEF AsksForWrite
        <5> QED BY <2>0, <2>a, <5>1, <5>2 DEF EventsOK
      <4> QED BY <4>1, <4>2
    <3>4. RestOK'
      <4>1. room \in 0 .. Room /\ n \in Nat
        BY <2>0 DEF RestOK
      <4>2. room' \in 0 .. Room
        BY <3>2, <4>1, RoomIsLeft
      <4> QED BY <2>0, <3>2, <4>2 DEF RestOK
    <3>5. WaitOK'
      <4>1. CASE n = len
        BY <2>0, <3>1, <3>2, <3>3, <4>1 DEF WaitOK, OutputIsWatched, AtRest
      <4>2. CASE n < len
        BY <2>0, <3>1, <3>2, <3>3, <4>2 DEF WaitOK, OutputIsWatched, AtRest
      <4>3. n = len \/ n < len
        BY <3>1
      <4> QED BY <4>1, <4>2, <4>3
    <3> QED BY <3>1, <3>3, <3>4, <3>5 DEF ConnInv
  <2>10. CASE UNCHANGED vars
    <3>1. EventsOK' /\ StreamOK'
      BY <2>10, <2>a, <2>b DEF vars
    <3>2. RestOK' /\ WaitOK'
      BY <2>0, <2>10 DEF vars, RestOK, WaitOK, OutputIsWatched, AtRest
    <3> QED BY <3>1, <3>2 DEF ConnInv
  <2>11. CASE LoopNext
    BY <2>11, <2>1, <2>2, <2>3, <2>4, <2>5, <2>6, <2>7 DEF LoopNext, ReadEnd
  <2>12. CASE UserCode
    BY <2>12, <2>4, <2>8, <2>9, ConstantsOK DEF UserCode, UserCloses, ConstantsOK
  <2> QED BY <2>8, <2>10, <2>11, <2>12 DEF Next
<1> QED BY <1>1, <1>2, PTL DEF Spec

THEOREM ConnectionTypeCorrect == Spec => []TypeOK
<1>1. ConnInv => TypeOK
  BY DEF ConnInv, EventsOK, StreamOK, RestOK, TypeOK
<1> QED BY <1>1, ConnInvHolds, PTL

\* The peer gets the bytes in the order of the calls of send(), whether they
\* were written at once or waited in outputBuf_, and wherever user code calls it.
THEOREM BytesInOrder == Spec => []StreamOrder
<1>1. ConnInv => StreamOrder
  BY DEF ConnInv, StreamOK, StreamOrder, Cat, Numbers
<1> QED BY <1>1, ConnInvHolds, PTL

\* handleWrite() is not called for ever with nothing to write.
THEOREM WritingIsForData == Spec => []WritingHasData
<1>1. ConnInv => WritingHasData
  BY DEF ConnInv, EventsOK, WaitOK, WritingHasData
<1> QED BY <1>1, ConnInvHolds, PTL

\* Bytes that wait are watched for, but for those that dataWriteDone() sent.
THEOREM WaitingIsWatched == Spec => []OutputIsWatched
<1>1. ConnInv => OutputIsWatched
  BY DEF ConnInv, WaitOK
<1> QED BY <1>1, ConnInvHolds, PTL

-----------------------------------------------------------------------------
(* What the kernel watches.                                                *)

\* The connection is between registerConnection() and handleClose().
Served == pc \notin {"new", "lost", "deleted", "dangling"}

\* While the connection is served its descriptor is in the loop's table, unless
\* epoll refused it, and in the kernel's interest list only then.
EpollInv ==
    /\ "READ" \in event
    /\ registered => Served
    /\ ~registered => interest = {}
    /\ Served /\ ~epollFailed => registered

\* The kernel has at least the bits of event_, as long as none of the bits that
\* nobody initialised ends its watch with the first report.
MaskInv ==
    /\ "ONESHOT" \notin interest
    /\ registered /\ ~epollFailed => event \subseteq interest

\* Nothing in the kernel refers to a connection that is deleted: an event for
\* it would be handled in freed memory.
DeletedIsForgotten ==
    pc \in {"lost", "deleted", "dangling"} => ~registered /\ interest = {}

\* epoll goes on watching for the peer, whatever is written in the meantime.
PeerIsWatched == Served /\ ~epollFailed => registered /\ "READ" \in interest

\* Event::updateEvent(): epoll is told, or fails and changes nothing.
LEMMA UpdateTells ==
    ASSUME NEW mask \in SUBSET {"READ", "WRITE"}, updateEvent(mask),
           ~registered => interest = {}
    PROVE  /\ registered => registered'
           /\ ~registered' => interest' = {}
           /\ epollFailed => epollFailed'
           /\ ~epollFailed' => registered' /\ mask \subseteq interest'
           /\ "ONESHOT" \notin Garbage \cup interest => "ONESHOT" \notin interest'
BY DEF updateEvent, addEvent, modEvent

\* enableWriting() and disableWriting() keep EV_READ, and tell epoll.
LEMMA WritingTells ==
    ASSUME ConnInv, EpollInv, Served, Served', enableWriting \/ disableWriting
    PROVE  EpollInv' /\ ("ONESHOT" \notin Garbage /\ MaskInv => MaskInv')
<1>1. CASE UNCHANGED <<event, isWriting, registered, interest, epollFailed>>
  BY <1>1 DEF EpollInv, MaskInv
<1>2. ASSUME NEW mask \in {event \cup {"WRITE"}, event \ {"WRITE"}},
             event' = mask, updateEvent(mask)
      PROVE  EpollInv' /\ ("ONESHOT" \notin Garbage /\ MaskInv => MaskInv')
  <2>1. /\ mask \in SUBSET {"READ", "WRITE"} /\ "READ" \in mask
        /\ ~registered => interest = {}
    BY DEF ConnInv, EventsOK, EpollInv
  <2>2. /\ ~registered' => interest' = {}
        /\ ~epollFailed' => registered' /\ mask \subseteq interest'
        /\ "ONESHOT" \notin Garbage \cup interest => "ONESHOT" \notin interest'
    BY <1>2, <2>1, UpdateTells
  <2> QED BY <1>2, <2>1, <2>2 DEF EpollInv, MaskInv
<1> QED BY <1>1, <1>2 DEF enableWriting, disableWriting, SetEvent

\* Every step keeps EpollInv, and MaskInv too.
LEMMA EpollStep ==
    ASSUME ConnInv, EpollInv, [Next]_vars
    PROVE  EpollInv' /\ ("ONESHOT" \notin Garbage /\ MaskInv => MaskInv')
<1> DEFINE Kept == EpollInv' /\ ("ONESHOT" \notin Garbage /\ MaskInv => MaskInv')
<1>1. ASSUME UNCHANGED <<event, registered, interest, epollFailed>>,
             Served' = Served
      PROVE  Kept
  BY <1>1 DEF EpollInv, MaskInv
<1>2. CASE registerConnection
  <2>1. event \in SUBSET {"READ", "WRITE"} /\ (~registered => interest = {})
    BY DEF ConnInv, EventsOK, EpollInv
  <2>2. /\ event' = event /\ pc' = "make"
        /\ ~registered' => interest' = {}
        /\ ~epollFailed' => registered' /\ event \subseteq interest'
        /\ "ONESHOT" \notin Garbage \cup interest => "ONESHOT" \notin interest'
    BY <1>2, <2>1, UpdateTells DEF registerConnection
  <2> QED BY <2>2 DEF EpollInv, MaskInv, Served
<1>3. CASE MakeReturns \/ handleEvent \/ TestWrite \/ ReadNothing \/ TasksDone
           \/ LostReturns
  BY <1>1, <1>3 DEF MakeReturns, handleEvent, TestWrite, ReadNothing, TasksDone,
      LostReturns, Goto, Served
<1>4. ASSUME NEW mask \in SUBSET {"READ", "WRITE"}, EpollReturns(mask)
      PROVE  Kept
  <2>1. /\ Served /\ Served' /\ UNCHANGED <<event, registered, epollFailed>>
        /\ interest' = IF mask # {} /\ "ONESHOT" \in interest
                       THEN {} ELSE interest
    BY <1>4 DEF EpollReturns, Served
  <2> QED BY <2>1 DEF EpollInv, MaskInv
<1>5. ASSUME NEW place, handleClose(place)
      PROVE  Kept
  <2>1. /\ registered' = FALSE /\ ~Served' /\ UNCHANGED <<event, epollFailed>>
        /\ interest' = {}
    BY <1>5 DEF handleClose, deleteEvent, delEvent, EpollInv, Served
  <2> QED BY <2>1 DEF EpollInv, MaskInv
<1>6. CASE ReadData \/ \E n \in 0 .. MaxSent : HandleWrite(n)
  BY <1>1, <1>6 DEF ReadData, HandleWrite, Served
<1>7. CASE WriteDoneReturns
  BY <1>7, WritingTells DEF WriteDoneReturns, Served
<1>8. ASSUME NEW place \in SendIn, NEW len \in 1 .. MaxSent,
             NEW n \in 0 .. MaxSent, send(place, len, n)
      PROVE  Kept
  <2>1. Served /\ Served'
    BY <1>8, ConstantsOK DEF send, Served, ConstantsOK, Places
  <2> QED BY <1>1, <1>8, <2>1, WritingTells DEF send
<1>9. CASE UserSetsNonblocking \/ PeerSends \/ PeerReads \/ PeerCloses
           \/ UNCHANGED vars
  BY <1>1, <1>9 DEF UserSetsNonblocking, PeerSends, PeerReads, PeerCloses, vars,
      Served
<1>10. CASE LoopNext
  BY <1>10, <1>2, <1>3, <1>4, <1>5, <1>6, <1>7 DEF LoopNext, ReadEnd
<1>11. CASE UserCode
  BY <1>11, <1>5, <1>8, <1>9 DEF UserCode, UserCloses
<1> QED BY <1>9, <1>10, <1>11 DEF Next

LEMMA EpollInvHolds == Spec => []EpollInv
<1>1. Init => EpollInv
  BY DEF Init, EventInit, EpollInv, Served
<1>2. ConnInv /\ EpollInv /\ [Next]_vars => EpollInv'
  BY EpollStep
<1> QED BY <1>1, <1>2, ConnInvHolds, PTL DEF Spec

\* When connectionLost() runs, neither the loop's table nor the kernel has the
\* connection any more, and so it is when it is deleted, whichever epoll_ctl()
\* has failed and wherever handleClose() was called.
THEOREM DeletedConnsAreForgotten == Spec => []DeletedIsForgotten
<1>1. EpollInv => DeletedIsForgotten
  BY DEF EpollInv, DeletedIsForgotten, Served
<1> QED BY <1>1, EpollInvHolds, PTL

\* enableWriting() and disableWriting() never take EV_READ away: a connection
\* that is served is watched for its peer.  The uninitialised bits of the mask
\* may be any but EPOLLONESHOT, which would end the watch.
THEOREM PeersAreWatched ==
    ASSUME "ONESHOT" \notin Garbage
    PROVE  Spec => []PeerIsWatched
<1>1. Init => MaskInv
  BY DEF Init, MaskInv
<1>2. ConnInv /\ EpollInv /\ MaskInv /\ [Next]_vars => MaskInv'
  BY EpollStep
<1>3. EpollInv /\ MaskInv => PeerIsWatched
  BY DEF EpollInv, MaskInv, PeerIsWatched
<1> QED BY <1>1, <1>2, <1>3, EpollInvHolds, ConnInvHolds, PTL DEF Spec
=============================================================================
