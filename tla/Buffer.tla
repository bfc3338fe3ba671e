------------------------------- MODULE Buffer -------------------------------
(***************************************************************************)
(* A Buffer: a vector of bytes of which readIndex_ .. writeIndex_ - 1 are  *)
(* the data.  Data is appended at writeIndex_; when it does not fit, the   *)
(* data is moved to the front, or the vector grows.  read() takes bytes    *)
(* from a descriptor with one readv() into the free space and, beyond it,  *)
(* into a block on the stack whose content is appended.                    *)
(*                                                                         *)
(* Positions are counted from 0, as in the code.  Only one thread uses a   *)
(* Buffer: an operation is one step.                                       *)
(***************************************************************************)
EXTENDS Integers, Sequences

CONSTANTS
    Bytes,
    Zero,          \* the byte resize() fills with
    Chunks,        \* what a caller appends, or the peer sends, at once
    InitialSize,   \* BufferInitialSize
    ExtraSize,     \* sizeof extrabuf in read()
    MaxData        \* bounds the bytes that wait in the buffer

ASSUME ConstantsOK ==
    /\ Zero \in Bytes
    /\ Chunks \subseteq Seq(Bytes)
    /\ InitialSize \in Nat
    /\ ExtraSize \in Nat

VARIABLES
    buf,           \* buf_
    size,          \* size_
    readIndex,     \* readIndex_
    writeIndex,    \* writeIndex_
    io             \* the bytes the last call put in or took out

vars == <<buf, size, readIndex, writeIndex, io>>

readableBytes == writeIndex - readIndex
writableBytes == size - writeIndex

\* The bytes that were written and not read yet.
Data == [i \in 1 .. readableBytes |-> buf[readIndex + i - 1]]

TypeOK ==
    /\ size \in Nat
    /\ buf \in [0 .. size - 1 -> Bytes]
    /\ readIndex \in Nat
    /\ writeIndex \in Nat
    /\ io \in Seq(Bytes)

\* The indices stay in order and inside the vector, whose size size_ repeats.
IndicesOK == readIndex <= writeIndex /\ writeIndex <= size

Init ==
    /\ size = InitialSize
    /\ buf = [i \in 0 .. InitialSize - 1 |-> Zero]
    /\ readIndex = 0
    /\ writeIndex = 0
    /\ io = <<>>

-----------------------------------------------------------------------------

\* std::copy(first, last, first of vector) of count bytes from position from.
MovedToFront(b, from, count) ==
    [i \in DOMAIN b |-> IF i < count THEN b[from + i] ELSE b[i]]

\* resize() to n bytes, n not less than the present size.
Resized(b, n) ==
    [i \in 0 .. n - 1 |-> IF i \in DOMAIN b THEN b[i] ELSE Zero]

\* std::copy(data, data + len, beginWrite()).
Written(b, at, chunk) ==
    [i \in DOMAIN b |->
        IF i \in at .. at + Len(chunk) - 1 THEN chunk[i - at + 1] ELSE b[i]]

\* Mutant: the vector always grows.
MakeSpaceAlwaysGrows(b, n, r, w, len) ==
    [buf |-> Resized(b, w + len), size |-> w + len, read |-> r, write |-> w]

\* makeSpace(len) of a buffer with content b, size_ n and the indices r, w.
makeSpace(b, n, r, w, len) ==
    IF n - w + r > len
    THEN [buf |-> MovedToFront(b, r, w - r), size |-> n, read |-> 0, write |-> w - r]
    ELSE [buf |-> Resized(b, w + len), size |-> w + len, read |-> r, write |-> w]

\* append() to a buffer with content b, size_ n and the indices r, w.
AppendTo(b, n, r, w, chunk) ==
    LET m == IF n - w < Len(chunk)
             THEN makeSpace(b, n, r, w, Len(chunk))
             ELSE [buf |-> b, size |-> n, read |-> r, write |-> w]
    IN  /\ buf' = Written(m.buf, m.write, chunk)
        /\ size' = m.size
        /\ readIndex' = m.read
        /\ writeIndex' = m.write + Len(chunk)

append(chunk) ==
    /\ readableBytes + Len(chunk) <= MaxData
    /\ AppendTo(buf, size, readIndex, writeIndex, chunk)
    /\ io' = chunk

\* read(): readv() returns the bytes of chunk, the first of them in the free
\* space; of a readv() that fails nothing is seen here.
read(chunk) ==
    /\ Len(chunk) <= writableBytes + ExtraSize
    /\ readableBytes + Len(chunk) <= MaxData
    /\ IF Len(chunk) <= writableBytes
       THEN /\ buf' = Written(buf, writeIndex, chunk)
            /\ writeIndex' = writeIndex + Len(chunk)
            /\ UNCHANGED <<size, readIndex>>
       ELSE AppendTo(Written(buf, writeIndex, SubSeq(chunk, 1, writableBytes)),
                     size, readIndex, size,
                     SubSeq(chunk, writableBytes + 1, Len(chunk)))
    /\ io' = chunk

\* retrieve(n) tests nothing: its callers ask for no more than there is. It
\* returns nothing either; io are the bytes its caller is done with.
retrieve(n) ==
    /\ n <= readableBytes
    /\ readIndex' = readIndex + n
    /\ io' = SubSeq(Data, 1, n)
    /\ UNCHANGED <<buf, size, writeIndex>>

\* Mutant: the indices are reset in both branches.
GetAsStringResets(n) ==
    /\ io' = IF n <= readableBytes THEN SubSeq(Data, 1, n) ELSE Data
    /\ readIndex' = 0
    /\ writeIndex' = 0
    /\ UNCHANGED <<buf, size>>

\* getAsString(n): n bytes, or all there are.
getAsString(n) ==
    /\ IF n <= readableBytes
       THEN /\ io' = SubSeq(Data, 1, n)
            /\ readIndex' = readIndex + n
            /\ UNCHANGED writeIndex
       ELSE /\ io' = Data
            /\ readIndex' = 0
            /\ writeIndex' = 0
    /\ UNCHANGED <<buf, size>>

getAllAsString ==
    /\ io' = Data
    /\ readIndex' = 0
    /\ writeIndex' = 0
    /\ UNCHANGED <<buf, size>>

\* getUntil(end) with end = beginRead() + n, inside the data.
getUntil(n) ==
    /\ n <= readableBytes
    /\ io' = SubSeq(Data, 1, n)
    /\ readIndex' = readIndex + n
    /\ UNCHANGED <<buf, size, writeIndex>>

Next ==
    \/ \E chunk \in Chunks : append(chunk) \/ read(chunk)
    \/ \E n \in 0 .. MaxData + 1 : retrieve(n) \/ getAsString(n) \/ getUntil(n)
    \/ getAllAsString

Spec == Init /\ [][Next]_vars

-----------------------------------------------------------------------------

\* Bytes leave the buffer in the order in which they entered it, whatever
\* moves and growths come in between.
BQ == INSTANCE ByteQueue WITH queue <- Data

ImplementsByteQueue == BQ!Spec

\* Space that was read is used again: however long the buffer is used, the
\* vector does not outgrow the data that may wait in it and one more chunk.
LargestChunk == CHOOSE n \in {Len(c) : c \in Chunks} :
                    \A c \in Chunks : Len(c) <= n

GrowthBounded == size <= InitialSize \/ size <= MaxData + LargestChunk
=============================================================================
