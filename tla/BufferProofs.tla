---------------------------- MODULE BufferProofs ----------------------------
(***************************************************************************)
(* A Buffer is a queue of bytes, for every content, every size of the      *)
(* vector and every sequence of operations.                                *)
(***************************************************************************)
EXTENDS Buffer, SequenceTheorems, TLAPS

\* The data of a buffer with content b and the indices r, w.
DataOf(b, r, w) == [i \in 1 .. w - r |-> b[r + i - 1]]

\* A buffer with content b, size_ n and the indices r, w is well formed.
Formed(b, n, r, w) ==
    /\ n \in Nat /\ b \in [0 .. n - 1 -> Bytes]
    /\ r \in Nat /\ w \in Nat
    /\ r <= w /\ w <= n

\* makeSpace() keeps the data and makes room for what it was asked for.
LEMMA MakeSpaceKeepsData ==
    ASSUME NEW b, NEW n, NEW r, NEW w, Formed(b, n, r, w),
           NEW len \in Nat, NEW m, m = makeSpace(b, n, r, w, len)
    PROVE  /\ Formed(m.buf, m.size, m.read, m.write)
           /\ DataOf(m.buf, m.read, m.write) = DataOf(b, r, w)
           /\ m.write + len <= m.size
<1> USE DEF Formed, DataOf
<1>1. CASE n - w + r > len
  <2>1. m = [buf |-> MovedToFront(b, r, w - r), size |-> n, read |-> 0,
             write |-> w - r]
    BY <1>1 DEF makeSpace
  <2>2. m.buf \in [0 .. n - 1 -> Bytes]
    BY <2>1 DEF MovedToFront
  <2>3. /\ m.write - m.read = w - r
        /\ \A i \in 1 .. w - r : m.buf[m.read + i - 1] = b[r + i - 1]
    <3>1. m.write = w - r /\ m.read = 0 /\ m.size = n
      BY <2>1
    <3>2. ASSUME NEW i \in 1 .. w - r
          PROVE  m.buf[i - 1] = b[r + i - 1]
      <4>1. i - 1 \in 0 .. n - 1 /\ i - 1 < w - r /\ r + (i - 1) = r + i - 1
        OBVIOUS
      <4>2. QED
        BY <2>1, <4>1 DEF MovedToFront
    <3>3. QED
      BY <3>1, <3>2
  <2>4. DataOf(m.buf, m.read, m.write) = DataOf(b, r, w)
    BY <2>3
  <2>5. m.size = n /\ m.read = 0 /\ m.write = w - r
    BY <2>1
  <2>6. QED
    BY <1>1, <2>2, <2>4, <2>5
<1>2. CASE ~(n - w + r > len)
  <2>1. m = [buf |-> Resized(b, w + len), size |-> w + len, read |-> r,
             write |-> w]
    BY <1>2 DEF makeSpace
  <2>2. m.buf \in [0 .. w + len - 1 -> Bytes]
    BY <2>1, ConstantsOK DEF Resized, ConstantsOK
  <2>3. \A i \in 1 .. w - r : m.buf[r + i - 1] = b[r + i - 1]
    BY <1>2, <2>1 DEF Resized
  <2>4. m.read = r /\ m.write = w /\ m.size = w + len
    BY <2>1
  <2>5. DataOf(m.buf, m.read, m.write) = DataOf(b, r, w)
    BY <2>3, <2>4
  <2>6. m.buf \in [0 .. m.size - 1 -> Bytes]
    BY <2>2, <2>4
  <2>7. Formed(m.buf, m.size, m.read, m.write) /\ m.write + len <= m.size
    BY <1>2, <2>4, <2>6
  <2>8. QED
    BY <2>5, <2>7
<1>3. QED
  BY <1>1, <1>2

\* A function on 1 .. n is a sequence of length n.
LEMMA FunctionIsSeq ==
    ASSUME NEW S, NEW n \in Nat, NEW f \in [1 .. n -> S]
    PROVE  f \in Seq(S) /\ Len(f) = n
<1>1. f \in Seq(S)
  BY SeqDef
<1>2. Len(f) \in Nat /\ DOMAIN f = 1 .. Len(f)
  BY <1>1, LenProperties
<1>3. QED
  BY <1>1, <1>2

\* A sequence is its first k elements followed by the others.
LEMMA SplitAndJoin ==
    ASSUME NEW S, NEW s \in Seq(S), NEW k \in Nat, k <= Len(s)
    PROVE  SubSeq(s, 1, k) \o SubSeq(s, k + 1, Len(s)) = s
<1>1. /\ Len(s) \in Nat
      /\ 1 \in 1 .. Len(s) + 1 /\ k \in 1 - 1 .. Len(s)
      /\ Len(s) \in k .. Len(s)
  BY LenProperties
<1>2. SubSeq(s, 1, k) \o SubSeq(s, k + 1, Len(s)) = SubSeq(s, 1, Len(s))
  BY <1>1, ConcatAdjacentSubSeq
<1>3. QED
  BY <1>2, SubSeqFull

\* Bytes copied behind the data, where there is room, extend it.
LEMMA WrittenExtendsData ==
    ASSUME NEW b, NEW n, NEW r, NEW w, Formed(b, n, r, w),
           NEW chunk \in Seq(Bytes), w + Len(chunk) <= n
    PROVE  /\ Formed(Written(b, w, chunk), n, r, w + Len(chunk))
           /\ DataOf(Written(b, w, chunk), r, w + Len(chunk))
                = DataOf(b, r, w) \o chunk
<1> DEFINE c == Written(b, w, chunk)
<1> USE DEF Formed
<1>1. Len(chunk) \in Nat /\ \A i \in 1 .. Len(chunk) : chunk[i] \in Bytes
  BY LenProperties, ElementOfSeq
<1>2. c \in [0 .. n - 1 -> Bytes]
  <2>1. \A i \in 0 .. n - 1 :
            (IF i \in w .. w + Len(chunk) - 1 THEN chunk[i - w + 1] ELSE b[i]) \in Bytes
    BY <1>1
  <2>2. QED
    BY <2>1 DEF Written
<1>3. Formed(c, n, r, w + Len(chunk))
  BY <1>1, <1>2
<1>4. DataOf(b, r, w) \in Seq(Bytes) /\ Len(DataOf(b, r, w)) = w - r
  <2>1. DataOf(b, r, w) \in [1 .. w - r -> Bytes] /\ w - r \in Nat
    BY DEF DataOf
  <2>2. QED
    BY <2>1, FunctionIsSeq
<1>5. /\ DataOf(c, r, w + Len(chunk)) \in Seq(Bytes)
      /\ Len(DataOf(c, r, w + Len(chunk))) = w - r + Len(chunk)
  <2>1. /\ DataOf(c, r, w + Len(chunk)) \in [1 .. w - r + Len(chunk) -> Bytes]
        /\ w - r + Len(chunk) \in Nat
    BY <1>1, <1>2 DEF DataOf
  <2>2. QED
    BY <2>1, FunctionIsSeq
<1> DEFINE d == DataOf(b, r, w)
           k == w - r
<1>6. /\ d \o chunk \in Seq(Bytes)
      /\ Len(d \o chunk) = k + Len(chunk)
      /\ \A i \in 1 .. k + Len(chunk) :
             (d \o chunk)[i] = IF i <= k THEN d[i] ELSE chunk[i - k]
  <2>1. d \in Seq(Bytes) /\ Len(d) = k
    BY <1>4
  <2> HIDE DEF d, k
  <2>2. QED
    BY <2>1, ConcatProperties
<1>7. ASSUME NEW i \in 1 .. w - r + Len(chunk)
      PROVE  DataOf(c, r, w + Len(chunk))[i] = (DataOf(b, r, w) \o chunk)[i]
  <2>1. DataOf(c, r, w + Len(chunk))[i] = c[r + i - 1]
    BY <1>1 DEF DataOf
  <2>2. CASE i <= w - r
    BY <1>1, <1>6, <2>1, <2>2 DEF DataOf, Written
  <2>3. CASE i > w - r
    <3>1. c[r + i - 1] = chunk[i - (w - r)]
      <4>1. r + i - 1 \in 0 .. n - 1 /\ r + i - 1 \in w .. w + Len(chunk) - 1
        BY <1>1, <2>3
      <4>2. r + i - 1 - w + 1 = i - (w - r)
        BY <1>1
      <4>3. QED
        BY <4>1, <4>2 DEF Written
    <3>2. QED
      BY <1>6, <2>1, <2>3, <3>1
  <2>4. i <= w - r \/ i > w - r
    OBVIOUS
  <2>5. QED
    BY <2>2, <2>3, <2>4
<1>8. DataOf(c, r, w + Len(chunk)) = DataOf(b, r, w) \o chunk
  BY <1>5, <1>6, <1>7, SeqEqual
<1>9. QED
  BY <1>3, <1>8

\* Joining three sequences of bytes.
LEMMA JoinIsAssociative ==
    \A s, t, u \in Seq(Bytes) : (s \o t) \o u = s \o (t \o u)
BY ConcatAssociative

\* append() extends the data by the chunk.
LEMMA AppendToExtendsData ==
    ASSUME NEW b, NEW n, NEW r, NEW w, Formed(b, n, r, w),
           NEW chunk \in Seq(Bytes), AppendTo(b, n, r, w, chunk)
    PROVE  /\ Formed(buf', size', readIndex', writeIndex')
           /\ DataOf(buf', readIndex', writeIndex') = DataOf(b, r, w) \o chunk
<1> DEFINE m == IF n - w < Len(chunk)
                THEN makeSpace(b, n, r, w, Len(chunk))
                ELSE [buf |-> b, size |-> n, read |-> r, write |-> w]
<1>1. Len(chunk) \in Nat
  BY LenProperties
<1>2. /\ Formed(m.buf, m.size, m.read, m.write)
      /\ DataOf(m.buf, m.read, m.write) = DataOf(b, r, w)
      /\ m.write + Len(chunk) <= m.size
  <2>1. CASE n - w < Len(chunk)
    BY <1>1, <2>1, MakeSpaceKeepsData
  <2>2. CASE ~(n - w < Len(chunk))
    BY <1>1, <2>2 DEF Formed
  <2>3. QED
    BY <2>1, <2>2
<1>3. /\ buf' = Written(m.buf, m.write, chunk)
      /\ size' = m.size
      /\ readIndex' = m.read
      /\ writeIndex' = m.write + Len(chunk)
  BY DEF AppendTo
<1> HIDE DEF m
<1>4. /\ Formed(Written(m.buf, m.write, chunk), m.size, m.read,
                m.write + Len(chunk))
      /\ DataOf(Written(m.buf, m.write, chunk), m.read, m.write + Len(chunk))
           = DataOf(m.buf, m.read, m.write) \o chunk
  <2> DEFINE mb == m.buf
             mn == m.size
             mr == m.read
             mw == m.write
  <2>1. Formed(mb, mn, mr, mw) /\ mw + Len(chunk) <= mn
    BY <1>2
  <2> HIDE DEF mb, mn, mr, mw
  <2>2. /\ Formed(Written(mb, mw, chunk), mn, mr, mw + Len(chunk))
        /\ DataOf(Written(mb, mw, chunk), mr, mw + Len(chunk))
             = DataOf(mb, mr, mw) \o chunk
    BY <2>1, WrittenExtendsData
  <2>3. QED
    BY <2>2 DEF mb, mn, mr, mw
<1>5. QED
  BY <1>2, <1>3, <1>4

-----------------------------------------------------------------------------
BufferOK == Formed(buf, size, readIndex, writeIndex)

LEMMA BufferOKIsTypeAndOrder ==
    io \in Seq(Bytes) /\ BufferOK <=> TypeOK /\ IndicesOK
BY DEF BufferOK, Formed, TypeOK, IndicesOK

\* What each operation does to the data, and what it is given or returns.
LEMMA OperationsKeepOrder ==
    ASSUME BufferOK, io \in Seq(Bytes), Next
    PROVE  /\ BufferOK' /\ io' \in Seq(Bytes)
           /\ \/ \E chunk \in Chunks : Data' = Data \o chunk /\ io' = chunk
              \/ \E n \in 0 .. Len(Data) :
                     /\ Data' = SubSeq(Data, n + 1, Len(Data))
                     /\ io' = SubSeq(Data, 1, n)
<1>1. Data = DataOf(buf, readIndex, writeIndex)
  BY DEF Data, DataOf, readableBytes
<1>2. Data' = DataOf(buf', readIndex', writeIndex')
  BY DEF Data, DataOf, readableBytes
<1>3. /\ Data \in Seq(Bytes) /\ Len(Data) = readableBytes
      /\ readableBytes \in Nat
  <2>1. Data \in [1 .. readableBytes -> Bytes] /\ readableBytes \in Nat
    BY DEF Data, readableBytes, BufferOK, Formed
  <2>2. QED
    BY <2>1, FunctionIsSeq
<1>4. ASSUME NEW chunk \in Chunks, append(chunk)
      PROVE  BufferOK' /\ Data' = Data \o chunk /\ io' = chunk
  <2>1. chunk \in Seq(Bytes)
    BY ConstantsOK DEF ConstantsOK
  <2>2. QED
    BY <1>1, <1>2, <1>4, <2>1, AppendToExtendsData DEF append, BufferOK
<1>5. ASSUME NEW chunk \in Chunks, read(chunk)
      PROVE  BufferOK' /\ Data' = Data \o chunk /\ io' = chunk
  <2>1. /\ chunk \in Seq(Bytes) /\ Len(chunk) \in Nat
        /\ \A i \in 1 .. Len(chunk) : chunk[i] \in Bytes
    BY ConstantsOK, LenProperties, ElementOfSeq DEF ConstantsOK
  <2>2. writableBytes \in Nat /\ writeIndex + writableBytes = size
    BY DEF BufferOK, Formed, writableBytes
  <2>3. CASE Len(chunk) <= writableBytes
    <3>1. writeIndex + Len(chunk) <= size
      BY <2>1, <2>2, <2>3 DEF BufferOK, Formed
    <3>2. /\ Formed(Written(buf, writeIndex, chunk), size, readIndex,
                    writeIndex + Len(chunk))
          /\ DataOf(Written(buf, writeIndex, chunk), readIndex,
                    writeIndex + Len(chunk)) = Data \o chunk
      <4>1. Formed(buf, size, readIndex, writeIndex)
        BY DEF BufferOK
      <4>2. /\ Formed(Written(buf, writeIndex, chunk), size, readIndex,
                      writeIndex + Len(chunk))
            /\ DataOf(Written(buf, writeIndex, chunk), readIndex,
                      writeIndex + Len(chunk))
                 = DataOf(buf, readIndex, writeIndex) \o chunk
        BY <2>1, <3>1, <4>1, WrittenExtendsData
      <4>3. QED
        BY <1>1, <4>2
    <3>3. QED
      BY <1>2, <1>5, <2>3, <3>2 DEF read, BufferOK
  <2>4. CASE ~(Len(chunk) <= writableBytes)
    <3> DEFINE first == SubSeq(chunk, 1, writableBytes)
               rest == SubSeq(chunk, writableBytes + 1, Len(chunk))
               b == Written(buf, writeIndex, first)
    <3>1. first \in Seq(Bytes) /\ Len(first) = writableBytes
      BY <2>1, <2>2, <2>4, SubSeqProperties
    <3>2. rest \in Seq(Bytes)
      BY <2>1, <2>2, <2>4, SubSeqProperties
    <3>3. first \o rest = chunk
      <4> DEFINE k == writableBytes
      <4>1. k \in Nat /\ k <= Len(chunk)
        BY <2>1, <2>2, <2>4
      <4> HIDE DEF k
      <4>2. SubSeq(chunk, 1, k) \o SubSeq(chunk, k + 1, Len(chunk)) = chunk
        BY <2>1, <4>1, SplitAndJoin
      <4>3. QED
        BY <4>2 DEF k
    <3> HIDE DEF first, rest
    <3>4. /\ Formed(b, size, readIndex, size)
          /\ DataOf(b, readIndex, size) = Data \o first
      <4>1. writeIndex + Len(first) = size /\ writeIndex + Len(first) <= size
        BY <2>2, <3>1 DEF BufferOK, Formed
      <4>2. /\ Formed(b, size, readIndex, writeIndex + Len(first))
            /\ DataOf(b, readIndex, writeIndex + Len(first))
                 = DataOf(buf, readIndex, writeIndex) \o first
        <5>1. Formed(buf, size, readIndex, writeIndex)
          BY DEF BufferOK
        <5>2. QED
          BY <3>1, <4>1, <5>1, WrittenExtendsData
      <4>3. QED
        BY <1>1, <4>1, <4>2
    <3>5. AppendTo(b, size, readIndex, size, rest) /\ io' = chunk
      BY <1>5, <2>4 DEF read, first, rest
    <3> HIDE DEF b
    <3>6. /\ Formed(buf', size', readIndex', writeIndex')
          /\ DataOf(buf', readIndex', writeIndex') = (Data \o first) \o rest
      BY <3>2, <3>4, <3>5, AppendToExtendsData
    <3>7. (Data \o first) \o rest = Data \o chunk
      <4>1. first \in Seq(Bytes) /\ rest \in Seq(Bytes) /\ Data \in Seq(Bytes)
        BY <1>3, <3>1, <3>2
      <4>2. QED
        BY <3>3, <4>1, JoinIsAssociative
    <3>8. QED
      BY <1>2, <3>5, <3>6, <3>7 DEF BufferOK
  <2>5. QED
    BY <2>3, <2>4
\* Bytes leave from the front: the index moves past them ...
<1>6. ASSUME NEW n \in 0 .. readableBytes,
             readIndex' = readIndex + n, UNCHANGED <<buf, size, writeIndex>>
      PROVE  /\ BufferOK'
             /\ Data' = SubSeq(Data, n + 1, Len(Data))
  <2>1. BufferOK'
    BY <1>6 DEF BufferOK, Formed, readableBytes
  <2>2. /\ Data' \in [1 .. readableBytes - n -> Bytes]
        /\ readableBytes - n \in Nat
    BY <1>6 DEF Data, readableBytes, BufferOK, Formed
  <2>3. Data' \in Seq(Bytes) /\ Len(Data') = readableBytes - n
    BY <2>2, FunctionIsSeq
  <2>4. \A i \in n + 1 .. Len(Data) : Data[i] \in Bytes
    BY <1>3, ElementOfSeq
  <2>5. /\ SubSeq(Data, n + 1, Len(Data)) \in Seq(Bytes)
        /\ Len(SubSeq(Data, n + 1, Len(Data))) = readableBytes - n
        /\ \A i \in 1 .. readableBytes - n :
               SubSeq(Data, n + 1, Len(Data))[i] = Data[n + i]
    <3> DEFINE s == Data
               len == readableBytes
    <3>1. s \in Seq(Bytes) /\ Len(s) = len /\ len \in Nat
      BY <1>3
    <3>2. \A i \in n + 1 .. len : s[i] \in Bytes
      BY <1>3, <2>4
    <3> HIDE DEF s, len
    <3>3. n \in Int /\ n + 1 \in Int /\ n <= len
      BY <3>1 DEF len
    <3>4. /\ SubSeq(s, n + 1, len) \in Seq(Bytes)
          /\ Len(SubSeq(s, n + 1, len)) =
                 IF n + 1 <= len THEN len - (n + 1) + 1 ELSE 0
          /\ \A i \in 1 .. len - (n + 1) + 1 :
                 SubSeq(s, n + 1, len)[i] = s[n + 1 + i - 1]
      BY <3>1, <3>2, <3>3, SubSeqProperties
    <3>5. QED
      BY <3>1, <3>3, <3>4 DEF s, len
  <2>6. \A i \in 1 .. readableBytes - n : Data'[i] = Data[n + i]
    BY <1>6 DEF Data, readableBytes, BufferOK, Formed
  <2>7. QED
    BY <2>1, <2>3, <2>5, <2>6, SeqEqual
\* ... or both indices return to the beginning.
<1>7. ASSUME readIndex' = 0, writeIndex' = 0, UNCHANGED <<buf, size>>
      PROVE  BufferOK' /\ Data' = SubSeq(Data, Len(Data) + 1, Len(Data))
  <2>1. BufferOK'
    BY <1>7 DEF BufferOK, Formed
  <2>2. Data' \in Seq(Bytes) /\ Len(Data') = 0
    <3>1. Data' \in [1 .. 0 -> Bytes]
      BY <1>7 DEF Data, readableBytes
    <3>2. QED
      BY <3>1, FunctionIsSeq
  <2>3. Data' = <<>>
    BY <2>2, EmptySeq
  <2>4. SubSeq(Data, Len(Data) + 1, Len(Data)) = <<>>
    BY <1>3, SubSeqEmpty
  <2>5. QED
    BY <2>1, <2>3, <2>4
<1>8. \A n \in 0 .. Len(Data) : SubSeq(Data, 1, n) \in Seq(Bytes)
  <2> SUFFICES ASSUME NEW n \in 0 .. Len(Data)
               PROVE  SubSeq(Data, 1, n) \in Seq(Bytes)
    OBVIOUS
  <2>1. \A i \in 1 .. n : Data[i] \in Bytes
    BY <1>3, ElementOfSeq
  <2>2. QED
    BY <1>3, <2>1, SubSeqProperties
<1>9. SubSeq(Data, 1, Len(Data)) = Data /\ <<>> \in Seq(Bytes)
  BY <1>3, SubSeqFull, EmptySeq
<1>10. CASE \E chunk \in Chunks : append(chunk) \/ read(chunk)
  BY <1>4, <1>5, <1>10, ConstantsOK DEF ConstantsOK
<1>11. ASSUME NEW n \in 0 .. MaxData + 1,
              retrieve(n) \/ getAsString(n) \/ getUntil(n)
       PROVE  /\ BufferOK' /\ io' \in Seq(Bytes)
              /\ \E k \in 0 .. Len(Data) :
                     /\ Data' = SubSeq(Data, k + 1, Len(Data))
                     /\ io' = SubSeq(Data, 1, k)
  <2>1. CASE n <= readableBytes
    <3>1. /\ n \in 0 .. readableBytes
          /\ readIndex' = readIndex + n /\ UNCHANGED <<buf, size, writeIndex>>
          /\ io' = SubSeq(Data, 1, n)
      BY <1>3, <1>11, <2>1 DEF retrieve, getAsString, getUntil
    <3>2. QED
      BY <1>3, <1>6, <1>8, <1>9, <3>1
  <2>2. CASE ~(n <= readableBytes)
    <3>1. /\ readIndex' = 0 /\ writeIndex' = 0 /\ UNCHANGED <<buf, size>>
          /\ io' = Data
      BY <1>11, <2>2 DEF retrieve, getAsString, getUntil
    <3>2. QED
      BY <1>3, <1>7, <1>9, <3>1
  <2>3. QED
    BY <2>1, <2>2
<1>12. CASE getAllAsString
  <2>1. /\ readIndex' = 0 /\ writeIndex' = 0 /\ UNCHANGED <<buf, size>>
        /\ io' = Data
    BY <1>12 DEF getAllAsString
  <2>2. QED
    BY <1>3, <1>7, <1>9, <2>1
<1>13. QED
  BY <1>10, <1>11, <1>12 DEF Next

-----------------------------------------------------------------------------
\* The space a vector may need.
Bounded(n) == n <= InitialSize \/ n <= MaxData + LargestChunk

\* The vector grows only when what is free in front of the data and behind it
\* does not take the chunk: then it ends within the chunk behind the data.
LEMMA AppendToIsBounded ==
    ASSUME NEW b, NEW n, NEW r, NEW w, Formed(b, n, r, w), Bounded(n),
           NEW chunk, Len(chunk) \in Nat, Len(chunk) <= LargestChunk,
           LargestChunk \in Nat, w - r + Len(chunk) <= MaxData, MaxData \in Nat,
           AppendTo(b, n, r, w, chunk)
    PROVE  Bounded(size')
<1> DEFINE len == Len(chunk)
<1>1. n \in Nat /\ r \in Nat /\ w \in Nat /\ r <= w /\ w <= n
  BY DEF Formed
<1>2. size' = n \/ (size' = w + len /\ ~(n - w + r > len))
  BY DEF AppendTo, makeSpace
<1>3. CASE size' = n
  BY <1>3
<1>4. CASE size' = w + len /\ ~(n - w + r > len)
  <2>1. len \in Nat /\ r <= len
    BY <1>1, <1>4
  <2>2. w + len <= MaxData + LargestChunk
    BY <1>1, <2>1
  <2> QED BY <1>4, <2>2 DEF Bounded
<1> QED BY <1>2, <1>3, <1>4

\* At first a Buffer is empty.
LEMMA Start == Init => BufferOK /\ io \in Seq(Bytes) /\ Data = <<>> /\ io = <<>>
<1> SUFFICES ASSUME Init
             PROVE  BufferOK /\ io \in Seq(Bytes) /\ Data = <<>> /\ io = <<>>
  OBVIOUS
<1>1. BufferOK
  BY ConstantsOK DEF Init, BufferOK, Formed, ConstantsOK
<1>2. io = <<>> /\ io \in Seq(Bytes)
  BY EmptySeq DEF Init
<1>3. Data \in [1 .. 0 -> Bytes]
  BY DEF Init, Data, readableBytes
<1>4. Data = <<>>
  BY <1>3, FunctionIsSeq, EmptySeq
<1>5. QED
  BY <1>1, <1>2, <1>4

\* Nothing changes in a step that leaves the variables alone.
LEMMA Stutter ==
    ASSUME BufferOK, io \in Seq(Bytes), UNCHANGED vars
    PROVE  BufferOK' /\ io' \in Seq(Bytes) /\ Data' = Data /\ io' = io
BY DEF vars, BufferOK, Formed, Data, readableBytes

\* The indices of a Buffer are in order and inside its vector, which has the
\* size that size_ says, after any sequence of operations (Buffer.h, Buffer.cc).
THEOREM BufferIndicesInOrder == Spec => [](TypeOK /\ IndicesOK)
<1>1. Init => BufferOK /\ io \in Seq(Bytes)
  BY Start
<1>2. BufferOK /\ io \in Seq(Bytes) /\ [Next]_vars
          => (BufferOK /\ io \in Seq(Bytes))'
  BY OperationsKeepOrder, Stutter
<1>3. BufferOK /\ io \in Seq(Bytes) => TypeOK /\ IndicesOK
  BY BufferOKIsTypeAndOrder
<1>4. QED
  BY <1>1, <1>2, <1>3, PTL DEF Spec

\* If there is a largest chunk, the vector of a Buffer does not outgrow the data
\* that may wait in it and one more chunk, however long the Buffer is used
\* (makeSpace).
THEOREM GrowthIsBounded ==
    ASSUME MaxData \in Nat, NEW c \in Chunks, \A d \in Chunks : Len(d) <= Len(c)
    PROVE  Spec => []GrowthBounded
<1>1. /\ LargestChunk \in Nat
      /\ \A d \in Chunks : Len(d) \in Nat /\ Len(d) <= LargestChunk
  <2>1. \A d \in Chunks : Len(d) \in Nat
    BY ConstantsOK, LenProperties DEF ConstantsOK
  <2>2. \E n \in {Len(d) : d \in Chunks} : \A d \in Chunks : Len(d) <= n
    OBVIOUS
  <2>3. /\ LargestChunk \in {Len(d) : d \in Chunks}
        /\ \A d \in Chunks : Len(d) <= LargestChunk
    BY <2>2 DEF LargestChunk
  <2> QED BY <2>1, <2>3
<1> DEFINE Inv == BufferOK /\ io \in Seq(Bytes) /\ Bounded(size)
<1>2. Init => Inv
  <2>1. Init => Bounded(size)
    BY ConstantsOK DEF Init, Bounded, ConstantsOK
  <2> QED BY <2>1, Start
<1>3. Inv /\ [Next]_vars => Inv'
  <2> SUFFICES ASSUME Inv, [Next]_vars
               PROVE  Bounded(size')
    BY OperationsKeepOrder, Stutter
  <2>1. CASE UNCHANGED size
    BY <2>1
  <2>2. ASSUME NEW chunk \in Chunks, append(chunk)
        PROVE  Bounded(size')
    BY <1>1, <2>2, AppendToIsBounded DEF append, BufferOK, readableBytes
  <2>3. ASSUME NEW chunk \in Chunks, read(chunk)
        PROVE  Bounded(size')
    <3>1. CASE Len(chunk) <= writableBytes
      BY <2>3, <3>1 DEF read
    <3>2. CASE ~(Len(chunk) <= writableBytes)
      <4> DEFINE first == SubSeq(chunk, 1, writableBytes)
                 rest == SubSeq(chunk, writableBytes + 1, Len(chunk))
                 b == Written(buf, writeIndex, first)
      <4>1. /\ writableBytes \in Nat /\ writeIndex + writableBytes = size
            /\ chunk \in Seq(Bytes) /\ Len(chunk) \in Nat
        BY <1>1, ConstantsOK
        DEF BufferOK, Formed, writableBytes, ConstantsOK
      <4>2. Len(rest) = Len(chunk) - writableBytes
        BY <3>2, <4>1, SubSeqProperties
      <4>3. first \in Seq(Bytes) /\ Len(first) = writableBytes
        BY <3>2, <4>1, SubSeqProperties, ElementOfSeq
      <4>4. AppendTo(b, size, readIndex, size, rest)
        BY <2>3, <3>2 DEF read
      <4>5. readableBytes + Len(chunk) <= MaxData
        BY <2>3 DEF read
      <4> HIDE DEF first, rest
      <4>6. Formed(b, size, readIndex, size)
        <5>1. /\ Formed(buf, size, readIndex, writeIndex)
              /\ writeIndex + Len(first) = size
              /\ writeIndex + Len(first) <= size
          BY <4>1, <4>3 DEF BufferOK, Formed
        <5> QED BY <4>3, <5>1, WrittenExtendsData
      <4> HIDE DEF b
      <4>7. /\ Len(rest) \in Nat /\ Len(rest) <= LargestChunk
            /\ size - readIndex + Len(rest) <= MaxData
        BY <1>1, <3>2, <4>1, <4>2, <4>5 DEF readableBytes, BufferOK, Formed
      <4> QED BY <1>1, <4>4, <4>6, <4>7, AppendToIsBounded
    <3> QED BY <3>1, <3>2
  <2>4. \/ \E chunk \in Chunks : append(chunk) \/ read(chunk)
        \/ UNCHANGED size
    BY DEF Next, vars, retrieve, getAsString, getUntil, getAllAsString
  <2> QED BY <2>1, <2>2, <2>3, <2>4
<1>4. Inv => GrowthBounded
  BY DEF Bounded, GrowthBounded
<1> QED BY <1>2, <1>3, <1>4, PTL DEF Spec

\* Bytes leave a Buffer in the order in which they entered it: no move to the
\* front, growth of the vector or split of a readv() loses, doubles or swaps
\* one (makeSpace, append, read, retrieve and the get functions).
THEOREM BufferImplementsByteQueue == Spec => ImplementsByteQueue
<1>1. Init => BufferOK /\ io \in Seq(Bytes)
  BY Start
<1>2. BufferOK /\ io \in Seq(Bytes) /\ [Next]_vars
          => (BufferOK /\ io \in Seq(Bytes))'
  BY OperationsKeepOrder, Stutter
<1>3. Init => BQ!Init
  BY Start DEF BQ!Init
<1>4. BufferOK /\ io \in Seq(Bytes) /\ [Next]_vars => [BQ!Next]_(BQ!bqvars)
  BY OperationsKeepOrder, Stutter DEF BQ!Next, BQ!Put, BQ!Take, BQ!bqvars
<1>5. QED
  BY <1>1, <1>2, <1>3, <1>4, PTL DEF Spec, ImplementsByteQueue, BQ!Spec
=============================================================================
