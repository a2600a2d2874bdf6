---------------------------- MODULE BufferProofs ----------------------------
(***************************************************************************)
(* Theorems about Buffer, for every set of bytes and inputs, every initial *)
(* size and every number of bytes kept free in front.                      *)
(***************************************************************************)
EXTENDS Buffer, SequenceTheorems, TLAPS

-----------------------------------------------------------------------------
(***************************************************************************)
(* The member functions one by one.                                        *)
(***************************************************************************)

\* vector::resize() to a larger size keeps the indices and the readable bytes.
LEMMA ResizedKeeps ==
  ASSUME NEW b, IsBuffer(b), NEW n \in Nat, b.size <= n
  PROVE  /\ IsBuffer(Resized(b, n)) /\ Contents(Resized(b, n)) = Contents(b)
         /\ Resized(b, n).size = n
         /\ Resized(b, n).reader = b.reader /\ Resized(b, n).writer = b.writer
<1>1. Resized(b, n).bytes \in [0 .. n - 1 -> Byte]
  BY BufferAssumption DEF IsBuffer, Resized
<1>2. IsBuffer(Resized(b, n))
  BY <1>1, BufferAssumption DEF IsBuffer, Resized
<1>3. \A i \in 1 .. Readable(b) :
        Resized(b, n).bytes[b.reader + i - 1] = b.bytes[b.reader + i - 1]
  BY DEF IsBuffer, Readable, Resized
<1>4. Contents(Resized(b, n)) = Contents(b)
  BY <1>3 DEF Contents, Readable, Resized
<1> QED
  BY <1>2, <1>4 DEF Resized

\* The copy of std::copy() lies inside the array.
LEMMA CopiedType ==
  ASSUME NEW b, IsBuffer(b), NEW pos \in Nat, NEW data \in Seq(Byte)
  PROVE  Copied(b, pos, data) \in [0 .. b.size - 1 -> Byte]
BY DEF IsBuffer, Copied

LEMMA ContentsType ==
  ASSUME NEW b, IsBuffer(b)
  PROVE  /\ Contents(b) \in Seq(Byte) /\ Readable(b) \in Nat
         /\ Len(Contents(b)) = Readable(b)
<1>1. Readable(b) \in Nat
  BY DEF IsBuffer, Readable
<1>2. Contents(b) \in [1 .. Readable(b) -> Byte]
  BY <1>1 DEF IsBuffer, Readable, Contents
<1> QED
  BY <1>1, <1>2 DEF Contents

\* The move to the front keeps the readable bytes, when they fit behind the
\* bytes that stay free.
LEMMA MovedKeeps ==
  ASSUME NEW b, IsBuffer(b), KCheapPrepend + Readable(b) <= b.size
  PROVE  /\ IsBuffer(Moved(b)) /\ Contents(Moved(b)) = Contents(b)
         /\ Moved(b).size = b.size
         /\ Moved(b).reader = KCheapPrepend
         /\ Moved(b).writer = KCheapPrepend + Readable(b)
<1> USE BufferAssumption
<1>1. IsBuffer(Moved(b))
  BY CopiedType, ContentsType DEF IsBuffer, Moved
<1>2. \A i \in 1 .. Readable(b) :
        Moved(b).bytes[KCheapPrepend + i - 1] = b.bytes[b.reader + i - 1]
  BY ContentsType DEF IsBuffer, Readable, Moved, Copied, Contents
<1>3. Readable(Moved(b)) = Readable(b)
  BY ContentsType DEF Readable, Moved
<1>4. Contents(Moved(b)) = Contents(b)
  BY <1>2, <1>3 DEF Contents, Moved
<1> QED
  BY <1>1, <1>4 DEF Moved

\* ensureWritableBytes() keeps the readable bytes and leaves the room asked for.
LEMMA EnsureKeeps ==
  ASSUME NEW b, IsBuffer(b), NEW len \in Nat
  PROVE  LET c == EnsureWritableBytes(b, len)
         IN  /\ IsBuffer(c) /\ Contents(c) = Contents(b)
             /\ len <= Writable(c)
<1> USE BufferAssumption
<1>1. CASE len <= Writable(b)
  BY <1>1 DEF EnsureWritableBytes, IsBuffer, Writable
<1>2. CASE Writable(b) < len /\ TooSmall(b, len)
  <2>1. EnsureWritableBytes(b, len) = Resized(b, b.writer + len)
    BY <1>2 DEF EnsureWritableBytes, MakeSpace
  <2>2. b.writer + len \in Nat /\ b.size <= b.writer + len
    BY <1>2 DEF IsBuffer, Writable
  <2>3. len <= Writable(Resized(b, b.writer + len))
    BY DEF Writable, Resized, IsBuffer
  <2> QED
    BY <2>1, <2>2, <2>3, ResizedKeeps
<1>3. CASE Writable(b) < len /\ ~TooSmall(b, len)
  <2>1. EnsureWritableBytes(b, len) = Moved(b)
    BY <1>3 DEF EnsureWritableBytes, MakeSpace
  <2>2. KCheapPrepend + Readable(b) + len <= b.size
    BY <1>3 DEF IsBuffer, Writable, Readable, TooSmall, Prependable
  <2>3. KCheapPrepend + Readable(b) <= b.size
    BY <2>2 DEF IsBuffer, Readable
  <2>4. len <= Writable(Moved(b))
    BY <2>2 DEF Writable, Moved, IsBuffer, Readable
  <2> QED
    BY <2>1, <2>3, <2>4, MovedKeeps
<1>4. Writable(b) \in Nat
  BY DEF IsBuffer, Writable
<1> QED
  BY <1>1, <1>2, <1>3, <1>4

\* Two byte sequences that agree with a concatenation, byte by byte.
LEMMA IsConcat ==
  ASSUME NEW s \in Seq(Byte), NEW t \in Seq(Byte), NEW u \in Seq(Byte),
         Len(u) = Len(s) + Len(t),
         \A i \in 1 .. Len(s) : u[i] = s[i],
         \A i \in Len(s) + 1 .. Len(s) + Len(t) : u[i] = t[i - Len(s)]
  PROVE  u = s \o t
<1>1. /\ s \o t \in Seq(Byte) /\ Len(s \o t) = Len(u)
      /\ \A i \in 1 .. Len(u) :
           (s \o t)[i] = IF i <= Len(s) THEN s[i] ELSE t[i - Len(s)]
  BY ConcatProperties
<1>2. \A i \in 1 .. Len(u) : u[i] = (s \o t)[i]
  BY <1>1, LenProperties
<1> QED
  BY <1>1, <1>2, SeqEqual

\* Writing into the free space behind the readable bytes appends.
LEMMA WrittenAppends ==
  ASSUME NEW b, IsBuffer(b), NEW data \in Seq(Byte), Len(data) <= Writable(b)
  PROVE  /\ IsBuffer(Written(b, data))
         /\ Contents(Written(b, data)) = Contents(b) \o data
<1> DEFINE c == Written(b, data)
<1>1. IsBuffer(c)
  BY CopiedType DEF IsBuffer, Written, Writable
<1>2. Readable(c) = Readable(b) + Len(data)
  BY DEF IsBuffer, Readable, Written
<1>3. ASSUME NEW i \in 1 .. Readable(b)
      PROVE  Contents(c)[i] = Contents(b)[i]
  BY <1>2 DEF IsBuffer, Readable, Copied, Contents, Written
<1>4. ASSUME NEW i \in Readable(b) + 1 .. Readable(b) + Len(data)
      PROVE  Contents(c)[i] = data[i - Readable(b)]
  <2>1. /\ Len(data) \in Nat /\ b.reader \in Nat /\ b.writer \in Nat /\ b.size \in Nat
        /\ b.writer + Len(data) <= b.size /\ b.reader <= b.writer
    BY DEF IsBuffer, Writable
  <2> DEFINE k == b.reader + i - 1
  <2>2. i \in 1 .. Readable(c) /\ k \in b.writer .. b.writer + Len(data) - 1
    BY <1>2, <2>1 DEF Readable
  <2>3. Contents(c)[i] = c.bytes[k]
    BY <2>2 DEF Contents, Written
  <2>4. c.bytes[k] = data[k - b.writer + 1]
    <3>1. c.bytes = Copied(b, b.writer, data) /\ k \in 0 .. b.size - 1
      BY <2>1, <2>2 DEF Written
    <3> HIDE DEF c, k
    <3> QED
      BY <2>2, <3>1 DEF Copied
  <2>5. k - b.writer + 1 = i - Readable(b)
    BY <2>1 DEF Readable
  <2> QED
    BY <2>3, <2>4, <2>5
<1>5. /\ Contents(b) \in Seq(Byte) /\ Len(Contents(b)) = Readable(b)
      /\ Contents(c) \in Seq(Byte) /\ Len(Contents(c)) = Readable(c)
  BY <1>1, ContentsType
<1> HIDE DEF c
<1>6. Contents(c) = Contents(b) \o data
  BY <1>2, <1>3, <1>4, <1>5, IsConcat
<1> QED
  BY <1>1, <1>6 DEF c

\* append() appends, whatever room there is.
LEMMA AppendedAppends ==
  ASSUME NEW b, IsBuffer(b), NEW data \in Seq(Byte)
  PROVE  /\ IsBuffer(Appended(b, data))
         /\ Contents(Appended(b, data)) = Contents(b) \o data
<1> DEFINE c == EnsureWritableBytes(b, Len(data))
<1>1. Len(data) \in Nat
  OBVIOUS
<1>2. IsBuffer(c) /\ Contents(c) = Contents(b) /\ Len(data) <= Writable(c)
  BY <1>1, EnsureKeeps
<1> HIDE DEF c
<1>3. IsBuffer(Written(c, data)) /\ Contents(Written(c, data)) = Contents(c) \o data
  BY <1>2, WrittenAppends
<1> QED
  BY <1>2, <1>3 DEF Appended, c

\* prepend() puts the bytes in front.
LEMMA PrependedPrepends ==
  ASSUME NEW b, IsBuffer(b), NEW data \in Seq(Byte), Len(data) <= Prependable(b)
  PROVE  /\ IsBuffer(Prepended(b, data))
         /\ Contents(Prepended(b, data)) = data \o Contents(b)
<1> DEFINE c == Prepended(b, data)
<1>1. IsBuffer(c)
  <2>1. b.reader - Len(data) \in Nat
    BY DEF IsBuffer, Prependable
  <2> QED
    BY <2>1, CopiedType DEF IsBuffer, Prepended
<1>2. Readable(c) = Readable(b) + Len(data)
  BY DEF IsBuffer, Readable, Prepended
<1>3. ASSUME NEW i \in 1 .. Len(data)
      PROVE  Contents(c)[i] = data[i]
  <2>1. /\ Len(data) \in Nat /\ b.reader \in Nat /\ b.size \in Nat
        /\ Len(data) <= b.reader /\ b.reader <= b.size /\ Readable(b) \in Nat
    BY DEF IsBuffer, Readable, Prependable
  <2> DEFINE k == b.reader - Len(data) + i - 1
  <2>2. /\ i \in 1 .. Readable(c) /\ k - (b.reader - Len(data)) + 1 = i
        /\ k \in b.reader - Len(data) .. b.reader - Len(data) + Len(data) - 1
    BY <1>2, <2>1
  <2>3. Contents(c)[i] = c.bytes[k]
    BY <2>2 DEF Contents, Prepended
  <2>4. c.bytes[k] = data[i]
    <3>1. c.bytes = Copied(b, b.reader - Len(data), data) /\ k \in 0 .. b.size - 1
      BY <2>1, <2>2 DEF Prepended
    <3> HIDE DEF c, k
    <3> QED
      BY <2>2, <3>1 DEF Copied
  <2> QED
    BY <2>3, <2>4
<1>4. ASSUME NEW i \in Len(data) + 1 .. Len(data) + Readable(b)
      PROVE  Contents(c)[i] = Contents(b)[i - Len(data)]
  <2>1. /\ Len(data) \in Nat /\ b.reader \in Nat /\ Readable(b) \in Nat
        /\ Len(data) <= b.reader
    BY DEF IsBuffer, Readable, Prependable
  <2>2. Contents(b)[i - Len(data)] = b.bytes[b.reader + (i - Len(data)) - 1]
    BY <2>1 DEF Contents
  <2>3. Contents(c)[i] = c.bytes[c.reader + i - 1]
    <3> HIDE DEF c
    <3> QED
      BY <1>2, <2>1 DEF Contents
  <2>4. b.reader + (i - Len(data)) - 1 \in 0 .. b.size - 1
    BY <2>1 DEF IsBuffer, Readable
  <2>5. c.bytes[c.reader + i - 1] = b.bytes[b.reader + (i - Len(data)) - 1]
    BY <2>1, <2>4 DEF Prepended, Copied
  <2> QED
    BY <2>2, <2>3, <2>5
<1>5. /\ Contents(b) \in Seq(Byte) /\ Len(Contents(b)) = Readable(b)
      /\ Contents(c) \in Seq(Byte) /\ Len(Contents(c)) = Len(data) + Readable(b)
  BY <1>1, <1>2, ContentsType
<1> HIDE DEF c
<1>6. Contents(c) = data \o Contents(b)
  BY <1>3, <1>4, <1>5, IsConcat
<1> QED
  BY <1>1, <1>6 DEF c
\* retrieve() takes the first bytes, also when the indices start over.
LEMMA RetrievedTakes ==
  ASSUME NEW b, IsBuffer(b), NEW len \in Nat, len <= Readable(b)
  PROVE  /\ IsBuffer(Retrieved(b, len))
         /\ Contents(Retrieved(b, len))
              = SubSeq(Contents(b), len + 1, Len(Contents(b)))
<1> USE BufferAssumption
<1> DEFINE c == Retrieved(b, len)
           n == Readable(b) - len
           rest == SubSeq(Contents(b), len + 1, Len(Contents(b)))
<1>1. IsBuffer(c)
  BY DEF IsBuffer, Retrieved, Readable
<1>2. n \in Nat /\ Readable(c) = n
  BY DEF IsBuffer, Readable, Retrieved
<1>3. Contents(c) \in Seq(Byte) /\ Len(Contents(c)) = n
  BY <1>1, <1>2, ContentsType
<1>4. /\ rest \in Seq(Byte) /\ Len(rest) = n
      /\ \A i \in 1 .. n : rest[i] = Contents(b)[len + i]
  <2>1. /\ Contents(b) \in Seq(Byte) /\ Len(Contents(b)) = Readable(b)
        /\ Readable(b) \in Nat
    BY ContentsType
  <2>2. \A i \in len + 1 .. Readable(b) : Contents(b)[i] \in Byte
    BY <2>1, ElementOfSeq
  <2>3. /\ rest \in Seq(Byte)
        /\ Len(rest) = IF len + 1 <= Readable(b) THEN Readable(b) - (len + 1) + 1 ELSE 0
        /\ \A i \in 1 .. Readable(b) - (len + 1) + 1 :
             rest[i] = Contents(b)[len + 1 + i - 1]
    BY <2>1, <2>2, SubSeqProperties
  <2> HIDE DEF rest
  <2> QED
    BY <2>1, <2>3
<1>5. \A i \in 1 .. n : Contents(c)[i] = Contents(b)[len + i]
  BY <1>2 DEF IsBuffer, Readable, Retrieved, Contents
<1> HIDE DEF c, rest, n
<1>6. Contents(c) = rest
  BY <1>3, <1>4, <1>5, SeqEqual
<1> QED
  BY <1>1, <1>6 DEF c, rest

\* readFd() appends what was read, whether or not extrabuf was used.
LEMMA ReadIntoAppends ==
  ASSUME NEW b, IsBuffer(b), NEW data \in Seq(Byte)
  PROVE  /\ IsBuffer(ReadInto(b, data))
         /\ Contents(ReadInto(b, data)) = Contents(b) \o data
<1>1. CASE Len(data) <= Writable(b)
  BY <1>1, WrittenAppends DEF ReadInto
<1>2. CASE ~(Len(data) <= Writable(b))
  <2> DEFINE w == Writable(b)
             first == SubSeq(data, 1, w)
             extra == SubSeq(data, w + 1, Len(data))
             c == Written(b, first)
  <2>1. Len(data) \in Nat /\ w \in Nat /\ w < Len(data)
    BY <1>2 DEF IsBuffer, Writable
  <2>2. first \in Seq(Byte) /\ Len(first) = w
    BY <2>1
  <2>3. extra \in Seq(Byte)
    BY <2>1
  <2>4. first \o extra = data
    <3> HIDE DEF w
    <3>1. w \in 1 - 1 .. Len(data) /\ 1 \in 1 .. Len(data) + 1
          /\ Len(data) \in w .. Len(data)
      BY <2>1
    <3>2. first \o extra = SubSeq(data, 1, Len(data))
      BY <3>1, ConcatAdjacentSubSeq
    <3> QED
      BY <3>2, SubSeqFull
  <2>5. Len(first) <= Writable(b)
    BY <2>1, <2>2
  <2>6. ReadInto(b, data) = Appended(c, extra)
    BY <1>2 DEF ReadInto
  <2>7. Contents(b) \in Seq(Byte)
    BY ContentsType
  <2> HIDE DEF w, first, extra
  <2>8. IsBuffer(c) /\ Contents(c) = Contents(b) \o first
    BY <2>2, <2>5, WrittenAppends
  <2> HIDE DEF c
  <2>9. /\ IsBuffer(Appended(c, extra))
        /\ Contents(Appended(c, extra)) = Contents(c) \o extra
    BY <2>3, <2>8, AppendedAppends
  <2>10. (Contents(b) \o first) \o extra = Contents(b) \o (first \o extra)
    <3> DEFINE s == Contents(b)
    <3>1. s \in Seq(Byte) /\ first \in Seq(Byte) /\ extra \in Seq(Byte)
      BY <2>2, <2>3, <2>7
    <3> HIDE DEF s
    <3>2. (s \o first) \o extra = s \o (first \o extra)
      BY <3>1, ConcatAssociative
    <3> QED
      BY <3>2 DEF s
  <2> QED
    BY <2>4, <2>6, <2>8, <2>9, <2>10
<1> QED
  BY <1>1, <1>2

-----------------------------------------------------------------------------
(***************************************************************************)
(* The steps.                                                              *)
(***************************************************************************)

\* The array starts with its types and with nothing to read.
LEMMA InitTypes == Init => TypeOK /\ Contents(buf) = <<>>
<1> SUFFICES ASSUME Init PROVE TypeOK /\ Contents(buf) = <<>>
  OBVIOUS
<1>1. TypeOK
  BY BufferAssumption DEF Init, TypeOK, IsBuffer
<1>2. Readable(buf) = 0
  BY BufferAssumption DEF Init, Readable
<1>3. Contents(buf) \in Seq(Byte) /\ Len(Contents(buf)) = 0
  BY <1>1, <1>2, ContentsType DEF TypeOK
<1> QED
  BY <1>1, <1>3, EmptySeq

\* Every call keeps the types and is a step of the byte queue, or of nothing.
LEMMA StepSimulates ==
  ASSUME TypeOK, [Next]_buf
  PROVE  /\ TypeOK'
         /\ \/ \E data \in Inputs : \/ Contents(buf') = Contents(buf) \o data
                                    \/ Contents(buf') = data \o Contents(buf)
            \/ \E len \in 0 .. Len(Contents(buf)) :
                 Contents(buf') = SubSeq(Contents(buf), len + 1, Len(Contents(buf)))
            \/ Contents(buf') = Contents(buf)
<1> USE DEF TypeOK
<1>0. Inputs \subseteq Seq(Byte) /\ MaxReadable \in Nat
  BY BufferAssumption
<1>1. ASSUME NEW data \in Inputs, AppendBytes(data)
      PROVE  IsBuffer(buf') /\ Contents(buf') = Contents(buf) \o data
  BY <1>0, <1>1, AppendedAppends DEF AppendBytes
<1>2. ASSUME NEW data \in Inputs, HasWritten(data)
      PROVE  IsBuffer(buf') /\ Contents(buf') = Contents(buf) \o data
  BY <1>0, <1>2, WrittenAppends DEF HasWritten
<1>3. ASSUME NEW data \in Inputs, ReadFd(data)
      PROVE  IsBuffer(buf') /\ Contents(buf') = Contents(buf) \o data
  BY <1>0, <1>3, ReadIntoAppends DEF ReadFd
<1>4. ASSUME NEW data \in Inputs, PrependBytes(data)
      PROVE  IsBuffer(buf') /\ Contents(buf') = data \o Contents(buf)
  BY <1>0, <1>4, PrependedPrepends DEF PrependBytes
<1>5. ASSUME NEW len \in 0 .. MaxReadable, Reserve(len)
      PROVE  IsBuffer(buf') /\ Contents(buf') = Contents(buf)
  <2>1. len \in Nat
    BY <1>0
  <2> QED
    BY <1>5, <2>1, EnsureKeeps DEF Reserve
<1>6. ASSUME NEW len \in 0 .. MaxReadable, Retrieve(len)
      PROVE  /\ IsBuffer(buf') /\ len \in 0 .. Len(Contents(buf))
             /\ Contents(buf') = SubSeq(Contents(buf), len + 1, Len(Contents(buf)))
  <2>1. len \in Nat /\ len <= Readable(buf)
    BY <1>0, <1>6 DEF Retrieve
  <2>2. len \in 0 .. Len(Contents(buf))
    BY <2>1, ContentsType
  <2> QED
    BY <1>6, <2>1, <2>2, RetrievedTakes DEF Retrieve
<1>7. CASE UNCHANGED buf
  BY <1>7
<1> QED
  BY <1>1, <1>2, <1>3, <1>4, <1>5, <1>6, <1>7 DEF Next

\* Indices stay in order and inside the array for every sequence of calls.
THEOREM TypeCorrect == Spec => []TypeOK
<1>1. Init => TypeOK
  BY InitTypes
<1>2. TypeOK /\ [Next]_buf => TypeOK'
  BY StepSimulates
<1> QED
  BY <1>1, <1>2, PTL DEF Spec
\* makeSpace() never meets a buffer with nothing to move over, and always makes
\* the room asked for: the assertions of makeSpace() and ensureWritableBytes().
THEOREM AssertionsNeverFail == Spec => []AssertionsHold
<1>1. TypeOK => AssertionsHold
  <2> SUFFICES ASSUME TypeOK, NEW len \in 0 .. MaxReadable
               PROVE  /\ Writable(buf) < len /\ ~TooSmall(buf, len) =>
                           KCheapPrepend < buf.reader
                      /\ Writable(EnsureWritableBytes(buf, len)) >= len
    BY DEF AssertionsHold
  <2>0. len \in Nat
    BY BufferAssumption
  <2>1. Writable(buf) < len /\ ~TooSmall(buf, len) => KCheapPrepend < buf.reader
    BY <2>0, BufferAssumption DEF TypeOK, IsBuffer, Writable, TooSmall, Prependable
  <2>2. len <= Writable(EnsureWritableBytes(buf, len))
    BY <2>0, EnsureKeeps DEF TypeOK
  <2> QED
    BY <2>1, <2>2
<1> QED
  BY <1>1, TypeCorrect, PTL

\* For every sequence of calls the readable bytes are those a queue would hold.
THEOREM Refinement == Spec => ImplementsByteQueue
<1>1. Init => BQ!Init
  BY InitTypes DEF BQ!Init
<1>2. TypeOK /\ [Next]_buf => [BQ!Next]_(Contents(buf))
  <2> SUFFICES ASSUME TypeOK, [Next]_buf PROVE [BQ!Next]_(Contents(buf))
    OBVIOUS
  <2>1. Contents(buf)' = Contents(buf')
    BY DEF Contents, Readable
  <2> QED
    BY <2>1, StepSimulates DEF BQ!Next, BQ!Push, BQ!Prepend, BQ!Retrieve
<1> QED
  BY <1>1, <1>2, TypeCorrect, PTL DEF Spec, ImplementsByteQueue, BQ!Spec

-----------------------------------------------------------------------------
(***************************************************************************)
(* Room.                                                                   *)
(***************************************************************************)

\* What ensureWritableBytes() may do to the size and to the reader index.
LEMMA EnsureRoom ==
  ASSUME NEW b, IsBuffer(b), NEW len \in Nat
  PROVE  LET c == EnsureWritableBytes(b, len)
         IN  /\ c.size \in Nat /\ c.reader \in Nat /\ c.size >= b.size
             /\ c.size > b.size => c.size - c.reader + KCheapPrepend > b.size
             /\ c.reader >= b.reader \/ c.reader >= KCheapPrepend
<1> USE BufferAssumption DEF IsBuffer
<1>1. CASE len <= Writable(b)
  BY <1>1 DEF EnsureWritableBytes, Writable
<1>2. CASE Writable(b) < len /\ TooSmall(b, len)
  <2>1. EnsureWritableBytes(b, len) = Resized(b, b.writer + len)
    BY <1>2 DEF EnsureWritableBytes, MakeSpace
  <2>2. /\ Resized(b, b.writer + len).size = b.writer + len
        /\ Resized(b, b.writer + len).reader = b.reader
    BY DEF Resized
  <2> QED
    BY <1>2, <2>1, <2>2 DEF Writable, TooSmall, Prependable
<1>3. CASE Writable(b) < len /\ ~TooSmall(b, len)
  <2>1. EnsureWritableBytes(b, len) = Moved(b)
    BY <1>3 DEF EnsureWritableBytes, MakeSpace
  <2> QED
    BY <2>1 DEF Moved
<1>4. Writable(b) \in Nat
  BY DEF Writable
<1> QED
  BY <1>1, <1>2, <1>3, <1>4

\* The same for append().
LEMMA AppendedRoom ==
  ASSUME NEW b, IsBuffer(b), NEW data \in Seq(Byte)
  PROVE  LET c == Appended(b, data)
         IN  /\ c.size \in Nat /\ c.reader \in Nat /\ c.size >= b.size
             /\ c.size > b.size => c.size - c.reader + KCheapPrepend > b.size
             /\ c.reader >= b.reader \/ c.reader >= KCheapPrepend
<1>1. Len(data) \in Nat
  OBVIOUS
<1> QED
  BY <1>1, EnsureRoom DEF Appended, Written

\* ... and for readFd(), which fills the array before it appends.
LEMMA ReadIntoRoom ==
  ASSUME NEW b, IsBuffer(b), NEW data \in Seq(Byte)
  PROVE  LET c == ReadInto(b, data)
         IN  /\ c.size \in Nat /\ c.reader \in Nat /\ c.size >= b.size
             /\ c.size > b.size => c.size - c.reader + KCheapPrepend > b.size
             /\ c.reader >= b.reader \/ c.reader >= KCheapPrepend
<1>1. CASE Len(data) <= Writable(b)
  BY <1>1 DEF ReadInto, Written, IsBuffer
<1>2. CASE ~(Len(data) <= Writable(b))
  <2> DEFINE first == SubSeq(data, 1, Writable(b))
             extra == SubSeq(data, Writable(b) + 1, Len(data))
             c == Written(b, first)
  <2>1. Len(data) \in Nat /\ Writable(b) \in Nat /\ Writable(b) < Len(data)
    BY <1>2 DEF IsBuffer, Writable
  <2>2. first \in Seq(Byte) /\ extra \in Seq(Byte) /\ Len(first) <= Writable(b)
    BY <2>1
  <2>3. IsBuffer(c)
    BY <2>2, WrittenAppends
  <2>4. c.size = b.size /\ c.reader = b.reader
    BY DEF Written
  <2>5. ReadInto(b, data) = Appended(c, extra)
    BY <1>2 DEF ReadInto
  <2> HIDE DEF first, extra, c
  <2> QED
    BY <2>2, <2>3, <2>4, <2>5, AppendedRoom
<1> QED
  BY <1>1, <1>2

\* The two action properties, step by step.
LEMMA StepRoom ==
  ASSUME TypeOK, Next
  PROVE  /\ buf'.size >= buf.size
         /\ buf'.size > buf.size =>
              buf'.size - buf'.reader + KCheapPrepend > buf.size
         /\ \/ buf'.reader >= buf.reader \/ buf'.reader >= KCheapPrepend
            \/ \E data \in Inputs : PrependBytes(data)
<1> USE DEF TypeOK
<1>0. Inputs \subseteq Seq(Byte) /\ MaxReadable \in Nat /\ KCheapPrepend \in Nat
      /\ buf.size \in Nat /\ buf.reader \in Nat
  BY BufferAssumption DEF IsBuffer
<1>1. ASSUME NEW data \in Inputs, AppendBytes(data)
      PROVE  /\ buf'.size >= buf.size
             /\ buf'.size > buf.size =>
                  buf'.size - buf'.reader + KCheapPrepend > buf.size
             /\ buf'.reader >= buf.reader \/ buf'.reader >= KCheapPrepend
  BY <1>0, <1>1, AppendedRoom DEF AppendBytes
<1>2. ASSUME NEW data \in Inputs, HasWritten(data)
      PROVE  buf'.size = buf.size /\ buf'.reader = buf.reader
  BY <1>2 DEF HasWritten, Written
<1>3. ASSUME NEW data \in Inputs, ReadFd(data)
      PROVE  /\ buf'.size >= buf.size
             /\ buf'.size > buf.size =>
                  buf'.size - buf'.reader + KCheapPrepend > buf.size
             /\ buf'.reader >= buf.reader \/ buf'.reader >= KCheapPrepend
  BY <1>0, <1>3, ReadIntoRoom DEF ReadFd
<1>4. ASSUME NEW data \in Inputs, PrependBytes(data)
      PROVE  buf'.size = buf.size
  BY <1>4 DEF PrependBytes, Prepended
<1>5. ASSUME NEW len \in 0 .. MaxReadable, Reserve(len)
      PROVE  /\ buf'.size >= buf.size
             /\ buf'.size > buf.size =>
                  buf'.size - buf'.reader + KCheapPrepend > buf.size
             /\ buf'.reader >= buf.reader \/ buf'.reader >= KCheapPrepend
  BY <1>0, <1>5, EnsureRoom DEF Reserve
<1>6. ASSUME NEW len \in 0 .. MaxReadable, Retrieve(len)
      PROVE  /\ buf'.size = buf.size
             /\ buf'.reader >= buf.reader \/ buf'.reader >= KCheapPrepend
  BY <1>0, <1>6 DEF Retrieve, Retrieved
<1> QED
  BY <1>0, <1>1, <1>2, <1>3, <1>4, <1>5, <1>6 DEF Next

\* The array grows only when its bytes, with those kept free in front, do not
\* fit, and never shrinks.
THEOREM Thrifty == Spec => GrowsOnlyWhenFull
<1>1. TypeOK /\ Next =>
        /\ buf'.size >= buf.size
        /\ buf'.size > buf.size =>
             buf'.size - buf'.reader + KCheapPrepend > buf.size
  BY StepRoom
<1> QED
  BY <1>1, TypeCorrect, PTL DEF Spec, GrowsOnlyWhenFull

\* Only prepend() takes of the bytes kept free in front.
THEOREM HeaderRoom == Spec => HeaderRoomKept
<1>1. TypeOK /\ Next =>
        \/ buf'.reader >= buf.reader \/ buf'.reader >= KCheapPrepend
        \/ \E data \in Inputs : PrependBytes(data)
  BY StepRoom
<1> QED
  BY <1>1, TypeCorrect, PTL DEF Spec, HeaderRoomKept
=============================================================================
