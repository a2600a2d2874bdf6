------------------------------- MODULE Buffer -------------------------------
(***************************************************************************)
(* leven::Buffer: a byte array with a reader index and a writer index.     *)
(*                                                                         *)
(*   0      <=      reader      <=      writer      <=      size           *)
(*   | prependable    | readable          | writable          |            *)
(*                                                                         *)
(* The member functions are operators from a buffer to a buffer, as the    *)
(* code builds one from the other; the actions are the public calls.  The  *)
(* integer variants (appendInt32, readInt16, ...) are append, prepend and  *)
(* retrieve of the integer's bytes in network order.                       *)
(***************************************************************************)
EXTENDS Naturals, Sequences

CONSTANTS
  Byte,           \* the bytes
  Zero,           \* the byte that resize() fills with
  KCheapPrepend,  \* kCheapPrepend, 8 in the code
  InitialSize,    \* initialSize, 1024 by default
  ExtraBuf,       \* size of extrabuf in readFd(), 65536
  Inputs,         \* the byte sequences that are added
  MaxReadable     \* bound of the model: nothing is added beyond it

ASSUME BufferAssumption ==
  /\ Zero \in Byte
  /\ KCheapPrepend \in Nat /\ InitialSize \in Nat /\ ExtraBuf \in Nat
  /\ MaxReadable \in Nat
  /\ Inputs \subseteq Seq(Byte)

VARIABLE buf  \* buffer_ as bytes and size, readerIndex_, writerIndex_

\* Buffer::Buffer(); resize() and the constructor fill with zeros.
Init ==
  buf = [size   |-> KCheapPrepend + InitialSize,
         bytes  |-> [i \in 0 .. KCheapPrepend + InitialSize - 1 |-> Zero],
         reader |-> KCheapPrepend,
         writer |-> KCheapPrepend]

-----------------------------------------------------------------------------
(***************************************************************************)
(* The member functions.                                                   *)
(***************************************************************************)
Readable(b) == b.writer - b.reader
Writable(b) == b.size - b.writer
Prependable(b) == b.reader

\* The readable bytes.
Contents(b) == [i \in 1 .. Readable(b) |-> b.bytes[b.reader + i - 1]]

\* std::copy() of data to position pos of the array.
Copied(b, pos, data) ==
  [i \in 0 .. b.size - 1 |->
     IF i \in pos .. pos + Len(data) - 1 THEN data[i - pos + 1] ELSE b.bytes[i]]

\* vector::resize()
Resized(b, n) ==
  [size   |-> n,
   bytes  |-> [i \in 0 .. n - 1 |-> IF i < b.size THEN b.bytes[i] ELSE Zero],
   reader |-> b.reader,
   writer |-> b.writer]

\* The readable bytes move to the front.
Moved(b) ==
  [size   |-> b.size,
   bytes  |-> Copied(b, KCheapPrepend, Contents(b)),
   reader |-> KCheapPrepend,
   writer |-> KCheapPrepend + Readable(b)]

\* Faulty variants: the bytes that stay free in front are not counted; no
\* buffer is large enough.
TooSmallTight(b, len) == Writable(b) + Prependable(b) < len
TooSmallAlways(b, len) == TRUE

\* Even when the readable bytes are moved there is no room.
TooSmall(b, len) == Writable(b) + Prependable(b) < len + KCheapPrepend

MakeSpace(b, len) ==
  IF TooSmall(b, len) THEN Resized(b, b.writer + len) ELSE Moved(b)

\* Faulty variant: room is taken for granted.
EnsureNothing(b, len) == b

EnsureWritableBytes(b, len) ==
  IF Writable(b) < len THEN MakeSpace(b, len) ELSE b

\* The bytes are copied to beginWrite(), then hasWritten().
Written(b, data) ==
  [size   |-> b.size,
   bytes  |-> Copied(b, b.writer, data),
   reader |-> b.reader,
   writer |-> b.writer + Len(data)]

Appended(b, data) == Written(EnsureWritableBytes(b, Len(data)), data)

Prepended(b, data) ==
  [size   |-> b.size,
   bytes  |-> Copied(b, b.reader - Len(data), data),
   reader |-> b.reader - Len(data),
   writer |-> b.writer]

\* retrieve() and retrieveAll(): with the last byte both indices start over.
Retrieved(b, len) ==
  [size   |-> b.size,
   bytes  |-> b.bytes,
   reader |-> IF len < Readable(b) THEN b.reader + len ELSE KCheapPrepend,
   writer |-> IF len < Readable(b) THEN b.writer ELSE KCheapPrepend]

\* The readv() of readFd(): what does not fit goes to extrabuf.
MayRead(b) == Writable(b) + (IF Writable(b) < ExtraBuf THEN ExtraBuf ELSE 0)

\* Faulty variant: extrabuf is appended where readv() began to write.
ReadUnfilled(b, data) ==
  IF Len(data) <= Writable(b) THEN Written(b, data)
  ELSE Appended([b EXCEPT !.bytes = Copied(b, b.writer, data)],
                SubSeq(data, Writable(b) + 1, Len(data)))

\* readFd(): the array is filled, then what is in extrabuf is appended.
ReadInto(b, data) ==
  IF Len(data) <= Writable(b) THEN Written(b, data)
  ELSE Appended(Written(b, SubSeq(data, 1, Writable(b))),
                SubSeq(data, Writable(b) + 1, Len(data)))

-----------------------------------------------------------------------------
(***************************************************************************)
(* The public calls, with their assertions as preconditions.               *)
(***************************************************************************)
Fits(data) == Readable(buf) + Len(data) <= MaxReadable

AppendBytes(data) == Fits(data) /\ buf' = Appended(buf, data)

\* ensureWritableBytes(), then the caller writes to beginWrite() itself.
Reserve(len) == buf' = EnsureWritableBytes(buf, len)

HasWritten(data) ==
  Fits(data) /\ Len(data) <= Writable(buf) /\ buf' = Written(buf, data)

PrependBytes(data) ==
  /\ Fits(data) /\ Len(data) <= Prependable(buf)
  /\ buf' = Prepended(buf, data)

Retrieve(len) == len <= Readable(buf) /\ buf' = Retrieved(buf, len)

ReadFd(data) ==
  Fits(data) /\ Len(data) <= MayRead(buf) /\ buf' = ReadInto(buf, data)

Next ==
  \/ \E data \in Inputs :
       \/ AppendBytes(data) \/ HasWritten(data)
       \/ PrependBytes(data) \/ ReadFd(data)
  \/ \E len \in 0 .. MaxReadable : Reserve(len) \/ Retrieve(len)

Spec == Init /\ [][Next]_buf

-----------------------------------------------------------------------------
(***************************************************************************)
(* Properties.                                                             *)
(***************************************************************************)

\* Types; the indices are in order and inside the array.
IsBuffer(b) ==
  /\ b \in [size : Nat, bytes : [0 .. b.size - 1 -> Byte], reader : Nat,
             writer : Nat]
  /\ b.reader <= b.writer /\ b.writer <= b.size /\ KCheapPrepend <= b.size

TypeOK == IsBuffer(buf)

\* makeSpace() moves bytes only when there are some free ones in front to move
\* them over, whatever was prepended (its first assertion), and leaves the room
\* that was asked for (the assertion of ensureWritableBytes()).
AssertionsHold ==
  \A len \in 0 .. MaxReadable :
    /\ Writable(buf) < len /\ ~TooSmall(buf, len) => KCheapPrepend < buf.reader
    /\ Writable(EnsureWritableBytes(buf, len)) >= len

\* The array grows only when what is in it and kCheapPrepend bytes in front do
\* not fit, and never shrinks: bytes that have been retrieved are used again.
GrowsOnlyWhenFull ==
  [][/\ buf'.size >= buf.size
     /\ buf'.size > buf.size =>
          buf'.size - buf'.reader + KCheapPrepend > buf.size]_buf

\* Only prepend() takes of the kCheapPrepend bytes in front: after any other
\* call there are as many as before, or kCheapPrepend.
HeaderRoomKept ==
  [][buf'.reader >= buf.reader \/ buf'.reader >= KCheapPrepend
       \/ \E data \in Inputs : PrependBytes(data)]_buf

BQ == INSTANCE ByteQueue WITH queue <- Contents(buf)

\* The buffer is a queue of bytes: however the array grows and its bytes move,
\* none is lost, repeated or taken from the free space.
ImplementsByteQueue == BQ!Spec
=============================================================================
