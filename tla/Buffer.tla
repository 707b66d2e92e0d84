------------------------------- MODULE Buffer -------------------------------
(***************************************************************************)
(* net/Buffer.h and Buffer::readFd(): the buffer of a connection.          *)
(*                                                                         *)
(*     0        readerIndex_      writerIndex_       buffer_.size()        *)
(*     | prependable |    readable     |     writable     |                *)
(*                                                                         *)
(* A buffer is a record of its memory and its two indices; the operations  *)
(* are functions from buffers to buffers, and the actions apply them.      *)
(***************************************************************************)
EXTENDS Naturals, Sequences

CONSTANTS Byte,            \* what a char can be
          Zero,            \* the char that vector::resize() fills with
          Data,            \* byte strings that are appended, prepended or read
          kCheapPrepend,   \* 8 in the code
          kInitialSize,    \* 1024 in the code
          ExtraSize,       \* readFd()'s extrabuf: 65536 in the code
          MaxReadable      \* bound: readable bytes

ASSUME ByteAssumption == Zero \in Byte /\ Data \subseteq Seq(Byte)
ASSUME SizeAssumption ==
  /\ kCheapPrepend \in Nat
  /\ kInitialSize \in Nat
  /\ ExtraSize \in Nat
  /\ MaxReadable \in Nat

VARIABLE buffer   \* the Buffer: [mem, size, reader, writer]

readableBytes(x) == x.writer - x.reader
writableBytes(x) == x.size - x.writer
prependableBytes(x) == x.reader

\* toStringView(): the readable bytes.
toStringView(x) == [i \in 1 .. readableBytes(x) |-> x.mem[x.reader + i - 1]]

\* Buffer::Buffer().
NewBuffer ==
  [mem    |-> [i \in 0 .. kCheapPrepend + kInitialSize - 1 |-> Zero],
   size   |-> kCheapPrepend + kInitialSize,
   reader |-> kCheapPrepend,
   writer |-> kCheapPrepend]

\* retrieveAll().
retrieveAll(x) == [x EXCEPT !.reader = kCheapPrepend, !.writer = kCheapPrepend]

\* retrieve().
retrieve(x, len) ==
  IF len < readableBytes(x) THEN [x EXCEPT !.reader = @ + len] ELSE retrieveAll(x)

\* Fault: the prependable bytes are not counted from kCheapPrepend.
makeSpaceGreedy(x, len) ==
  IF writableBytes(x) + prependableBytes(x) < len
  THEN [x EXCEPT !.size = x.writer + len,
                 !.mem = [i \in 0 .. x.writer + len - 1 |->
                            IF i < x.size THEN x.mem[i] ELSE Zero]]
  ELSE [x EXCEPT !.mem = [i \in 0 .. x.size - 1 |->
                            IF kCheapPrepend <= i /\ i < kCheapPrepend + readableBytes(x)
                            THEN x.mem[i - kCheapPrepend + x.reader] ELSE x.mem[i]],
                 !.reader = kCheapPrepend,
                 !.writer = kCheapPrepend + readableBytes(x)]

\* Fault: the readable bytes are not moved, only the indices.
makeSpaceNoCopy(x, len) ==
  IF writableBytes(x) + prependableBytes(x) < len + kCheapPrepend
  THEN [x EXCEPT !.size = x.writer + len,
                 !.mem = [i \in 0 .. x.writer + len - 1 |->
                            IF i < x.size THEN x.mem[i] ELSE Zero]]
  ELSE [x EXCEPT !.reader = kCheapPrepend,
                 !.writer = kCheapPrepend + readableBytes(x)]

\* makeSpace(): grow, or move the readable bytes to the front.
makeSpace(x, len) ==
  IF writableBytes(x) + prependableBytes(x) < len + kCheapPrepend
  THEN [x EXCEPT !.size = x.writer + len,
                 !.mem = [i \in 0 .. x.writer + len - 1 |->
                            IF i < x.size THEN x.mem[i] ELSE Zero]]
  ELSE [x EXCEPT !.mem = [i \in 0 .. x.size - 1 |->
                            IF kCheapPrepend <= i /\ i < kCheapPrepend + readableBytes(x)
                            THEN x.mem[i - kCheapPrepend + x.reader] ELSE x.mem[i]],
                 !.reader = kCheapPrepend,
                 !.writer = kCheapPrepend + readableBytes(x)]

\* ensureWritableBytes().
ensureWritableBytes(x, len) == IF writableBytes(x) < len THEN makeSpace(x, len) ELSE x

\* std::copy() of d to the memory from index at on.
copyTo(x, d, at) ==
  [x EXCEPT !.mem = [i \in 0 .. x.size - 1 |->
                       IF at <= i /\ i < at + Len(d) THEN d[i - at + 1] ELSE x.mem[i]]]

\* hasWritten().
hasWritten(x, len) == [x EXCEPT !.writer = @ + len]

\* append().
append(x, d) ==
  LET y == ensureWritableBytes(x, Len(d))
  IN hasWritten(copyTo(y, d, y.writer), Len(d))

\* prepend(), whose caller keeps len <= prependableBytes().
prepend(x, d) ==
  LET y == [x EXCEPT !.reader = @ - Len(d)]
  IN copyTo(y, d, y.reader)

\* shrink(): a new buffer with the readable bytes and some room.
shrink(x, reserve) ==
  append(ensureWritableBytes(NewBuffer, readableBytes(x) + reserve), toStringView(x))

\* readFd() when readv() yields d: first into the writable bytes, the rest
\* into extrabuf and from there to the end.
readFd(x, d) ==
  LET room == writableBytes(x)
  IN IF Len(d) <= room
     THEN hasWritten(copyTo(x, d, x.writer), Len(d))
     ELSE append([copyTo(x, SubSeq(d, 1, room), x.writer) EXCEPT !.writer = x.size],
                 SubSeq(d, room + 1, Len(d)))

-----------------------------------------------------------------------------
BufferInit == buffer = NewBuffer

HasRoomFor(d) == readableBytes(buffer) + Len(d) <= MaxReadable

Append_(d) == HasRoomFor(d) /\ buffer' = append(buffer, d)

Prepend(d) ==
  /\ HasRoomFor(d)
  /\ Len(d) <= prependableBytes(buffer)
  /\ buffer' = prepend(buffer, d)

ReadFd(d) ==
  /\ HasRoomFor(d)
  /\ Len(d) <= writableBytes(buffer) + ExtraSize
  /\ buffer' = readFd(buffer, d)

Retrieve(len) == buffer' = retrieve(buffer, len)

Shrink(reserve) == reserve <= MaxReadable /\ buffer' = shrink(buffer, reserve)

BufferNext ==
  \/ \E d \in Data : Append_(d) \/ Prepend(d) \/ ReadFd(d)
  \/ \E n \in 0 .. MaxReadable : Retrieve(n) \/ Shrink(n)

BufferSpec == BufferInit /\ [][BufferNext]_buffer

-----------------------------------------------------------------------------
(* Properties.                                                             *)

\* A buffer is well formed: 0 <= readerIndex_ <= writerIndex_ <= size(), and it
\* never gets too small for the indices retrieveAll() sets.
WellFormed(x) ==
  /\ x = [mem |-> x.mem, size |-> x.size, reader |-> x.reader, writer |-> x.writer]
  /\ x.size \in Nat
  /\ x.mem \in [0 .. x.size - 1 -> Byte]
  /\ x.reader \in Nat
  /\ x.writer \in Nat
  /\ x.reader <= x.writer
  /\ x.writer <= x.size
  /\ kCheapPrepend <= x.size

BufferOK == WellFormed(buffer)

\* The assertions of makeSpace() (274, 279) and ensureWritableBytes() (242):
\* bytes are moved only towards the front, none is lost, and afterwards there
\* is room for len bytes behind the readable ones.
SpaceIsMade ==
  \A len \in 0 .. MaxReadable :
    LET y == ensureWritableBytes(buffer, len)
    IN /\ writableBytes(y) >= len
       /\ readableBytes(y) = readableBytes(buffer)
       /\ y.reader # buffer.reader => kCheapPrepend < buffer.reader

\* The buffer is a queue of bytes.
Queue == INSTANCE ByteQueue WITH content <- toStringView(buffer)

ImplementsByteQueue == Queue!Spec
=============================================================================
