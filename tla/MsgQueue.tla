------------------------------ MODULE MsgQueue ------------------------------
(***************************************************************************)
(* idMsgQueue (framework/async/MsgChannel.cpp:58-240): the ring buffer of  *)
(* bytes in which a channel keeps reliable messages until they are         *)
(* acknowledged (reliableSend) or read (reliableReceive).  Every message   *)
(* is a short with its size, a long with its sequence number and its data, *)
(* and any of the three may wrap around the end of the buffer.             *)
(*                                                                         *)
(* The variables are the four members of the class, and what the last call *)
(* returned.  MsgFifo.tla says what the class promises.                    *)
(***************************************************************************)
EXTENDS Integers, Sequences

CONSTANTS
  MAX_MSG_QUEUE_SIZE,   \* bytes in the buffer
  Base,                 \* values of a byte: 256 in the program
  Payload,              \* the messages callers add: sequences of bytes
  Sequences,            \* the numbers Init is called with
  MaxSequence           \* bound: the largest sequence number given out

Byte == 0 .. Base - 1
Index == 0 .. MAX_MSG_QUEUE_SIZE - 1

(***************************************************************************)
(* "must be a power of 2" (MsgChannel.h:53): the code wraps an index with  *)
(* a bit mask, which is the modulus below only for a power of two.  A size *)
(* fits the short and a sequence number the long they are written to, and  *)
(* no caller adds an empty message: its size would read as the terminator  *)
(* of the list of reliable messages.                                       *)
(***************************************************************************)
ASSUME MsgQueueAssumption ==
  /\ MAX_MSG_QUEUE_SIZE \in Nat \ {0}
  /\ \E k \in 0 .. 30 : MAX_MSG_QUEUE_SIZE = 2 ^ k
  /\ Base \in Nat \ {0, 1}
  /\ \A p \in Payload : p \in Seq(Byte) /\ Len(p) \in 1 .. Base * Base - 1
  /\ Sequences \subseteq 0 .. MaxSequence
  /\ MaxSequence \in 0 .. Base * Base * Base * Base - 1

VARIABLES
  buffer,
  first,        \* sequence number of first message in queue
  last,         \* sequence number the next message gets
  startIndex,   \* first byte of the first message
  endIndex,     \* first byte after the last message
  returned      \* the results of the last call

vars == <<buffer, first, last, startIndex, endIndex, returned>>

GetTotalSize ==
  IF startIndex <= endIndex
    THEN endIndex - startIndex
    ELSE MAX_MSG_QUEUE_SIZE - startIndex + endIndex

\* A mutated form: the wrapped queue is not told apart.
GetSpaceLeftUnwrapped == MAX_MSG_QUEUE_SIZE - (endIndex - startIndex) - 1

GetSpaceLeft ==
  IF startIndex <= endIndex
    THEN MAX_MSG_QUEUE_SIZE - (endIndex - startIndex) - 1
    ELSE (startIndex - endIndex) - 1

Wrap(i) == i % MAX_MSG_QUEUE_SIZE

\* WriteShort and WriteLong: the low byte first.
Short(s) == <<s % Base, (s \div Base) % Base>>
Long(l)  == <<l % Base, (l \div Base) % Base, (l \div (Base * Base)) % Base,
              (l \div (Base * Base * Base)) % Base>>

\* The n bytes from a position on, as ReadByte walks them.
BytesAt(i, n) == [k \in 1 .. n |-> buffer[Wrap(i + k - 1)]]

(***************************************************************************)
(* ReadShort and ReadLong combine calls of ReadByte in one expression,     *)
(* whose order C++ leaves to the compiler; this is the left to right order *)
(* that the code means.                                                    *)
(***************************************************************************)
ReadShort(i) == LET b == BytesAt(i, 2) IN b[1] + b[2] * Base
ReadLong(i)  == LET b == BytesAt(i, 4)
                IN  b[1] + b[2] * Base + b[3] * Base * Base + b[4] * Base * Base * Base

\* A mutated form: endIndex runs past the end of the buffer.
WriteBytesUnmasked(bytes) ==
  /\ buffer' = [i \in Index |->
                  LET k == i - endIndex + 1
                  IN  IF k \in 1 .. Len(bytes) THEN bytes[k] ELSE buffer[i]]
  /\ endIndex' = endIndex + Len(bytes)

\* WriteByte for each byte of a sequence.
WriteBytes(bytes) ==
  /\ buffer' = [i \in Index |->
                  LET k == Wrap(i - endIndex) + 1
                  IN  IF k <= Len(bytes) THEN bytes[k] ELSE buffer[i]]
  /\ endIndex' = Wrap(endIndex + Len(bytes))

\* A mutated form: the room for the size and the number, to the byte.
HeaderRoomExact == 6

\* The bytes that Add asks for beyond the data.
HeaderRoom == 8

(***************************************************************************)
(* The operations.                                                         *)
(***************************************************************************)
Reset(sequence) ==
  /\ first' = sequence
  /\ last' = sequence
  /\ startIndex' = 0
  /\ endIndex' = 0
  /\ returned' = <<>>
  /\ UNCHANGED buffer

AddRefused(p) ==
  /\ GetSpaceLeft < Len(p) + HeaderRoom
  /\ returned' = <<FALSE>>
  /\ UNCHANGED <<buffer, first, last, startIndex, endIndex>>

AddAccepted(p) ==
  /\ GetSpaceLeft >= Len(p) + HeaderRoom
  /\ last < MaxSequence                                          \* bound
  /\ WriteBytes(Short(Len(p)) \o Long(last) \o p)
  /\ last' = last + 1
  /\ returned' = <<TRUE>>
  /\ UNCHANGED <<first, startIndex>>

Add(p) == AddRefused(p) \/ AddAccepted(p)

GetNone ==
  /\ first = last
  /\ returned' = <<FALSE>>
  /\ UNCHANGED <<buffer, first, last, startIndex, endIndex>>

GetSome ==
  LET size == ReadShort(startIndex)
  IN  /\ first # last
      /\ returned' = <<TRUE, BytesAt(startIndex + 6, size)>>
      /\ startIndex' = Wrap(startIndex + 6 + size)
      /\ first' = first + 1
      /\ UNCHANGED <<buffer, last, endIndex>>

Get == GetNone \/ GetSome

\* A channel initialises its queues before it uses them; the buffer keeps
\* whatever bytes it had.
Init ==
  /\ buffer \in {[i \in Index |-> b] : b \in Byte}
  /\ first \in Sequences
  /\ last = first
  /\ startIndex = 0
  /\ endIndex = 0
  /\ returned = <<>>

Next ==
  \/ \E s \in Sequences : Reset(s)
  \/ \E p \in Payload : Add(p)
  \/ Get

Spec == Init /\ [][Next]_vars

(***************************************************************************)
(* What the bytes say.                                                     *)
(***************************************************************************)

\* CopyToBuffer: the queued bytes in one piece.
CopyToBuffer == BytesAt(startIndex, GetTotalSize)

\* Where the i-th queued message starts, counted in bytes from startIndex.
Offset[i \in 0 .. last - first] ==
  IF i = 0 THEN 0
  ELSE Offset[i - 1] + 6 + ReadShort(startIndex + Offset[i - 1])

Message(i) == BytesAt(startIndex + Offset[i - 1] + 6,
                      ReadShort(startIndex + Offset[i - 1]))

Queued == [first |-> first, msgs |-> [i \in 1 .. last - first |-> Message(i)]]

-----------------------------------------------------------------------------

\* The members stay in their ranges.
TypeOK ==
  /\ buffer \in [Index -> Byte]
  /\ first \in Nat /\ last \in first .. MaxSequence
  /\ startIndex \in Index /\ endIndex \in Index
  /\ returned \in {<<>>, <<TRUE>>, <<FALSE>>}
                    \cup {<<TRUE, p>> : p \in Payload}

(***************************************************************************)
(* The bytes between startIndex and endIndex are exactly last - first      *)
(* whole messages with the consecutive numbers first .. last - 1: what the *)
(* assert in Get checks of one message, and what lets ReadMessageData take *)
(* the bytes of CopyToBuffer apart again on the other host.  It breaks if  *)
(* one Add ever reaches the unread bytes of an older message.              *)
(***************************************************************************)
WellFramed ==
  /\ Offset[last - first] = GetTotalSize
  /\ \A i \in 1 .. last - first :
       ReadLong(startIndex + Offset[i - 1] + 2) = first + i - 1

(***************************************************************************)
(* The ring buffer implements the bounded FIFO that the channel relies on: *)
(* Get returns the messages that Add accepted, in order, unchanged and     *)
(* once, and Add refuses a message exactly when the bytes run out.         *)
(***************************************************************************)
Fifo == INSTANCE MsgFifo WITH
          SizeOf <- [p \in Payload |-> Len(p)],
          fifo <- Queued

ImplementsFifo == Fifo!Spec

=============================================================================
