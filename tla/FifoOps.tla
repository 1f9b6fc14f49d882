------------------------------- MODULE FifoOps -------------------------------
(***************************************************************************)
(* What an idMsgQueue holds, as a value: the sequence number of its first  *)
(* message and the messages themselves, oldest first.  Each message keeps  *)
(* the bytes it takes in the ring buffer through SizeOf, because Add       *)
(* refuses a message by counting bytes.  MsgQueue.tla is the ring buffer   *)
(* these values stand for; MsgChannel.tla is built on them.                *)
(***************************************************************************)
EXTENDS Integers, Sequences

CONSTANTS
  MAX_MSG_QUEUE_SIZE,   \* bytes of the ring buffer
  SizeOf                \* SizeOf[m]: the bytes of message m

\* The short (size) and the long (sequence) that Add writes before the data.
HeaderSize == 6

\* The bytes that Add asks for beyond the data: two more than it writes.
HeaderRoom == 8

\* idMsgQueue::Init( sequence )
EmptyFifo(sequence) == [first |-> sequence, msgs |-> <<>>]

\* GetLast: the number the next message added will get.
LastOf(q) == q.first + Len(q.msgs)

TotalSize(q) ==
  LET size[i \in 0 .. Len(q.msgs)] ==
        IF i = 0 THEN 0 ELSE size[i - 1] + HeaderSize + SizeOf[q.msgs[i]]
  IN  size[Len(q.msgs)]

\* One byte of the ring stays unused: equal indices mean an empty queue.
SpaceLeft(q) == MAX_MSG_QUEUE_SIZE - TotalSize(q) - 1

HasRoom(q, m) == SpaceLeft(q) >= SizeOf[m] + HeaderRoom

Extend(q, ms) == [first |-> q.first, msgs |-> q.msgs \o ms]

\* A mutated form: the oldest message makes room.
AddDroppingOldest(q, m) ==
  IF HasRoom(q, m) THEN Extend(q, <<m>>)
  ELSE [first |-> q.first + 1, msgs |-> Append(Tail(q.msgs), m)]

\* idMsgQueue::Add: a message that does not fit leaves the queue as it was.
AddTo(q, m) == IF HasRoom(q, m) THEN Extend(q, <<m>>) ELSE q

\* idMsgQueue::Get called n times.
Without(q, n) == [first |-> q.first + n,
                  msgs  |-> SubSeq(q.msgs, n + 1, Len(q.msgs))]

=============================================================================
