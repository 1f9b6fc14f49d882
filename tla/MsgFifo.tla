------------------------------- MODULE MsgFifo -------------------------------
(***************************************************************************)
(* The promise of idMsgQueue to the channel that owns two of them: a FIFO  *)
(* of whole messages, numbered without a gap, bounded by the bytes of the  *)
(* ring buffer.  Add either appends the message or refuses it and changes  *)
(* nothing; Get hands out the oldest message or reports an empty queue.    *)
(***************************************************************************)
EXTENDS FifoOps

CONSTANTS
  Payload,      \* the messages a caller adds
  Sequences     \* the numbers the channel starts its queues with

VARIABLES
  fifo,         \* the queue
  returned      \* what the last call returned

Reset(s) ==
  /\ fifo' = EmptyFifo(s)
  /\ returned' = <<>>

Add(p) ==
  /\ fifo' = AddTo(fifo, p)
  /\ returned' = <<HasRoom(fifo, p)>>

GetSome ==
  /\ fifo.msgs # <<>>
  /\ fifo' = Without(fifo, 1)
  /\ returned' = <<TRUE, Head(fifo.msgs)>>

GetNone ==
  /\ fifo.msgs = <<>>
  /\ fifo' = fifo
  /\ returned' = <<FALSE>>

Init ==
  /\ fifo \in {EmptyFifo(s) : s \in Sequences}
  /\ returned = <<>>

Next ==
  \/ \E s \in Sequences : Reset(s)
  \/ \E p \in Payload : Add(p)
  \/ GetSome
  \/ GetNone

Spec == Init /\ [][Next]_<<fifo, returned>>

=============================================================================
