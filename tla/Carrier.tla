------------------------------ MODULE Carrier ------------------------------
(***************************************************************************)
(* One direction of an idMsgChannel as the frame loops of the server and   *)
(* the client use it.  Unreliable messages are numbered; the network loses *)
(* and reorders them, and the channel hands them up in order, each at most *)
(* once.  A message brings every reliable message that was queued before   *)
(* it was sent, and the frame loop reads those first.  That the channel    *)
(* does keep this is what the runs of MsgChannel show (UnreliableInOrder,  *)
(* ReliableInOrder, Carries).                                              *)
(*                                                                         *)
(* A carrier is a record:                                                  *)
(*   next      number of the next message sent                             *)
(*   net       messages sent that may still arrive                         *)
(*   last      number of the last message handed up                        *)
(*   upTo      how many reliable messages have arrived with them           *)
(*   read      how many of those the receiver has read                     *)
(*   reliable  reliable messages queued and not yet read                   *)
(*   at hand   `msg`, the message handed up that is being processed        *)
(***************************************************************************)
EXTENDS Integers, Sequences

NoMsg == [kind |-> "none"]

NewCarrier == [next |-> 1, net |-> {}, last |-> 0, upTo |-> 0, read |-> 0,
               reliable |-> <<>>, msg |-> NoMsg]

\* SendReliableMessage.
Queued(c, r) == [c EXCEPT !.reliable = Append(@, r)]

\* SendMessage: every reliable message not yet acknowledged rides along.
Sent(c, body) ==
  [c EXCEPT !.next = @ + 1,
            !.net = @ \cup {[seq  |-> c.next,
                             upTo |-> c.read + Len(c.reliable),
                             body |-> body]}]

\* Process: older messages can no longer arrive.
HandedUp(c, m) ==
  [c EXCEPT !.net = {n \in @ : n.seq > m.seq},
            !.last = m.seq,
            !.upTo = m.upTo,
            !.msg = m.body]

\* The host is processing a message; it does nothing else meanwhile.
Busy(c) == c.msg # NoMsg

\* GetReliableMessage: the loop runs until it has read what has arrived.
HasReliable(c) == Busy(c) /\ c.read < c.upTo
ReadReliable(c) == [c EXCEPT !.read = @ + 1, !.reliable = Tail(@)]

\* The unreliable message comes last.
AtUnreliable(c) == Busy(c) /\ c.read = c.upTo
Done(c) == [c EXCEPT !.msg = NoMsg]

=============================================================================
