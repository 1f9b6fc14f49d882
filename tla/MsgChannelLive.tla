--------------------------- MODULE MsgChannelLive ---------------------------
(***************************************************************************)
(* The channel under the scheduling of its two owners, to ask whether      *)
(* reliable messages do arrive.  idAsyncServer::RunFrame and               *)
(* idAsyncClient::RunFrame send on every connection again and again, a     *)
(* fragment first when one is left, and both read every reliable message   *)
(* that a Process call left before they process another packet.            *)
(*                                                                         *)
(* The network delivers a packet at most once, in any order, or loses it.  *)
(* A game goes on sending and a network that loses everything for ever     *)
(* delivers nothing, so the last message of the bounded run stands for the *)
(* one that gets through: its packets are neither lost nor overtaken.      *)
(***************************************************************************)
EXTENDS MsgChannel

IsLast(p) == p.seq = MaxSequence[Peer(p.to)]

Overtakes(p, q) ==
  /\ q.to = p.to
  /\ \/ q.seq < p.seq
     \/ q.seq = p.seq /\ q.start < p.start

\* bound: a reliable message is accepted only while an unreliable one that
\* can carry it is still to be sent.
CarrierToCome(e) ==
  \/ outgoingSequence[e] < MaxSequence[e]
  \/ outgoingSequence[e] = MaxSequence[e] /\ ~unsentFragments[e]

AcceptReliable(e, m) == CarrierToCome(e) /\ SendReliableMessage(e, m)

ReceiveOnce(e) ==
  \E p \in net :
    /\ p.to = e
    /\ reliableReceive[e].msgs = <<>>
    /\ IsLast(p) => \A q \in net : ~Overtakes(p, q)
    /\ Process(e, p)
    /\ net' = net \ {p}

Lose ==
  \E p \in net :
    /\ ~IsLast(p)
    /\ net' = net \ {p}
    /\ UNCHANGED <<sendVars, recvVars, reliableSend, reliableReceive,
                   accepted, delivered, handed>>

LiveNext ==
  \/ \E e \in Endpoint :
       \/ \E m \in Message : AcceptReliable(e, m)
       \/ Send(e)
       \/ SendNextFragment(e)
       \/ ReceiveOnce(e)
       \/ GetReliableMessage(e)
  \/ Lose

Fairness ==
  \A e \in Endpoint :
    /\ WF_vars(Send(e))
    /\ WF_vars(SendNextFragment(e))
    /\ WF_vars(ReceiveOnce(e))
    /\ WF_vars(GetReliableMessage(e))

LiveSpec == Init /\ [][LiveNext]_vars /\ Fairness

-----------------------------------------------------------------------------

\* The queue leaves no room for even the shortest message: every SendMessage
\* is "message too large" (MsgChannel.cpp:485) and sends nothing.
Jammed(e) == \A size \in DataSize : TotalLength(e, size) > MAX_MESSAGE_SIZE

(***************************************************************************)
(* Every reliable message accepted is delivered in the end, through loss   *)
(* and reordering, fragmentation and acknowledgements that arrive late -   *)
(* unless the queue that holds it jams, of which "Reliable messages always *)
(* arrive" (MsgChannel.h:40) says nothing.                                 *)
(***************************************************************************)
ArrivesOrJams ==
  \A e \in Endpoint : \A i \in 1 .. MaxReliable[e] :
    Len(accepted[e]) >= i ~> Len(delivered[Peer(e)]) >= i \/ Jammed(e)

=============================================================================
