------------------------- MODULE MsgChannelOverflow -------------------------
(***************************************************************************)
(* What idAsyncServer::SendReliableMessage (framework/async/               *)
(* AsyncServer.cpp:797) does when the queue of a client is full: it clears *)
(* the reliable messages of that channel and drops the client, which       *)
(* queues the client a last reliable message, its disconnect.  The server  *)
(* keeps the client as a zombie and goes on sending it empty messages; it  *)
(* gives it no other reliable message.                                     *)
(***************************************************************************)
EXTENDS MsgChannelLive

CONSTANT disconnect     \* SERVER_RELIABLE_MESSAGE_DISCONNECT

VARIABLE dropped        \* the server has dropped the client

allVars == <<vars, dropped>>

\* channel.SendReliableMessage fails, ClearReliableMessages, DropClient.
DropOverflowed(m) ==
  /\ ~dropped
  /\ CarrierToCome(Server)
  /\ ~HasRoom(reliableSend[Server], m)
  /\ reliableSend' = [reliableSend EXCEPT
                        ![Server] = AddTo(EmptyFifo(1), disconnect)]
  /\ reliableReceive' = [reliableReceive EXCEPT ![Server] = EmptyFifo(0)]
  /\ dropped' = TRUE
  /\ UNCHANGED <<sendVars, recvVars, net, accepted, delivered, handed>>

OverflowInit == Init /\ dropped = FALSE

OverflowNext ==
  \/ \E m \in Message \ {disconnect} :
       \/ ~dropped /\ AcceptReliable(Server, m) /\ UNCHANGED dropped
       \/ DropOverflowed(m)
  \/ \E e \in Endpoint :
       /\ Send(e) \/ SendNextFragment(e) \/ ReceiveOnce(e) \/ GetReliableMessage(e)
       /\ UNCHANGED dropped
  \/ Lose /\ UNCHANGED dropped

OverflowSpec == OverflowInit /\ [][OverflowNext]_allVars /\ Fairness

\* A dropped client is told so: "Reliable messages always arrive"
\* (MsgChannel.h:40), and the empty messages to zombies are there "to make
\* sure they disconnect" (AsyncServer.cpp:215).
DisconnectArrives ==
  dropped ~> disconnect \in {delivered[Client][i] : i \in DOMAIN delivered[Client]}

=============================================================================
