------------------------ MODULE MCMsgChannelOverflow ------------------------
(***************************************************************************)
(* A queue with room for one reliable message.                             *)
(***************************************************************************)
EXTENDS MsgChannelOverflow, TLC

MCSizeOf == [m \in Message |-> 2]
MCWire == [n \in 0 .. MAX_MESSAGE_SIZE |-> {12}]
MCMaxSequence == (Server :> 2) @@ (Client :> 1)
MCMaxReliable == (Server :> 2) @@ (Client :> 0)
=============================================================================
