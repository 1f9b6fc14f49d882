-------------------------- MODULE MCMsgChannelLive --------------------------
(***************************************************************************)
(* As in the program, the queue and the longest message have the same      *)
(* size.  A short reliable message and an empty one for the game fit well  *)
(* together; a long one leaves no room for anything else.                  *)
(***************************************************************************)
EXTENDS MsgChannelLive, TLC

CONSTANTS short, long

MCSizeOf == (short :> 2) @@ (long :> 15)
MCWire == [n \in 0 .. MAX_MESSAGE_SIZE |->
             IF n < FRAGMENT_SIZE THEN {12} ELSE {16, 20}]
MCMaxSequence == (Server :> 3) @@ (Client :> 2)
MCMaxReliable == (Server :> 2) @@ (Client :> 0)
=============================================================================
