---------------------------- MODULE MCMsgChannel ----------------------------
(***************************************************************************)
(* A message without reliable ones has 12 bytes and fits a packet; a short *)
(* one brings it to 19 and a long one to 27, beyond FRAGMENT_SIZE.         *)
(* Packed, a long message takes exactly one full fragment (and an empty    *)
(* one to end it), or two.                                                 *)
(*                                                                         *)
(* The queues fill up at both ends: there is room for a long message and a *)
(* short one, but not for two long ones, and the game of the receiving end *)
(* may leave messages unread, so that the queue a message arrives in is    *)
(* full when the one it left was not.                                      *)
(***************************************************************************)
EXTENDS MsgChannel, TLC

CONSTANTS short, long

MCSizeOf == (short :> 1) @@ (long :> 9)
MCWire == [n \in 0 .. MAX_MESSAGE_SIZE |->
             IF n < FRAGMENT_SIZE THEN {12} ELSE {16, 20}]
MCMaxSequence == (Server :> 3) @@ (Client :> 2)
MCMaxReliable == (Server :> 2) @@ (Client :> 0)
=============================================================================
