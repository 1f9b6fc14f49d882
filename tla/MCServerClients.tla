--------------------------- MODULE MCServerClients ---------------------------
(***************************************************************************)
(* Two slots; queues with just the room for a client that joins the other. *)
(* Three connections, so that a slot is taken again while somebody plays;  *)
(* or two and a message more; or one, with a change of the map, and the    *)
(* paks asked for.                                                         *)
(***************************************************************************)
EXTENDS ServerClients, TLC

MCBounds == {[pure |-> FALSE, connects |-> 3, games |-> 1, extras |-> 0],
             [pure |-> FALSE, connects |-> 2, games |-> 1, extras |-> 1],
             [pure |-> TRUE, connects |-> 1, games |-> 2, extras |-> 1]}
=============================================================================
