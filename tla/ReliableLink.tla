---------------------------- MODULE ReliableLink ----------------------------
(***************************************************************************)
(* What the network channel promises about reliable messages (the header   *)
(* of framework/async/MsgChannel.h): they "always arrive, and they also    *)
(* arrive in order without duplicates".  This module is the safety half:   *)
(* whatever the packets in between suffer, the messages an endpoint hands  *)
(* to its game are the ones the other endpoint accepted, in that order,    *)
(* none twice and none skipped.                                            *)
(***************************************************************************)
EXTENDS Integers, Sequences

CONSTANTS
  Endpoint,
  Peer(_),      \* the other end
  Message

VARIABLES
  accepted,     \* accepted[e]: the messages SendReliableMessage took from e
  delivered     \* delivered[e]: the messages GetReliableMessage gave to e

Accept(e, m) ==
  /\ accepted' = [accepted EXCEPT ![e] = Append(@, m)]
  /\ UNCHANGED delivered

Deliver(e) ==
  LET n == Len(delivered[e]) + 1
  IN  /\ n <= Len(accepted[Peer(e)])
      /\ delivered' = [delivered EXCEPT ![e] = Append(@, accepted[Peer(e)][n])]
      /\ UNCHANGED accepted

Init ==
  /\ accepted = [e \in Endpoint |-> <<>>]
  /\ delivered = [e \in Endpoint |-> <<>>]

Next == \E e \in Endpoint : Deliver(e) \/ \E m \in Message : Accept(e, m)

Spec == Init /\ [][Next]_<<accepted, delivered>>

=============================================================================
