---------------------------- MODULE MCHandshake ----------------------------
(***************************************************************************)
(* ann, on the local network, connects twice while another player takes a *)
(* slot; or her program or the server may crash; or she plays on a pure    *)
(* server; or cyd comes from beyond, so that the key is checked.           *)
(***************************************************************************)
EXTENDS Handshake, TLC

CONSTANTS ann, cyd

MCHost == (ann :> "h") @@ (cyd :> "k")

Sessions(a, c) == (ann :> a) @@ (cyd :> c)

Plain == [LANServer |-> FALSE, pure |-> FALSE, paks |-> [c \in Client |-> "ok"],
          MaxPort |-> 1, MaxServer |-> 1, MaxOther |-> 0, MaxNet |-> 2]

With(setting, sessions) == setting @@ [MaxSession |-> sessions]

MCSettings ==
  {With([Plain EXCEPT !.MaxOther = 1], Sessions(2, 0)),
   With([Plain EXCEPT !.MaxPort = 2], Sessions(2, 0)),
   With([Plain EXCEPT !.MaxServer = 2, !.MaxOther = 1], Sessions(2, 0)),
   With([Plain EXCEPT !.MaxOther = 2], Sessions(1, 0)),
   With(Plain, Sessions(0, 1)),
   With([Plain EXCEPT !.LANServer = TRUE], Sessions(0, 1))}
  \cup {With([Plain EXCEPT !.pure = TRUE, !.paks[ann] = p], Sessions(2, 0)) : p \in PakState}
=============================================================================
