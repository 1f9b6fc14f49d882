------------------------------- MODULE Places -------------------------------
(***************************************************************************)
(* The items of a list at some of its places, in the order they had.       *)
(***************************************************************************)
EXTENDS Naturals, Sequences, FiniteSets

\* The items of a list.
In(q) == {q[n] : n \in DOMAIN q}

\* Places of a list, in their order.
InOrder(places) ==
  CHOOSE f \in [1 .. Cardinality(places) -> places] :
    In(f) = places /\ \A m, n \in DOMAIN f : m < n => f[m] < f[n]

\* What is left of a list when all the others are taken out.
AtPlaces(q, places) ==
  LET kept == InOrder(places)
  IN  [n \in DOMAIN kept |-> q[kept[n]]]

=============================================================================
