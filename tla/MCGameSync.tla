----------------------------- MODULE MCGameSync -----------------------------
(***************************************************************************)
(* One entity with two states, visible or not, and two games; or three     *)
(* games without entities, and a client that connects twice.               *)
(***************************************************************************)
EXTENDS GameSync, TLC

Interchangeable == Permutations(State)

MCBounds ==
  {[entities |-> Entity, sessions |-> 1, games |-> 2, down |-> 4, up |-> 4],
   [entities |-> {}, sessions |-> 2, games |-> 3, down |-> 4, up |-> 4]}
=============================================================================
