---------------------------- MODULE MCGameEvents ----------------------------
(***************************************************************************)
(* An entity, which has a group and can be grabbed, and a script thread.   *)
(* Events are due at once or with the next frame; in slow motion that is   *)
(* the one after it, so that four units of time make the clocks differ by  *)
(* a frame.  A queue of three has a place before, between and behind two;  *)
(* three events also empty the pool, and two a frame are an overflow.      *)
(***************************************************************************)
EXTENDS GameEvents, TLC

MCBounds == {[posts |-> 2, time |-> 4, saves |-> FALSE],
             [posts |-> 3, time |-> 2, saves |-> FALSE],
             [posts |-> 2, time |-> 2, saves |-> TRUE]}

Pool == Permutations(EventPool)
=============================================================================
