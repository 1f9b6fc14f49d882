-------------------------- MODULE MCMultiplayerGame --------------------------
(* Small matches of MultiplayerGame. *)
EXTENDS MultiplayerGame

\* Votes, deathmatches, matches of last man standing.
MCBounds == {
  [type |-> "DM", frags |-> 1, joins |-> 3, leaves |-> 1, infos |-> 0,
   deaths |-> 0, votes |-> 1, forces |-> FALSE],
  [type |-> "DM", frags |-> 1, joins |-> 2, leaves |-> 0, infos |-> 2,
   deaths |-> 0, votes |-> 1, forces |-> TRUE],
  [type |-> "DM", frags |-> 1, joins |-> 2, leaves |-> 0, infos |-> 0,
   deaths |-> 0, votes |-> 2, forces |-> FALSE],
  [type |-> "DM", frags |-> 1, joins |-> 3, leaves |-> 1, infos |-> 3,
   deaths |-> 1, votes |-> 0, forces |-> TRUE],
  [type |-> "DM", frags |-> 1, joins |-> 2, leaves |-> 0, infos |-> 4,
   deaths |-> 2, votes |-> 0, forces |-> FALSE],
  [type |-> "LASTMAN", frags |-> 1, joins |-> 3, leaves |-> 0, infos |-> 3,
   deaths |-> 2, votes |-> 0, forces |-> TRUE],
  [type |-> "LASTMAN", frags |-> 1, joins |-> 3, leaves |-> 0, infos |-> 3,
   deaths |-> 3, votes |-> 0, forces |-> FALSE],
  [type |-> "LASTMAN", frags |-> 1, joins |-> 2, leaves |-> 0, infos |-> 4,
   deaths |-> 2, votes |-> 0, forces |-> FALSE],
  [type |-> "LASTMAN", frags |-> 2, joins |-> 2, leaves |-> 0, infos |-> 2,
   deaths |-> 3, votes |-> 0, forces |-> FALSE],
  [type |-> "LASTMAN", frags |-> 1, joins |-> 2, leaves |-> 0, infos |-> 2,
   deaths |-> 1, votes |-> 1, forces |-> FALSE]}

\* A match of last man standing that its leader may leave.
MCStall == {
  [type |-> "LASTMAN", frags |-> 1, joins |-> 3, leaves |-> 1, infos |-> 3,
   deaths |-> 2, votes |-> 0, forces |-> FALSE]}
=============================================================================
