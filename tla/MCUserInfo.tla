----------------------------- MODULE MCUserInfo -----------------------------
(***************************************************************************)
(* Two keys with two values, two games, and a player who is observed by    *)
(* one client.  The game may force one value of one key.                   *)
(***************************************************************************)
EXTENDS UserInfo, TLC

CONSTANTS name, team, red, blue

MCForced == {[key |-> team, value |-> blue]}
=============================================================================
