------------------------------ MODULE DeltaDict ------------------------------
(***************************************************************************)
(* idBitMsg::WriteDeltaDict and ReadDeltaDict (idlib/BitMsg.cpp): a        *)
(* dictionary is sent as the pairs that a base lacks or has with another   *)
(* value, and the keys of the base that it lacks.  A dictionary is a       *)
(* function from its keys to their values.  Values that differ in case     *)
(* only are one value, as they are to WriteDeltaDict, which compares with  *)
(* Icmp: a change of case alone does not travel.                           *)
(***************************************************************************)
EXTENDS Functions

\* The base of a message written against NULL.
EmptyDict == <<>>

\* The message: the pairs to set and the keys to delete.
WriteDeltaDict(dict, base) ==
  [set |-> Restrict(dict, {k \in DOMAIN dict :
                             k \in DOMAIN base => base[k] # dict[k]}),
   deleted |-> DOMAIN base \ DOMAIN dict]

\* The pairs of the message replace those of the base, then keys go.
ReadDeltaDict(delta, base) ==
  [k \in (DOMAIN base \cup DOMAIN delta.set) \ delta.deleted |->
     IF k \in DOMAIN delta.set THEN delta.set[k] ELSE base[k]]

=============================================================================
