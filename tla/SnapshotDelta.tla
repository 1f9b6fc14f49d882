--------------------------- MODULE SnapshotDelta ---------------------------
(***************************************************************************)
(* The delta compression of snapshots (d3xp/Game_network.cpp).  Server and *)
(* client each keep, for one client, the entity states and the set of      *)
(* visible entities of the last snapshot applied (the base), and a list of *)
(* the snapshots sent or read since then, newest first.  A snapshot holds  *)
(* the states that differ from the base; applying it makes it part of the  *)
(* base.                                                                   *)
(*                                                                         *)
(* The state of an entity is a value of State; None stands for no state.   *)
(* Its fields are written one by one, each only if it changed, so a state  *)
(* read against a base other than the one it was written against is        *)
(* neither state: Garbage.                                                 *)
(***************************************************************************)
EXTENDS Integers, Sequences, Places

CONSTANTS
  Entity,     \* entities the network synchronizes
  State,      \* their states
  None,       \* no state
  Garbage     \* what comes out of a delta read against another base

ASSUME SnapshotDeltaAssumption ==
  /\ None \notin State
  /\ Garbage \notin State \cup {None} \cup Entity

\* What InitAsyncNetwork and ShutdownAsyncNetwork leave.
Cleared == [base |-> [e \in Entity |-> None], pvs |-> {}, snapshots |-> <<>>]

FreeSnapshotsOlderThanSequence(d, sequence) ==
  LET recent == {i \in DOMAIN d.snapshots : d.snapshots[i].sequence >= sequence}
  IN  [d EXCEPT !.snapshots = AtPlaces(@, recent)]

\* Whether ApplySnapshot finds the snapshot, and what it leaves.
Holds(d, sequence) ==
  \E i \in DOMAIN d.snapshots : d.snapshots[i].sequence = sequence

ApplySnapshot(d, sequence) ==
  LET kept == FreeSnapshotsOlderThanSequence(d, sequence)
      found == {i \in DOMAIN kept.snapshots : kept.snapshots[i].sequence = sequence}
      at == CHOOSE i \in found : \A j \in found : i <= j
      snapshot == kept.snapshots[at]
  IN  IF found = {} THEN kept
      ELSE [base |-> [e \in Entity |-> IF e \in DOMAIN snapshot.states
                                         THEN snapshot.states[e]
                                         ELSE kept.base[e]],
            pvs |-> snapshot.pvs,
            snapshots |-> AtPlaces(kept.snapshots, DOMAIN kept.snapshots \ {at})]

WithSnapshot(d, sequence, states, pvs) ==
  LET snapshot == [sequence |-> sequence, states |-> states, pvs |-> pvs]
  IN  [d EXCEPT !.snapshots = <<snapshot>> \o @]

\* The entities that ServerWriteSnapshot writes.
Written(d, world, pvs) == {e \in pvs : world[e] # d.base[e]}

\* The snapshot as it travels: the states written, the visible entities, and
\* (not in the packet) the base both were written against and the truth.
Encoded(d, world, pvs) ==
  [states |-> [e \in Written(d, world, pvs) |-> world[e]],
   pvs    |-> pvs,
   from   |-> [base |-> d.base, pvs |-> d.pvs],
   truth  |-> [e \in pvs |-> world[e]]]

\* ClientReadSnapshot, against the base of the client.
DecodedStates(d, enc) ==
  [e \in DOMAIN enc.states |->
     IF d.base[e] = enc.from.base[e] THEN enc.states[e] ELSE Garbage]

DecodedPVS(d, enc) == IF d.pvs = enc.from.pvs THEN enc.pvs ELSE {Garbage}

\* What the player is shown: the states read, and for the other visible
\* entities the states of the base.
View(d, states, pvs) ==
  [e \in pvs |-> IF e \in DOMAIN states THEN states[e]
                 ELSE IF e \in Entity THEN d.base[e] ELSE Garbage]

=============================================================================
