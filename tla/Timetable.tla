------------------------------ MODULE Timetable ------------------------------
(***************************************************************************)
(* What the queues of game events (d3xp/gamesys/Event.cpp) promise: an     *)
(* event that was posted waits until its time comes or its object cancels  *)
(* it; of those whose time has come the earliest is served first, of       *)
(* those of one time the one posted first; each is served once.            *)
(***************************************************************************)
EXTENDS Naturals

CONSTANT Groups

VARIABLES
  pending,   \* the events that wait: [stamp, group, time, object, def]
  now,       \* the clock of each group
  saved      \* the saved games

vars == <<pending, now, saved>>

Before(a, b) == \/ a.time < b.time
                \/ a.time = b.time /\ a.stamp < b.stamp

Post ==
  /\ \E e \in pending' \ pending :
       /\ pending' = pending \cup {e}
       /\ \A p \in pending : p.stamp < e.stamp
  /\ UNCHANGED <<now, saved>>

\* An object cancels all its events, or those of one kind.
Cancel ==
  /\ \E p \in pending :
       pending' \in {{e \in pending : e.object # p.object},
                     {e \in pending : e.object # p.object \/ e.def # p.def}}
  /\ UNCHANGED <<now, saved>>

Serve ==
  /\ \E e \in pending :
       /\ e.time <= now[e.group]
       /\ \A p \in pending : p.group = e.group /\ p # e => Before(e, p)
       /\ pending' = pending \ {e}
  /\ UNCHANGED <<now, saved>>

Tick ==
  /\ \A g \in Groups : now[g] <= now'[g]
  /\ UNCHANGED <<pending, saved>>

Save ==
  /\ saved' = saved \cup {[pending |-> pending, now |-> now]}
  /\ UNCHANGED <<pending, now>>

Load ==
  /\ \E game \in saved : pending' = game.pending /\ now' = game.now
  /\ UNCHANGED saved

\* The map is left: its objects go, with their events.
Leave == pending' = {} /\ UNCHANGED <<now, saved>>

\* And another one begins.
Begin == pending = {} /\ now' = [g \in Groups |-> 0] /\ UNCHANGED <<pending, saved>>

Init == pending = {} /\ now = [g \in Groups |-> 0] /\ saved = {}

Next == Post \/ Cancel \/ Serve \/ Tick \/ Save \/ Load \/ Leave \/ Begin

Spec == Init /\ [][Next]_vars
=============================================================================
