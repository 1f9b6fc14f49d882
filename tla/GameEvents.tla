----------------------------- MODULE GameEvents -----------------------------
(***************************************************************************)
(* The events that the objects of the game post to themselves and to each  *)
(* other (d3xp/gamesys/Event.cpp, Class.cpp), and the frames that serve    *)
(* them (Game_local.cpp), in the single player game, where time has two    *)
(* clocks: that of the slow group falls behind in slow motion, that of the *)
(* fast group, the player's, does not.  Each has a queue.                  *)
(*                                                                         *)
(* A list of events is the sequence of its nodes; which of the free events *)
(* is taken does not matter, they are a set.  What an event's handler does *)
(* is one action per call that matters here, between Serve and Return.     *)
(***************************************************************************)
EXTENDS Integers, Sequences, Places

CONSTANTS
  EventPool,           \* the events of the pool
  Entities,            \* objects that have a time group
  Threads,             \* objects that have none: script threads
  Defs,                \* event definitions
  Delays,              \* delays that events are posted with
  MAX_EVENTSPERFRAME,
  None,                \* no event, no object
  Bounds               \* bounds: events posted, time, and whether it saves

ASSUME GameEventsAssumption ==
  /\ IsFiniteSet(EventPool)
  /\ None \notin EventPool
  /\ Entities \cap Threads = {}
  /\ Delays \subseteq Nat
  /\ MAX_EVENTSPERFRAME \in Nat
  /\ \A b \in Bounds : b.posts \in Nat /\ b.time \in Nat

VARIABLES
  free,      \* FreeEvents
  queue,     \* EventQueue and FastEventQueue
  event,     \* the events: stamp, due and crossed are history
  clock,     \* slow.time and fast.time
  phase,     \* where RunFrame, or the loading of a map, is
  serving,   \* the event whose handler runs
  num,       \* events served by this call of ServiceEvents
  group,     \* timeGroup of the entities
  alive,     \* objects that exist
  lost,      \* history: events whose handler never returned
  posts,     \* history: events posted
  saved,     \* the saved games
  bound      \* one of Bounds

vars == <<free, queue, event, clock, phase, serving, num, group, alive, lost, posts, saved,
          bound>>

Groups == {"slow", "fast"}
Objects == Entities \cup Threads

Frame == 2                 \* USERCMD_MSEC
SlowMotion == {1, 2}       \* slowmoMsec

Queued == In(queue["slow"]) \cup In(queue["fast"])

\* The game's code runs: an event's handler, the thinking or spawning of entities.
Running == serving # None \/ phase \in {"spawn", "think slow", "think fast"}

-----------------------------------------------------------------------------
(* Lists of events *)

\* eventNode.Remove: the others stay as they are.
Removed(q, events) ==
  AtPlaces(q, {n \in DOMAIN q : q[n] \notin events})

\* Mutated form: before those of the same time.
InsertedFirst(q, e, time) ==
  LET later == {n \in DOMAIN q : time <= event[q[n]].time}
      at == IF later = {} THEN Len(q) + 1 ELSE CHOOSE n \in later : \A m \in later : n <= m
  IN  SubSeq(q, 1, at - 1) \o <<e>> \o SubSeq(q, at, Len(q))

\* Before the first event of a later time.
Inserted(q, e, time) ==
  LET later == {n \in DOMAIN q : time < event[q[n]].time}
      at == IF later = {} THEN Len(q) + 1 ELSE CHOOSE n \in later : \A m \in later : n <= m
  IN  SubSeq(q, 1, at - 1) \o <<e>> \o SubSeq(q, at, Len(q))

Blank == [object |-> None, def |-> None, time |-> 0,
          stamp |-> 0, due |-> 0, crossed |-> FALSE]

\* idEvent::Free: a node that is put in the free list leaves the one it is in.
Free(events) ==
  /\ free' = free \cup events
  /\ event' = [e \in EventPool |-> IF e \in events THEN Blank ELSE event[e]]
  /\ queue' = [g \in Groups |-> Removed(queue[g], events)]

-----------------------------------------------------------------------------
(* What the game's code does to the events, from a handler or out of one *)

QueueOf(o) == IF o \in Entities /\ group[o] = "fast" THEN "fast" ELSE "slow"

\* A mutated form: for either queue the time of the code that posts.
TimeAtHand(g, context) == clock[context]

\* gameLocal.time, which is that of the group whose code runs.
TimeFor(g, context) == IF g = "fast" THEN clock[context] ELSE clock["slow"]

\* PostEventArgs, Schedule.  The code of an object calls that of others, of either
\* group, directly (ProcessEventArgPtr): the time may be of either clock.
Post(o, def, delay, context) ==
  LET g == QueueOf(o)
      time == TimeFor(g, context) + delay
  IN  /\ Running
      /\ o \in alive
      /\ posts < bound.posts                                           \* bound
      /\ \E e \in free :
           /\ free' = free \ {e}
           /\ event' = [event EXCEPT ![e] =
                [object |-> o, def |-> def, time |-> time, stamp |-> posts + 1,
                 due |-> clock[g] + delay,
                 crossed |-> g = "fast" /\ context = "slow"]]
           /\ queue' = [queue EXCEPT ![g] = Inserted(@, e, time)]
      /\ posts' = posts + 1
      /\ UNCHANGED <<clock, phase, serving, num, group, alive, lost, saved, bound>>

\* A mutated form: only in the queue that the object has now.
InQueueOf(o, defs) ==
  {e \in In(queue[QueueOf(o)]) : event[e].object = o /\ event[e].def \in defs}

EventsOf(o, defs) == {e \in Queued : event[e].object = o /\ event[e].def \in defs}

\* CancelEvents: all events of an object, or those of one definition.
CancelEvents(o, defs) ==
  /\ Running
  /\ o \in alive
  /\ Free(EventsOf(o, defs))
  /\ UNCHANGED <<clock, phase, serving, num, group, alive, lost, posts, saved, bound>>

Spawn(o, g) ==
  /\ Running
  /\ o \notin alive
  /\ alive' = alive \cup {o}
  /\ group' = IF o \in Entities THEN [group EXCEPT ![o] = g] ELSE group
  /\ UNCHANGED <<free, queue, event, clock, phase, serving, num, lost, posts, saved, bound>>

\* ~idClass, from the object's own handler or from elsewhere.
Delete(o) ==
  /\ Running
  /\ o \in alive
  /\ Free(EventsOf(o, Defs))
  /\ alive' = alive \ {o}
  /\ UNCHANGED <<clock, phase, serving, num, group, lost, posts, saved, bound>>

\* idGrabber::StartDrag and StopDrag move an entity to the other group.
Grab(o) ==
  /\ Running
  /\ o \in alive
  /\ group' = [group EXCEPT ![o] = IF @ = "slow" THEN "fast" ELSE "slow"]
  /\ UNCHANGED <<free, queue, event, clock, phase, serving, num, alive, lost, posts, saved, bound>>

-----------------------------------------------------------------------------
(* Frames *)

GoesTo(place) == phase' = place /\ num' = 0

\* RunFrame: the clock of the slow group, whose entities think.
StartFrame ==
  /\ phase = "between"
  /\ clock["fast"] + Frame <= bound.time                               \* bound
  /\ \E ms \in SlowMotion : clock' = [clock EXCEPT !["slow"] = @ + ms]
  /\ GoesTo("think slow")
  /\ UNCHANGED <<free, queue, event, serving, group, alive, lost, posts, saved, bound>>

\* A mutated form: the clock of the fast group is not moved on.
NotIncremented == clock

\* fast.Increment
Incremented == [clock EXCEPT !["fast"] = @ + Frame]

RunTimeGroup2 ==
  /\ phase = "think slow"
  /\ clock' = Incremented
  /\ GoesTo("think fast")
  /\ UNCHANGED <<free, queue, event, serving, group, alive, lost, posts, saved, bound>>

StartService ==
  /\ \/ phase = "spawn" /\ GoesTo("populate")
     \/ phase = "think fast" /\ GoesTo("serve slow")
  /\ UNCHANGED <<free, queue, event, clock, serving, group, alive, lost, posts, saved, bound>>

\* The queue that is served.
Served == IF phase = "serve fast" THEN "fast" ELSE "slow"
Serving == phase \in {"populate", "serve slow", "serve fast"}

Due == queue[Served] # <<>> /\ event[Head(queue[Served])].time <= clock[Served]

\* A mutated form: the event stays in its list until it is freed.
LeftInPlace == UNCHANGED queue

\* "the event is removed from its list so that if then object is deleted, the
\* event won't be freed twice"
Unlinked == queue' = [queue EXCEPT ![Served] = Tail(@)]

\* ServiceEvents, ServiceFastEvents: up to the handler,
Serve ==
  /\ Serving
  /\ serving = None
  /\ Due
  /\ serving' = Head(queue[Served])
  /\ Unlinked
  /\ UNCHANGED <<free, event, clock, phase, num, group, alive, lost, posts, saved, bound>>

\* and behind it.
Return ==
  /\ serving # None
  /\ num < MAX_EVENTSPERFRAME
  /\ Free({serving})
  /\ serving' = None
  /\ num' = num + 1
  /\ UNCHANGED <<clock, phase, group, alive, lost, posts, saved, bound>>

EndService ==
  /\ Serving
  /\ serving = None
  /\ ~Due
  /\ GoesTo(IF phase = "serve slow" THEN "serve fast" ELSE "between")
  /\ UNCHANGED <<free, queue, event, clock, serving, group, alive, lost, posts, saved, bound>>

-----------------------------------------------------------------------------
(* Maps and saved games *)

\* MapShutdown: every object goes, and cancels its events.
MapShutdown(events) ==
  /\ Free(Queued \cup events)
  /\ alive' = {}
  /\ serving' = None
  /\ GoesTo("no map")
  /\ UNCHANGED <<clock, group, posts, saved, bound>>

LeaveMap == phase = "between" /\ MapShutdown({}) /\ UNCHANGED lost

\* idGameLocal::Error, from anywhere in the game's code, for one when there is no
\* free event (Alloc): the session shuts the map down, and the exception leaves
\* ServiceEvents with the event in no list.
Error ==
  /\ Running
  /\ lost' = lost \cup ({serving} \ {None})
  /\ MapShutdown({})

\* "Event overflow.  Possible infinite loop in script."
EventOverflow ==
  /\ serving # None
  /\ num >= MAX_EVENTSPERFRAME
  /\ MapShutdown({serving})
  /\ UNCHANGED lost

LoadMap ==
  /\ phase = "no map"
  /\ clock' = [g \in Groups |-> 0]
  /\ GoesTo("spawn")
  /\ UNCHANGED <<free, queue, event, serving, group, alive, lost, posts, saved, bound>>

\* idEvent::Save, with the objects and the clocks, between two frames.
Save ==
  /\ phase = "between"
  /\ bound.saves /\ saved = {}                                     \* bound
  /\ saved' = saved \cup
       {[events |-> [g \in Groups |-> [n \in DOMAIN queue[g] |-> event[queue[g][n]]]],
         clock |-> clock, group |-> group, alive |-> alive]}
  /\ UNCHANGED <<free, queue, event, clock, phase, serving, num, group, alive, lost, posts, bound>>

\* A mutated form: each event is put in front.
AddedToFront(nodes) == [n \in DOMAIN nodes |-> nodes[Len(nodes) + 1 - n]]

\* AddToEnd, into an empty list
AddedToEnd(nodes) == nodes

\* InitFromSaveGame: MapShutdown, and idEvent::Restore, which takes a free event
\* for each that was saved, those of the slow queue first.
Load(game) ==
  LET events == game.events["slow"] \o game.events["fast"]
      slow == Len(game.events["slow"])
  IN  /\ phase \in {"between", "no map"}
      /\ \E node \in [DOMAIN events -> EventPool \ lost] :
           /\ \A m, n \in DOMAIN node : node[m] = node[n] => m = n
           /\ free' = (EventPool \ lost) \ In(node)
           /\ queue' = [slow |-> AddedToEnd(SubSeq(node, 1, slow)),
                        fast |-> AddedToEnd(SubSeq(node, slow + 1, Len(events)))]
           /\ event' = [e \in EventPool |->
                IF e \in In(node) THEN events[CHOOSE n \in DOMAIN node : node[n] = e]
                ELSE IF e \in lost THEN event[e] ELSE Blank]
      /\ clock' = game.clock
      /\ group' = game.group
      /\ alive' = game.alive
      /\ GoesTo("between")
      /\ UNCHANGED <<serving, lost, posts, saved, bound>>

\* "No more free events"
LoadFails(game) ==
  /\ phase \in {"between", "no map"}
  /\ Len(game.events["slow"]) + Len(game.events["fast"]) > Cardinality(EventPool \ lost)
  /\ MapShutdown({})
  /\ UNCHANGED lost

-----------------------------------------------------------------------------
Init ==
  /\ free = EventPool
  /\ queue = [g \in Groups |-> <<>>]
  /\ event = [e \in EventPool |-> Blank]
  /\ clock = [g \in Groups |-> 0]
  /\ phase = "spawn"
  /\ serving = None
  /\ num = 0
  /\ group = [o \in Entities |-> "slow"]
  /\ alive = {}
  /\ lost = {}
  /\ posts = 0
  /\ saved = {}
  /\ bound \in Bounds

Game ==
  \/ \E o \in Objects, def \in Defs, delay \in Delays, context \in Groups :
       Post(o, def, delay, context)
  \/ \E o \in Objects, defs \in {Defs} \cup {{d} : d \in Defs} : CancelEvents(o, defs)
  \/ \E o \in Objects, g \in Groups : Spawn(o, g)
  \/ \E o \in Objects : Delete(o)
  \/ \E o \in Entities : Grab(o)
  \/ Error

Next ==
  \/ Game
  \/ StartFrame \/ RunTimeGroup2 \/ StartService \/ Serve \/ Return \/ EndService
  \/ LeaveMap \/ EventOverflow \/ LoadMap \/ Save
  \/ \E game \in saved : Load(game) \/ LoadFails(game)

Spec == Init /\ [][Next]_vars

-----------------------------------------------------------------------------
EventType ==
  [object : Objects \cup {None}, def : Defs \cup {None}, time : Nat,
   stamp : 0 .. posts, due : Nat, crossed : BOOLEAN]

\* The variables stay in their types; the game's code runs only in a map.
TypeOK ==
  /\ free \subseteq EventPool
  /\ lost \subseteq EventPool
  /\ queue \in [Groups -> Seq(EventPool)]
  /\ event \in [EventPool -> EventType]
  /\ clock \in [Groups -> 0 .. bound.time]
  /\ clock["slow"] <= clock["fast"] + (IF phase \in {"think slow", "no map"} THEN Frame ELSE 0)
  /\ phase \in {"spawn", "populate", "between", "think slow", "think fast",
                "serve slow", "serve fast", "no map"}
  /\ serving \in EventPool \cup {None}
  /\ serving # None => Serving
  /\ num \in 0 .. MAX_EVENTSPERFRAME
  /\ group \in [Entities -> Groups]
  /\ alive \subseteq Objects
  /\ bound \in Bounds
  /\ posts \in 0 .. bound.posts

(***************************************************************************)
(* Every event of the pool is in one place: free, in one of the queues, or *)
(* being served; whatever the handler posts, cancels and deletes, its own  *)
(* object too.  Only events whose handler ends in an error are in none,    *)
(* from then on (ClearEventList runs when the game starts, no sooner).     *)
(***************************************************************************)
InHand == {serving} \ {None}
PoolWhole ==
  /\ free \cup Queued \cup InHand = EventPool \ lost
  /\ (free \cap Queued) \cup (free \cap InHand) \cup (Queued \cap InHand) = {}
  /\ Cardinality(Queued) = Len(queue["slow"]) + Len(queue["fast"])

\* Events in their queue are in the order of their times, and those of one time
\* in the order in which they were posted: scripts and targets rely on it.
Sorted ==
  \A g \in Groups : \A m, n \in DOMAIN queue[g] :
    LET a == event[queue[g][m]]
        b == event[queue[g][n]]
    IN  m < n => \/ a.time < b.time
                 \/ a.time = b.time /\ a.stamp < b.stamp

(***************************************************************************)
(* No event waits for an object that is gone ("Cancels any events that     *)
(* depend on this object", Class.cpp:360), were it grabbed, or released,   *)
(* since it was posted.                                                    *)
(***************************************************************************)
OwnersAlive == \A e \in Queued : event[e].object \in alive

(***************************************************************************)
(* An event is served in the first frame in which its delay has passed by  *)
(* the clock of its queue, no earlier and no later, however slow motion    *)
(* comes and goes.  Not so an event for the fast group that code of the    *)
(* slow group posts: its time is that of the other clock (Event.cpp:463).  *)
(***************************************************************************)
OnTime ==
  [][/\ serving = None /\ serving' # None =>
          event[serving'].crossed \/ event[serving'].due <= clock[Served]
     /\ Serving /\ phase' # phase /\ phase' # "no map" =>
          \A e \in In(queue[Served]) : event[e].crossed \/ event[e].due > clock[Served]
    ]_vars

(***************************************************************************)
(* The queues implement the timetable: see there.                          *)
(***************************************************************************)
AsPending(g, e) == [stamp |-> e.stamp, group |-> g, time |-> e.time,
                    object |-> e.object, def |-> e.def]

Timetable == INSTANCE Timetable WITH
  pending <- UNION {{AsPending(g, event[e]) : e \in In(queue[g])} : g \in Groups},
  now <- clock,
  saved <- {[pending |-> UNION {{AsPending(g, e) : e \in In(game.events[g])} : g \in Groups},
             now |-> game.clock] : game \in saved}

ImplementsTimetable == Timetable!Spec
=============================================================================
