-------------------------- MODULE GameEvents_proofs --------------------------
(***************************************************************************)
(* Proofs about GameEvents, for any pool, objects, delays and bounds.  The *)
(* inductive invariant is about the nodes of the queues, the events' data  *)
(* in the order of the lists, and says the same of the queues of the game  *)
(* and of those of a saved game: so Save and Load are steps like others.   *)
(***************************************************************************)
EXTENDS GameEvents, FiniteSetTheorems, FunctionTheorems, SequenceTheorems, WellFoundedInduction, TLAPS

-----------------------------------------------------------------------------
(* Lists out of which something is taken *)

\* The natural numbers are well ordered, which is what an induction over them
\* needs.
LEMMA NatLeast ==
  ASSUME NEW T \in SUBSET Nat, T # {}
  PROVE  \E x \in T : \A y \in T : x <= y
<1>1. IsWellFoundedOn(OpToRel(<, Nat), Nat)
  BY NatLessThanWellFounded
<1>2. PICK x \in T : \A y \in T : ~ (<<y, x>> \in OpToRel(<, Nat))
  BY <1>1, WFMin
<1>3. ASSUME NEW y \in T PROVE x <= y
  <2>1. ~ (<<y, x>> \in {ss \in Nat \X Nat : ss[1] < ss[2]})
    BY <1>2 DEF OpToRel
  <2> QED BY <2>1
<1> QED BY <1>3

\* A function with the places of K for its values, in their order.
Enumerates(f, K) ==
  /\ f \in [1 .. Cardinality(K) -> K]
  /\ In(f) = K
  /\ \A m, n \in DOMAIN f : m < n => f[m] < f[n]

Enumerable(n) == \A K \in SUBSET (1 .. n) : \E f : Enumerates(f, K)

LEMMA EnumerableZero == Enumerable(0)
<1> SUFFICES ASSUME NEW K \in SUBSET (1 .. 0)
             PROVE  \E f : Enumerates(f, K)
  BY DEF Enumerable
<1>0. K = {}
  OBVIOUS
<1>1. K = {} /\ Cardinality(K) = 0
  BY <1>0, FS_EmptySet
<1>2. [i \in 1 .. 0 |-> i] \in [1 .. Cardinality(K) -> K]
  BY <1>1
<1>3. Enumerates([i \in 1 .. 0 |-> i], K)
  BY <1>1, <1>2 DEF Enumerates, In
<1> QED BY <1>3

\* The last place goes behind those before it.
LEMMA EnumerableNext ==
  ASSUME NEW n \in Nat, Enumerable(n)
  PROVE  Enumerable(n + 1)
<1> SUFFICES ASSUME NEW K \in SUBSET (1 .. n + 1)
             PROVE  \E f : Enumerates(f, K)
  BY DEF Enumerable
<1> DEFINE L == K \ {n + 1}
<1>1. L \in SUBSET (1 .. n)
  OBVIOUS
<1>2. PICK f : Enumerates(f, L)
  BY <1>1 DEF Enumerable
<1>3. CASE n + 1 \notin K
  <2>1. L = K
    BY <1>3
  <2> QED BY <1>2, <2>1
<1>4. CASE n + 1 \in K
  <2>1. IsFiniteSet(1 .. n)
    BY FS_Interval
  <2>2. IsFiniteSet(L)
    BY <1>1, <2>1, FS_Subset
  <2>3. Cardinality(L) \in Nat
    BY <2>2, FS_CardinalityType
  <2>4. L \cup {n + 1} = K /\ n + 1 \notin L
    BY <1>4
  <2>5. Cardinality(K) = Cardinality(L) + 1
    BY <2>2, <2>4, FS_AddElement
  <2> DEFINE k == Cardinality(L)
             h == [i \in 1 .. k + 1 |-> IF i = k + 1 THEN n + 1 ELSE f[i]]
  <2>6. f \in [1 .. k -> L] /\ In(f) = L /\ \A i, j \in 1 .. k : i < j => f[i] < f[j]
    BY <1>2 DEF Enumerates
  <2> HIDE DEF k
  <2>7. k \in Nat
    BY <2>3 DEF k
  <2>8. \A i \in 1 .. k : f[i] \in 1 .. n /\ h[i] = f[i]
    <3>1. \A i \in 1 .. k : f[i] \in 1 .. n
      BY <1>1, <2>6
    <3>2. \A i \in 1 .. k : i \in 1 .. k + 1 /\ i # k + 1
      BY <2>7
    <3> QED BY <3>1, <3>2
  <2>9. h[k + 1] = n + 1
    BY <2>7
  <2>10. \A i \in 1 .. k + 1 : i \in 1 .. k \/ i = k + 1
    BY <2>7
  <2>11. DOMAIN h = 1 .. k + 1
    OBVIOUS
  <2> HIDE DEF h
  <2>12. h \in [1 .. k + 1 -> K]
    <3>1. \A i \in 1 .. k + 1 : h[i] \in K
      BY <2>4, <2>6, <2>8, <2>9, <2>10
    <3> QED BY <2>11, <3>1 DEF h
  <2>13. In(h) = K
    <3>1. \A x \in K : \E i \in 1 .. k + 1 : h[i] = x
      <4> TAKE x \in K
      <4>1. CASE x = n + 1
        BY <2>7, <2>9, <4>1
      <4>2. CASE x # n + 1
        <5>1. x \in In(f)
          BY <2>6, <4>2
        <5>2. PICK i \in 1 .. k : f[i] = x
          BY <2>6, <5>1 DEF In
        <5>3. i \in 1 .. k + 1 /\ h[i] = x
          BY <2>7, <2>8, <5>2
        <5> QED BY <5>3
      <4> QED BY <4>1, <4>2
    <3> QED BY <2>11, <2>12, <3>1 DEF In
  <2>14. ASSUME NEW i \in 1 .. k + 1, NEW j \in 1 .. k + 1, i < j
         PROVE  h[i] < h[j]
    <3>1. i \in 1 .. k
      BY <2>7, <2>14
    <3>2. CASE j = k + 1
      BY <2>8, <2>9, <3>1, <3>2
    <3>3. CASE j # k + 1
      BY <2>6, <2>8, <2>10, <2>14, <3>1, <3>3
    <3> QED BY <3>2, <3>3
  <2>15. Enumerates(h, K)
    BY <2>5, <2>11, <2>12, <2>13, <2>14 DEF Enumerates, k
  <2> QED BY <2>15
<1> QED BY <1>3, <1>4

LEMMA AllEnumerable == \A n \in Nat : Enumerable(n)
<1> DEFINE T == {n \in Nat : ~Enumerable(n)}
<1> SUFFICES ASSUME T # {} PROVE FALSE
  OBVIOUS
<1>1. PICK x \in T : \A y \in T : x <= y
  BY NatLeast
<1>2. x \in Nat /\ ~Enumerable(x)
  OBVIOUS
<1>3. x # 0
  BY <1>2, EnumerableZero
<1>4. x - 1 \in Nat /\ ~(x <= x - 1) /\ (x - 1) + 1 = x
  BY <1>2, <1>3
<1>5. x - 1 \notin T
  BY <1>1, <1>4
<1>6. Enumerable(x - 1)
  BY <1>4, <1>5
<1>7. Enumerable((x - 1) + 1)
  BY <1>4, <1>6, EnumerableNext
<1> QED BY <1>2, <1>4, <1>7

LEMMA InOrderFacts ==
  ASSUME NEW n \in Nat, NEW K \in SUBSET (1 .. n)
  PROVE  Enumerates(InOrder(K), K)
<1>1. PICK f : Enumerates(f, K)
  BY AllEnumerable DEF Enumerable
<1>2. f \in [1 .. Cardinality(K) -> K] /\ In(f) = K /\ \A i, j \in DOMAIN f : i < j => f[i] < f[j]
  BY <1>1 DEF Enumerates
<1> QED BY <1>2 DEF Enumerates, InOrder

\* A list after a removal: each of its places had one before, in the same order.
Thinned(r, q, f) ==
  /\ f \in [DOMAIN r -> DOMAIN q]
  /\ \A m, n \in DOMAIN r : m < n => f[m] < f[n]
  /\ \A n \in DOMAIN r : r[n] = q[f[n]]

LEMMA AtPlacesFacts ==
  ASSUME NEW S, NEW q \in Seq(S), NEW K \in SUBSET DOMAIN q
  PROVE  /\ AtPlaces(q, K) \in Seq(S)
         /\ In(AtPlaces(q, K)) = {q[n] : n \in K}
         /\ \E f : Thinned(AtPlaces(q, K), q, f)
<1> DEFINE f == InOrder(K)
           r == [n \in DOMAIN f |-> q[f[n]]]
<1>1. DOMAIN q = 1 .. Len(q) /\ Len(q) \in Nat
  OBVIOUS
<1>2. K \in SUBSET (1 .. Len(q))
  BY <1>1
<1>3. Enumerates(f, K)
  BY <1>1, <1>2, InOrderFacts
<1>4. Cardinality(K) \in Nat
  <2>1. IsFiniteSet(1 .. Len(q))
    BY <1>1, FS_Interval
  <2>2. IsFiniteSet(K)
    BY <1>2, <2>1, FS_Subset
  <2> QED BY <2>2, FS_CardinalityType
<1>5. AtPlaces(q, K) = r
  BY DEF AtPlaces
<1>6. /\ f \in [1 .. Cardinality(K) -> K] /\ In(f) = K
      /\ \A m, n \in DOMAIN f : m < n => f[m] < f[n]
  BY <1>3 DEF Enumerates
<1>7. \A k \in K : k \in DOMAIN q /\ q[k] \in S
  BY <1>1
<1> HIDE DEF f
<1>9. r \in Seq(S)
  <2>1. r \in [1 .. Cardinality(K) -> S]
    BY <1>6, <1>7
  <2> QED BY <1>4, <2>1
<1>10. In(r) = {q[n] : n \in K}
  <2>1. \A n \in DOMAIN f : f[n] \in K /\ r[n] = q[f[n]]
    BY <1>6
  <2>2. \A k \in K : \E n \in DOMAIN f : f[n] = k
    BY <1>6 DEF In
  <2> QED BY <2>1, <2>2 DEF In
<1>11. Thinned(r, q, f)
  BY <1>6, <1>7 DEF Thinned
<1> QED BY <1>5, <1>9, <1>10, <1>11

-----------------------------------------------------------------------------
(* The invariant *)

\* The data of the events of each queue, as they are saved.
Nodes == [g \in Groups |-> [n \in DOMAIN queue[g] |-> event[queue[g][n]]]]

Earlier(a, b) == \/ a.time < b.time
                 \/ a.time = b.time /\ a.stamp < b.stamp

InOrderOfTime(nodes) ==
  \A g \in Groups : \A m, n \in DOMAIN nodes[g] : m < n => Earlier(nodes[g][m], nodes[g][n])

OncePosted(nodes) ==
  \A g, h \in Groups : \A m \in DOMAIN nodes[g], n \in DOMAIN nodes[h] :
    nodes[g][m].stamp = nodes[h][n].stamp => g = h /\ m = n

\* What a waiting event is: of an object that exists, and not crossed unless its
\* time is not the one when it is due.
Sound(a, objects) ==
  /\ a.object \in objects
  /\ a.def \in Defs
  /\ a.crossed \/ a.due = a.time

WellListed(nodes, objects) ==
  /\ InOrderOfTime(nodes)
  /\ OncePosted(nodes)
  /\ \A g \in Groups : \A n \in DOMAIN nodes[g] : Sound(nodes[g][n], objects)

\* Each event of the pool has one place.
Placed ==
  /\ free \cup Queued \cup InHand = EventPool \ lost
  /\ (free \cap Queued) \cup (free \cap InHand) \cup (Queued \cap InHand) = {}

SavedGameOK(game) ==
  /\ game.events \in [Groups -> Seq(EventType)]
  /\ game.clock \in [Groups -> 0 .. bound.time]
  /\ game.clock["slow"] <= game.clock["fast"]
  /\ game.group \in [Entities -> Groups]
  /\ game.alive \subseteq Objects
  /\ WellListed(game.events, game.alive)

SavedGamesOK == \A game \in saved : SavedGameOK(game)

IInv ==
  /\ TypeOK
  /\ Placed
  /\ WellListed(Nodes, alive)
  /\ phase = "no map" => Queued = {}
  /\ phase = "think slow" => clock["fast"] + Frame <= bound.time
  /\ SavedGamesOK

-----------------------------------------------------------------------------
(* Removing from the lists. *)

LEMMA RemovedFacts ==
  ASSUME NEW S, NEW q \in Seq(S), NEW events
  PROVE  /\ Removed(q, events) \in Seq(S)
         /\ In(Removed(q, events)) = In(q) \ events
         /\ \E f : Thinned(Removed(q, events), q, f)
<1> DEFINE K == {n \in DOMAIN q : q[n] \notin events}
<1>1. K \subseteq DOMAIN q
  OBVIOUS
<1>2. /\ AtPlaces(q, K) \in Seq(S)
      /\ In(AtPlaces(q, K)) = {q[n] : n \in K}
      /\ \E f : Thinned(AtPlaces(q, K), q, f)
  BY <1>1, AtPlacesFacts
<1>3. {q[n] : n \in K} = In(q) \ events
  BY DEF In
<1> QED BY <1>2, <1>3 DEF Removed

\* The lists of nodes that are left when some are removed from each.
LEMMA ThinnedListed ==
  ASSUME NEW old, NEW new, NEW objects, NEW objects2,
         WellListed(old, objects),
         \A g \in Groups : DOMAIN old[g] \subseteq Nat /\ DOMAIN new[g] \subseteq Nat,
         \A g \in Groups : \E f : Thinned(new[g], old[g], f),
         \A g \in Groups : \A n \in DOMAIN new[g] :
           new[g][n].object \in objects => new[g][n].object \in objects2
  PROVE  WellListed(new, objects2)
<1>1. PICK F \in [Groups -> UNION {[DOMAIN new[g] -> DOMAIN old[g]] : g \in Groups}] :
        \A g \in Groups : Thinned(new[g], old[g], F[g])
  <2> DEFINE F == [g \in Groups |-> CHOOSE f : Thinned(new[g], old[g], f)]
  <2>1. \A g \in Groups : Thinned(new[g], old[g], F[g])
    OBVIOUS
  <2>2. \A g \in Groups : F[g] \in [DOMAIN new[g] -> DOMAIN old[g]]
    BY <2>1 DEF Thinned
  <2>3. F \in [Groups -> UNION {[DOMAIN new[g] -> DOMAIN old[g]] : g \in Groups}]
    BY <2>2
  <2> QED BY <2>1, <2>3
<1>2. \A g \in Groups : \A n \in DOMAIN new[g] :
        F[g][n] \in DOMAIN old[g] /\ new[g][n] = old[g][F[g][n]]
  BY <1>1 DEF Thinned
<1>3. \A g \in Groups : \A m, n \in DOMAIN new[g] : m < n => F[g][m] < F[g][n]
  BY <1>1 DEF Thinned
<1>4. InOrderOfTime(new)
  BY <1>2, <1>3 DEF InOrderOfTime, WellListed
<1>5. OncePosted(new)
  <2> SUFFICES ASSUME NEW g \in Groups, NEW h \in Groups,
                      NEW m \in DOMAIN new[g], NEW n \in DOMAIN new[h],
                      new[g][m].stamp = new[h][n].stamp
               PROVE  g = h /\ m = n
    BY DEF OncePosted
  <2>1. /\ F[g][m] \in DOMAIN old[g] /\ F[h][n] \in DOMAIN old[h]
        /\ old[g][F[g][m]].stamp = old[h][F[h][n]].stamp
    BY <1>2
  <2>2. g = h /\ F[g][m] = F[h][n]
    BY <2>1 DEF OncePosted, WellListed
  <2>3. ~(F[g][m] < F[g][n]) /\ ~(F[g][n] < F[g][m])
    BY <2>1, <2>2
  <2>4. m \in Nat /\ n \in Nat
    OBVIOUS
  <2>5. ~(m < n) /\ ~(n < m)
    BY <1>3, <2>2, <2>3
  <2> QED BY <2>2, <2>4, <2>5
<1>6. ASSUME NEW g \in Groups, NEW n \in DOMAIN new[g]
      PROVE  Sound(new[g][n], objects2)
  <2>1. Sound(old[g][F[g][n]], objects)
    BY <1>2 DEF WellListed
  <2>2. Sound(new[g][n], objects)
    BY <1>2, <2>1
  <2> QED BY <2>2 DEF Sound
<1> QED BY <1>4, <1>5, <1>6 DEF WellListed

-----------------------------------------------------------------------------
(* Freeing events *)

\* The nodes are the data of the events in the lists.
LEMMA NodesFacts ==
  ASSUME TypeOK
  PROVE  \A g \in Groups :
           /\ queue[g] \in Seq(EventPool)
           /\ Len(queue[g]) \in Nat
           /\ DOMAIN queue[g] = 1 .. Len(queue[g])
           /\ DOMAIN Nodes[g] = DOMAIN queue[g]
           /\ \A n \in DOMAIN queue[g] : /\ queue[g][n] \in EventPool
                                         /\ Nodes[g][n] = event[queue[g][n]]
                                         /\ Nodes[g][n] \in EventType
<1> TAKE g \in Groups
<1>1. queue[g] \in Seq(EventPool) /\ event \in [EventPool -> EventType]
  BY DEF TypeOK
<1>2. DOMAIN queue[g] = 1 .. Len(queue[g]) /\ Len(queue[g]) \in Nat
  BY <1>1
<1>3. \A n \in DOMAIN queue[g] : queue[g][n] \in EventPool
  BY <1>1, <1>2
<1>4. Nodes[g] = [n \in DOMAIN queue[g] |-> event[queue[g][n]]]
  BY DEF Nodes
<1> HIDE DEF EventType
<1>5. \A n \in DOMAIN queue[g] : event[queue[g][n]] \in EventType
  BY <1>1, <1>3
<1> QED BY <1>1, <1>2, <1>3, <1>4, <1>5

\* The counters and their bounds are natural numbers.
LEMMA PostsType ==
  ASSUME TypeOK
  PROVE  bound.posts \in Nat /\ bound.time \in Nat /\ posts \in Nat
<1>1. bound.posts \in Nat /\ bound.time \in Nat
  BY GameEventsAssumption DEF TypeOK
<1>2. posts \in 0 .. bound.posts
  BY DEF TypeOK
<1> QED BY <1>1, <1>2

LEMMA ClocksType ==
  ASSUME TypeOK
  PROVE  /\ DOMAIN clock = Groups
         /\ clock["slow"] \in Nat /\ clock["slow"] <= bound.time
         /\ clock["fast"] \in Nat /\ clock["fast"] <= bound.time
<1>1. clock \in [Groups -> 0 .. bound.time] /\ bound.time \in Nat
  BY PostsType DEF TypeOK
<1>2. clock["slow"] \in 0 .. bound.time /\ clock["fast"] \in 0 .. bound.time
  BY <1>1 DEF Groups
<1> QED BY <1>1, <1>2

LEMMA FreeFacts ==
  ASSUME TypeOK, NEW events, Free(events)
  PROVE  /\ free' = free \cup events
         /\ queue' \in [Groups -> Seq(EventPool)]
         /\ event' \in [EventPool -> EventType]
         /\ \A g \in Groups : In(queue'[g]) = In(queue[g]) \ events
         /\ Queued' = Queued \ events
         /\ \A e \in EventPool \ events : event'[e] = event[e]
         /\ \A g \in Groups : DOMAIN Nodes'[g] \subseteq Nat
         /\ \A g \in Groups : \E f : Thinned(Nodes'[g], Nodes[g], f)
<1>1. /\ free' = free \cup events
      /\ event' = [e \in EventPool |-> IF e \in events THEN Blank ELSE event[e]]
      /\ queue' = [g \in Groups |-> Removed(queue[g], events)]
  BY DEF Free
<1>2. event \in [EventPool -> EventType] /\ posts \in Nat
  BY PostsType DEF TypeOK
<1>3. Blank \in EventType
  BY <1>2 DEF Blank, EventType
<1>4. event' \in [EventPool -> EventType] /\ \A e \in EventPool \ events : event'[e] = event[e]
  <2> HIDE DEF EventType
  <2> QED BY <1>1, <1>2, <1>3
<1>5. \A g \in Groups : /\ queue'[g] = Removed(queue[g], events)
                        /\ queue'[g] \in Seq(EventPool)
                        /\ In(queue'[g]) = In(queue[g]) \ events
                        /\ \E f : Thinned(queue'[g], queue[g], f)
  <2>1. \A g \in Groups : queue[g] \in Seq(EventPool)
    BY NodesFacts
  <2> QED BY <1>1, <2>1, RemovedFacts
<1>6. queue' \in [Groups -> Seq(EventPool)]
  BY <1>1, <1>5
<1>7. Queued' = Queued \ events
  <2>1. "slow" \in Groups /\ "fast" \in Groups
    BY DEF Groups
  <2> QED BY <1>5, <2>1 DEF Queued
<1>8. ASSUME NEW g \in Groups
      PROVE  DOMAIN Nodes'[g] \subseteq Nat /\ \E f : Thinned(Nodes'[g], Nodes[g], f)
  <2>1. PICK f : Thinned(queue'[g], queue[g], f)
    BY <1>5
  <2>2. Nodes'[g] = [n \in DOMAIN queue'[g] |-> event'[queue'[g][n]]]
    BY DEF Nodes
  <2>3. /\ f \in [DOMAIN queue'[g] -> DOMAIN queue[g]]
        /\ \A m, n \in DOMAIN queue'[g] : m < n => f[m] < f[n]
        /\ \A n \in DOMAIN queue'[g] : queue'[g][n] = queue[g][f[n]]
    BY <2>1 DEF Thinned
  <2>4. \A n \in DOMAIN queue'[g] : queue'[g][n] \in EventPool \ events
    <3>1. \A n \in DOMAIN queue'[g] : queue'[g][n] \in In(queue[g]) \ events
      BY <1>5 DEF In
    <3> QED BY <3>1, NodesFacts DEF In
  <2>5. \A n \in DOMAIN queue'[g] : Nodes'[g][n] = event[queue[g][f[n]]]
    BY <1>4, <2>2, <2>3, <2>4
  <2>6. \A n \in DOMAIN queue'[g] : Nodes'[g][n] = Nodes[g][f[n]]
    BY <2>3, <2>5, NodesFacts
  <2>7. DOMAIN Nodes'[g] = DOMAIN queue'[g] /\ DOMAIN Nodes[g] = DOMAIN queue[g]
    BY <2>2, NodesFacts
  <2>8. Thinned(Nodes'[g], Nodes[g], f)
    BY <2>3, <2>6, <2>7 DEF Thinned
  <2>9. DOMAIN queue'[g] \subseteq Nat
    BY <1>5
  <2> QED BY <2>7, <2>8, <2>9
<1> QED BY <1>1, <1>4, <1>5, <1>6, <1>7, <1>8

\* What is left is still well listed, when the objects of what is left remain.
LEMMA FreeListed ==
  ASSUME TypeOK, WellListed(Nodes, alive), NEW events, Free(events), NEW objects,
         \A e \in Queued \ events : event[e].object \in alive => event[e].object \in objects
  PROVE  WellListed(Nodes', objects)
<1>1. \A g \in Groups : DOMAIN Nodes[g] \subseteq Nat /\ DOMAIN Nodes'[g] \subseteq Nat
  BY NodesFacts, FreeFacts
<1>2. ASSUME NEW g \in Groups, NEW n \in DOMAIN Nodes'[g], Nodes'[g][n].object \in alive
      PROVE  Nodes'[g][n].object \in objects
  <2>1. Nodes'[g] = [k \in DOMAIN queue'[g] |-> event'[queue'[g][k]]]
    BY DEF Nodes
  <2>2. n \in DOMAIN queue'[g] /\ Nodes'[g][n] = event'[queue'[g][n]]
    BY <2>1
  <2>3. queue'[g][n] \in In(queue[g]) \ events
    <3>1. In(queue'[g]) = In(queue[g]) \ events
      BY FreeFacts
    <3> QED BY <2>2, <3>1 DEF In
  <2>4. queue'[g][n] \in Queued \ events
    BY <2>3 DEF Queued, Groups
  <2>5. queue'[g][n] \in EventPool \ events
    BY <2>3, NodesFacts DEF In
  <2>6. Nodes'[g][n] = event[queue'[g][n]]
    BY <2>2, <2>5, FreeFacts
  <2> QED BY <1>2, <2>4, <2>6
<1>3. \A g \in Groups : \E f : Thinned(Nodes'[g], Nodes[g], f)
  BY FreeFacts
<1> QED BY <1>1, <1>2, <1>3, ThinnedListed

-----------------------------------------------------------------------------
(* The steps that free events *)

\* The saved game stays as it is, whatever is posted.
LEMMA SavedKeeps ==
  ASSUME IInv, UNCHANGED bound, posts' \in Nat, posts <= posts', NEW game, SavedGameOK(game)
  PROVE  SavedGameOK(game)'
<1>1. /\ game.events \in [Groups -> Seq(EventType)]
      /\ game.clock \in [Groups -> 0 .. bound.time]
      /\ game.clock["slow"] <= game.clock["fast"]
      /\ game.group \in [Entities -> Groups]
      /\ game.alive \subseteq Objects
      /\ WellListed(game.events, game.alive)
  BY DEF SavedGameOK
<1>2. EventType \subseteq EventType'
  <2>1. posts \in Nat /\ posts' \in Nat /\ posts <= posts'
    BY PostsType DEF IInv
  <2>2. 0 .. posts \subseteq 0 .. posts'
    BY <2>1
  <2> QED BY <2>2 DEF EventType
<1>3. game.events \in [Groups -> Seq(EventType')]
  <2> DEFINE ev == game.events
  <2>1. \A g \in Groups : ev[g] \in Seq(EventType')
    BY <1>1, <1>2, SeqMonotonic
  <2>2. ev \in [Groups -> Seq(EventType)]
    BY <1>1
  <2> HIDE DEF ev, EventType
  <2>3. ev \in [Groups -> Seq(EventType')]
    BY <2>1, <2>2
  <2> QED BY <2>3 DEF ev
<1> QED BY <1>1, <1>3 DEF SavedGameOK

LEMMA SavedStays ==
  ASSUME IInv, UNCHANGED <<saved, bound, posts>>
  PROVE  SavedGamesOK'
<1>1. posts \in Nat
  BY PostsType DEF IInv
<1>2. posts' \in Nat /\ posts <= posts'
  BY <1>1
<1>3. ASSUME NEW game \in saved PROVE SavedGameOK(game)'
  BY <1>2, SavedKeeps DEF IInv, SavedGamesOK
<1> QED BY <1>3 DEF SavedGamesOK

\* The places of the events after events that wait are freed.
LEMMA FreePlaced ==
  ASSUME TypeOK, Placed, NEW events, Free(events), UNCHANGED <<serving, lost>>,
         events \subseteq Queued
  PROVE  Placed'
<1>1. free' = free \cup events /\ Queued' = Queued \ events
  BY FreeFacts
<1>2. InHand' = InHand
  BY DEF InHand
<1>3. /\ free \cup Queued \cup InHand = EventPool \ lost
      /\ (free \cap Queued) \cup (free \cap InHand) \cup (Queued \cap InHand) = {}
  BY DEF Placed
<1> HIDE DEF Queued, InHand
<1> QED BY <1>1, <1>2, <1>3 DEF Placed

LEMMA QueuedInPool == ASSUME TypeOK PROVE Queued \subseteq EventPool
<1>1. "slow" \in Groups /\ "fast" \in Groups
  BY DEF Groups
<1> QED BY <1>1, NodesFacts DEF Queued, In

LEMMA FreeTypes ==
  ASSUME TypeOK, NEW events, events \subseteq EventPool, Free(events), UNCHANGED posts
  PROVE  /\ free' \subseteq EventPool
         /\ queue' \in [Groups -> Seq(EventPool)]
         /\ event' \in [EventPool -> EventType']
<1>1. free' = free \cup events /\ queue' \in [Groups -> Seq(EventPool)]
  BY FreeFacts
<1>2. free \subseteq EventPool
  BY DEF TypeOK
<1>3. event' \in [EventPool -> EventType] /\ EventType' = EventType
  BY FreeFacts DEF EventType
<1> HIDE DEF EventType
<1> QED BY <1>1, <1>2, <1>3

LEMMA CancelEventsStep ==
  ASSUME IInv, NEW o \in Objects, NEW defs, CancelEvents(o, defs)
  PROVE  IInv'
<1> DEFINE events == EventsOf(o, defs)
<1>1. /\ Running /\ Free(events)
      /\ UNCHANGED <<clock, phase, serving, num, group, alive, lost, posts, saved, bound>>
  BY DEF CancelEvents
<1>2. events \subseteq Queued
  BY DEF EventsOf
<1>3. TypeOK /\ Placed /\ WellListed(Nodes, alive)
  BY DEF IInv
<1> HIDE DEF events
<1>4. TypeOK'
  <2>1. /\ free' \subseteq EventPool
        /\ queue' \in [Groups -> Seq(EventPool)]
        /\ event' \in [EventPool -> EventType']
    BY <1>1, <1>2, <1>3, FreeTypes, QueuedInPool
  <2> HIDE DEF EventType
  <2> QED BY <1>1, <1>3, <2>1 DEF TypeOK, Serving
<1>5. Placed'
  BY <1>1, <1>2, <1>3, FreePlaced
<1>6. WellListed(Nodes', alive')
  BY <1>1, <1>3, FreeListed
<1>7. Queued' \subseteq Queued
  BY <1>1, <1>3, FreeFacts
<1>8. SavedGamesOK'
  BY <1>1, SavedStays
<1> QED BY <1>1, <1>4, <1>5, <1>6, <1>7, <1>8 DEF IInv

\* Every event of the object is cancelled: events that wait have a definition.
LEMMA DeleteStep ==
  ASSUME IInv, NEW o \in Objects, Delete(o)
  PROVE  IInv'
<1> DEFINE events == EventsOf(o, Defs)
<1>1. /\ Running /\ Free(events) /\ alive' = alive \ {o}
      /\ UNCHANGED <<clock, phase, serving, num, group, lost, posts, saved, bound>>
  BY DEF Delete
<1>2. events \subseteq Queued
  BY DEF EventsOf
<1>3. TypeOK /\ Placed /\ WellListed(Nodes, alive)
  BY DEF IInv
<1>4. ASSUME NEW e \in Queued \ events, event[e].object \in alive
      PROVE  event[e].object \in alive'
  <2>1. event[e].def \in Defs
    <3>1. PICK g \in Groups : e \in In(queue[g])
      BY DEF Queued, Groups
    <3>2. PICK n \in DOMAIN queue[g] : queue[g][n] = e
      BY <3>1 DEF In
    <3>3. n \in DOMAIN Nodes[g] /\ Nodes[g][n] = event[e]
      BY <1>3, <3>2, NodesFacts
    <3> QED BY <1>3, <3>3 DEF WellListed, Sound
  <2>2. event[e].object # o
    BY <2>1 DEF EventsOf
  <2> QED BY <1>1, <1>4, <2>2
<1> HIDE DEF events
<1>5. TypeOK'
  <2>1. /\ free' \subseteq EventPool
        /\ queue' \in [Groups -> Seq(EventPool)]
        /\ event' \in [EventPool -> EventType']
    BY <1>1, <1>2, <1>3, FreeTypes, QueuedInPool
  <2> HIDE DEF EventType
  <2> QED BY <1>1, <1>3, <2>1 DEF TypeOK, Serving
<1>6. Placed'
  BY <1>1, <1>2, <1>3, FreePlaced
<1>7. WellListed(Nodes', alive')
  BY <1>1, <1>3, <1>4, FreeListed
<1>8. Queued' \subseteq Queued
  BY <1>1, <1>3, FreeFacts
<1>9. SavedGamesOK'
  BY <1>1, SavedStays
<1> QED BY <1>1, <1>5, <1>6, <1>7, <1>8, <1>9 DEF IInv

\* The event that was served is in no list: freeing it leaves them as they are.
LEMMA ReturnStep ==
  ASSUME IInv, Return
  PROVE  IInv'
<1>1. /\ serving # None /\ num < MAX_EVENTSPERFRAME
      /\ Free({serving}) /\ serving' = None /\ num' = num + 1
      /\ UNCHANGED <<clock, phase, group, alive, lost, posts, saved, bound>>
  BY DEF Return
<1>2. TypeOK /\ Placed /\ WellListed(Nodes, alive)
  BY DEF IInv
<1>3. serving \in EventPool /\ {serving} \subseteq EventPool
  BY <1>1, <1>2 DEF TypeOK
<1>4. TypeOK'
  <2>1. /\ free' \subseteq EventPool
        /\ queue' \in [Groups -> Seq(EventPool)]
        /\ event' \in [EventPool -> EventType']
    BY <1>1, <1>2, <1>3, FreeTypes
  <2>2. num' \in 0 .. MAX_EVENTSPERFRAME
    <3>1. num \in 0 .. MAX_EVENTSPERFRAME /\ MAX_EVENTSPERFRAME \in Nat
      BY <1>2, GameEventsAssumption DEF TypeOK
    <3> QED BY <1>1, <3>1
  <2> HIDE DEF EventType
  <2> QED BY <1>1, <1>2, <2>1, <2>2 DEF TypeOK
<1>5. Placed'
  <2>1. free' = free \cup {serving} /\ Queued' = Queued \ {serving}
    BY <1>1, <1>2, FreeFacts
  <2>2. InHand = {serving} /\ InHand' = {}
    BY <1>1 DEF InHand
  <2>3. /\ free \cup Queued \cup InHand = EventPool \ lost
        /\ (free \cap Queued) \cup (free \cap InHand) \cup (Queued \cap InHand) = {}
    BY <1>2 DEF Placed
  <2> HIDE DEF Queued, InHand
  <2> QED BY <1>1, <2>1, <2>2, <2>3 DEF Placed
<1>6. WellListed(Nodes', alive')
  BY <1>1, <1>2, FreeListed
<1>7. Queued' \subseteq Queued
  BY <1>1, <1>2, FreeFacts
<1>8. SavedGamesOK'
  BY <1>1, SavedStays
<1> QED BY <1>1, <1>4, <1>5, <1>6, <1>7, <1>8 DEF IInv

\* Without nodes there is nothing to be in order.
LEMMA EmptyListed ==
  ASSUME TypeOK', Queued' = {}, NEW objects
  PROVE  WellListed(Nodes', objects)
<1>1. \A g \in Groups : DOMAIN queue'[g] = {}
  <2>1. \A g \in Groups : In(queue'[g]) = {}
    BY DEF Queued, Groups
  <2> QED BY <2>1 DEF In
<1>2. \A g \in Groups : Nodes'[g] = [n \in DOMAIN queue'[g] |-> event'[queue'[g][n]]]
  BY DEF Nodes
<1>3. \A g \in Groups : DOMAIN Nodes'[g] = {}
  BY <1>1, <1>2
<1> QED BY <1>3 DEF WellListed, InOrderOfTime, OncePosted

\* MapShutdown, from a place where the clocks are not more than a frame apart;
\* an event whose handler does not return is lost or freed.
LEMMA MapShutdownStep ==
  ASSUME IInv, NEW events, events \subseteq InHand, MapShutdown(events),
         lost' = lost \cup (InHand \ events)
  PROVE  IInv'
<1>1. /\ Free(Queued \cup events) /\ alive' = {} /\ serving' = None
      /\ phase' = "no map" /\ num' = 0
      /\ UNCHANGED <<clock, group, posts, saved, bound>>
  BY DEF MapShutdown, GoesTo
<1>2. TypeOK /\ Placed
  BY DEF IInv
<1>3. InHand \subseteq EventPool
  BY <1>2 DEF TypeOK, InHand
<1>4. Queued \cup events \subseteq EventPool
  BY <1>2, <1>3, QueuedInPool
<1>5. Queued' = {}
  <2>1. Queued' = Queued \ (Queued \cup events)
    BY <1>1, <1>2, FreeFacts
  <2> HIDE DEF Queued
  <2> QED BY <2>1
<1>6. TypeOK'
  <2>1. /\ free' \subseteq EventPool
        /\ queue' \in [Groups -> Seq(EventPool)]
        /\ event' \in [EventPool -> EventType']
    BY <1>1, <1>2, <1>4, FreeTypes
  <2>2. lost' \subseteq EventPool
    BY <1>2, <1>3 DEF TypeOK
  <2>3. /\ clock' \in [Groups -> 0 .. bound'.time]
        /\ clock'["slow"] <= clock'["fast"] + Frame
    <3> DEFINE slow == clock["slow"]
               fast == clock["fast"]
    <3>1. slow <= fast + (IF phase \in {"think slow", "no map"} THEN Frame ELSE 0)
      BY <1>2 DEF TypeOK
    <3>2. slow \in Nat /\ fast \in Nat
      BY <1>2, ClocksType
    <3> HIDE DEF slow, fast
    <3>3. slow <= fast + Frame
      <4>1. slow <= fast + Frame \/ slow <= fast + 0
        BY <3>1
      <4>2. fast + 0 <= fast + Frame
        BY <3>2 DEF Frame
      <4> QED BY <3>2, <4>1, <4>2 DEF Frame
    <3> QED BY <1>1, <1>2, <3>3 DEF TypeOK, slow, fast
  <2>4. num' \in 0 .. MAX_EVENTSPERFRAME
    <3>1. MAX_EVENTSPERFRAME \in Nat /\ num' = 0
      BY <1>1, GameEventsAssumption
    <3> QED BY <3>1
  <2> HIDE DEF EventType
  <2> QED BY <1>1, <1>2, <2>1, <2>2, <2>3, <2>4 DEF TypeOK
<1>7. Placed'
  <2>1. free' = free \cup (Queued \cup events)
    BY <1>1, <1>2, FreeFacts
  <2>2. InHand' = {}
    BY <1>1 DEF InHand
  <2>3. /\ free \cup Queued \cup InHand = EventPool \ lost
        /\ (free \cap Queued) \cup (free \cap InHand) \cup (Queued \cap InHand) = {}
    BY <1>2 DEF Placed
  <2> HIDE DEF Queued, InHand
  <2> QED BY <1>5, <2>1, <2>2, <2>3 DEF Placed
<1>8. WellListed(Nodes', alive')
  BY <1>5, <1>6, EmptyListed
<1>9. SavedGamesOK'
  BY <1>1, SavedStays
<1> QED BY <1>1, <1>5, <1>6, <1>7, <1>8, <1>9 DEF IInv

LEMMA LeavesStep ==
  ASSUME IInv,
         LeaveMap \/ Error \/ EventOverflow \/ \E game \in saved : LoadFails(game)
  PROVE  IInv'
<1>1. serving # None => Serving
  BY DEF IInv, TypeOK
<1>2. CASE LeaveMap
  <2>1. MapShutdown({}) /\ lost' = lost /\ InHand = {}
    BY <1>1, <1>2 DEF LeaveMap, Serving, InHand
  <2> QED BY <2>1, MapShutdownStep
<1>3. CASE Error
  <2>1. MapShutdown({}) /\ lost' = lost \cup (InHand \ {})
    BY <1>3 DEF Error, InHand
  <2> QED BY <2>1, MapShutdownStep
<1>4. CASE EventOverflow
  <2>1. MapShutdown({serving}) /\ lost' = lost /\ InHand = {serving}
    BY <1>4 DEF EventOverflow, InHand
  <2> QED BY <2>1, MapShutdownStep
<1>5. CASE \E game \in saved : LoadFails(game)
  <2>1. MapShutdown({}) /\ lost' = lost /\ InHand = {}
    BY <1>1, <1>5 DEF LoadFails, Serving, InHand
  <2> QED BY <2>1, MapShutdownStep
<1> QED BY <1>2, <1>3, <1>4, <1>5

-----------------------------------------------------------------------------
(* The steps that leave the lists alone *)

LEMMA ListsKept ==
  ASSUME IInv, UNCHANGED <<free, queue, event, serving, lost>>
  PROVE  /\ Placed'
         /\ Queued' = Queued
         /\ Nodes' = Nodes
  BY DEF IInv, Placed, Queued, InHand, Nodes

LEMMA MoreObjects ==
  ASSUME NEW nodes, NEW objects, NEW more, objects \subseteq more,
         WellListed(nodes, objects)
  PROVE  WellListed(nodes, more)
  BY DEF WellListed, Sound

LEMMA SpawnStep ==
  ASSUME IInv, NEW o \in Objects, NEW g \in Groups, Spawn(o, g)
  PROVE  IInv'
<1>1. /\ Running /\ alive' = alive \cup {o}
      /\ group' = IF o \in Entities THEN [group EXCEPT ![o] = g] ELSE group
      /\ UNCHANGED <<free, queue, event, clock, phase, serving, num, lost, posts, saved, bound>>
  BY DEF Spawn
<1>2. TypeOK /\ WellListed(Nodes, alive)
  BY DEF IInv
<1>3. TypeOK'
  <2>1. EventType' = EventType
    BY <1>1 DEF EventType
  <2>2. group' \in [Entities -> Groups]
    BY <1>1, <1>2 DEF TypeOK
  <2> HIDE DEF EventType
  <2> QED BY <1>1, <1>2, <2>1, <2>2 DEF TypeOK, Serving
<1>4. WellListed(Nodes', alive')
  BY <1>1, <1>2, ListsKept, MoreObjects
<1>5. SavedGamesOK'
  BY <1>1, SavedStays
<1> QED BY <1>1, <1>3, <1>4, <1>5, ListsKept DEF IInv

LEMMA GrabStep ==
  ASSUME IInv, NEW o \in Entities, Grab(o)
  PROVE  IInv'
<1>1. /\ group' = [group EXCEPT ![o] = IF @ = "slow" THEN "fast" ELSE "slow"]
      /\ UNCHANGED <<free, queue, event, clock, phase, serving, num, alive, lost, posts, saved, bound>>
  BY DEF Grab
<1>2. TypeOK /\ WellListed(Nodes, alive)
  BY DEF IInv
<1>3. TypeOK'
  <2>1. EventType' = EventType
    BY <1>1 DEF EventType
  <2>2. group' \in [Entities -> Groups]
    BY <1>1, <1>2 DEF TypeOK, Groups
  <2> HIDE DEF EventType
  <2> QED BY <1>1, <1>2, <2>1, <2>2 DEF TypeOK, Serving
<1>4. SavedGamesOK'
  BY <1>1, SavedStays
<1> QED BY <1>1, <1>2, <1>3, <1>4, ListsKept DEF IInv

\* Steps of the frame and of the loading of a map: only clocks and the phase.
LEMMA FrameSteps ==
  ASSUME IInv, StartFrame \/ RunTimeGroup2 \/ StartService \/ EndService \/ LoadMap
  PROVE  IInv'
<1>1. /\ UNCHANGED <<free, queue, event, serving, group, alive, lost, posts, saved, bound>>
      /\ num' = 0
  BY DEF StartFrame, RunTimeGroup2, StartService, EndService, LoadMap, GoesTo
<1>2. TypeOK /\ WellListed(Nodes, alive)
  BY DEF IInv
<1> DEFINE slow == clock["slow"]
           fast == clock["fast"]
<1>3. /\ bound.time \in Nat /\ slow \in Nat /\ fast \in Nat
      /\ slow <= bound.time /\ fast <= bound.time
      /\ clock \in [Groups -> 0 .. bound.time]
  BY <1>2, PostsType, ClocksType DEF TypeOK
<1>4. serving # None => Serving
  BY <1>2 DEF TypeOK
<1>5. /\ slow <= fast + (IF phase \in {"think slow", "no map"} THEN Frame ELSE 0)
      /\ phase = "think slow" => fast + Frame <= bound.time
  BY <1>2 DEF TypeOK, IInv
<1>6. /\ clock' \in [Groups -> 0 .. bound.time]
      /\ clock'["slow"] <= clock'["fast"] + (IF phase' \in {"think slow", "no map"} THEN Frame ELSE 0)
      /\ phase' \in {"spawn", "populate", "between", "think slow", "think fast",
                     "serve slow", "serve fast"}
      /\ serving' # None => Serving'
      /\ phase' = "think slow" => clock'["fast"] + Frame <= bound'.time
  <2>1. CASE StartFrame
    <3>0. SlowMotion = 1 .. 2
      BY DEF SlowMotion
    <3>1. PICK ms \in 1 .. 2 : clock' = [clock EXCEPT !["slow"] = @ + ms]
      BY <2>1, <3>0 DEF StartFrame
    <3>2. phase = "between" /\ fast + Frame <= bound.time /\ phase' = "think slow" /\ serving = None
      BY <1>4, <2>1 DEF StartFrame, GoesTo, Serving
    <3>3. clock'["slow"] = slow + ms /\ clock'["fast"] = fast
      BY <1>3, <3>1 DEF Groups
    <3>4. slow + ms \in 0 .. bound.time /\ slow + ms <= fast + Frame
      <4>1. slow <= fast
        <5>1. slow <= fast + 0
          BY <1>5, <3>2
        <5> HIDE DEF slow, fast
        <5> QED BY <1>3, <5>1
      <4> HIDE DEF slow, fast
      <4> DEFINE b == bound.time
      <4>2. b \in Nat /\ slow \in Nat /\ fast \in Nat /\ fast + 2 <= b /\ slow <= fast
        BY <1>3, <3>2, <4>1 DEF Frame
      <4> HIDE DEF b
      <4>3. slow + ms \in 0 .. b /\ slow + ms <= fast + 2
        BY <4>2
      <4> QED BY <4>3 DEF Frame, b
    <3> HIDE DEF slow, fast
    <3>5. clock' \in [Groups -> 0 .. bound.time]
      BY <1>3, <3>1, <3>3, <3>4
    <3> QED BY <1>1, <3>2, <3>3, <3>4, <3>5
  <2>2. CASE RunTimeGroup2
    <3>1. phase = "think slow" /\ clock' = [clock EXCEPT !["fast"] = @ + Frame] /\ phase' = "think fast"
      BY <2>2 DEF RunTimeGroup2, Incremented, GoesTo
    <3>2. serving = None
      BY <1>4, <3>1 DEF Serving
    <3>3. clock'["slow"] = slow /\ clock'["fast"] = fast + Frame
      BY <1>3, <3>1 DEF Groups
    <3>4. slow <= fast + Frame /\ fast + Frame <= bound.time
      BY <1>5, <3>1
    <3> HIDE DEF slow, fast
    <3>5. fast + Frame \in 0 .. bound.time
      BY <1>3, <3>4 DEF Frame
    <3>6. clock' \in [Groups -> 0 .. bound.time]
      BY <1>3, <3>1, <3>3, <3>5
    <3>7. clock'["slow"] <= clock'["fast"] + 0
      BY <1>3, <3>3, <3>4 DEF Frame
    <3> QED BY <1>1, <3>1, <3>2, <3>6, <3>7
  <2>3. CASE StartService
    <3>1. clock' = clock /\ phase \in {"spawn", "think fast"} /\ phase' \in {"populate", "serve slow"}
      BY <2>3 DEF StartService, GoesTo
    <3>2. serving = None
      BY <1>4, <3>1 DEF Serving
    <3> QED BY <1>1, <1>3, <1>5, <3>1, <3>2
  <2>4. CASE EndService
    <3>1. clock' = clock /\ Serving /\ serving = None /\ phase' \in {"serve fast", "between"}
      BY <2>4 DEF EndService, GoesTo
    <3> QED BY <1>1, <1>3, <1>5, <3>1 DEF Serving
  <2>5. CASE LoadMap
    <3>1. phase = "no map" /\ clock' = [g \in Groups |-> 0] /\ phase' = "spawn"
      BY <2>5 DEF LoadMap, GoesTo
    <3>2. serving = None
      BY <1>4, <3>1 DEF Serving
    <3>3. clock' \in [Groups -> 0 .. bound.time] /\ clock'["slow"] = 0 /\ clock'["fast"] = 0
      <4>1. 0 \in 0 .. bound.time
        BY <1>3
      <4> QED BY <3>1, <4>1 DEF Groups
    <3>4. clock'["slow"] <= clock'["fast"] + 0
      BY <3>3
    <3> QED BY <1>1, <3>1, <3>2, <3>3, <3>4
  <2> QED BY <2>1, <2>2, <2>3, <2>4, <2>5
<1>7. TypeOK'
  <2>1. EventType' = EventType
    BY <1>1 DEF EventType
  <2>2. num' \in 0 .. MAX_EVENTSPERFRAME
    BY <1>1, GameEventsAssumption
  <2> HIDE DEF EventType
  <2> QED BY <1>1, <1>2, <1>6, <2>1, <2>2 DEF TypeOK
<1>8. SavedGamesOK'
  BY <1>1, SavedStays
<1> QED BY <1>1, <1>2, <1>6, <1>7, <1>8, ListsKept DEF IInv

-----------------------------------------------------------------------------
(* Serving an event *)

\* An event is in one place of one list.
LEMMA Distinct ==
  ASSUME TypeOK, WellListed(Nodes, alive),
         NEW g \in Groups, NEW h \in Groups,
         NEW m \in DOMAIN queue[g], NEW n \in DOMAIN queue[h], queue[g][m] = queue[h][n]
  PROVE  g = h /\ m = n
<1>1. /\ m \in DOMAIN Nodes[g] /\ n \in DOMAIN Nodes[h]
      /\ Nodes[g][m].stamp = Nodes[h][n].stamp
  BY NodesFacts
<1> QED BY <1>1 DEF WellListed, OncePosted

LEMMA ServedFacts ==
  ASSUME TypeOK, Serve
  PROVE  /\ Served \in Groups
         /\ queue[Served] # <<>>
         /\ serving' = queue[Served][1] /\ 1 \in DOMAIN queue[Served]
         /\ queue' \in [Groups -> Seq(EventPool)]
         /\ \A g \in Groups : g # Served => queue'[g] = queue[g]
         /\ Len(queue'[Served]) = Len(queue[Served]) - 1
         /\ \A n \in DOMAIN queue'[Served] : /\ n + 1 \in DOMAIN queue[Served]
                                             /\ queue'[Served][n] = queue[Served][n + 1]
<1> DEFINE q == queue[Served]
<1>1. Served \in Groups
  BY DEF Served, Groups
<1>2. q \in Seq(EventPool) /\ q # <<>>
  BY <1>1, NodesFacts DEF Serve, Due
<1>3. serving' = Head(q) /\ queue' = [queue EXCEPT ![Served] = Tail(q)]
  BY DEF Serve, Unlinked
<1>4. queue \in [Groups -> Seq(EventPool)]
  BY DEF TypeOK
<1> HIDE DEF q
<1>5. Head(q) = q[1] /\ 1 \in DOMAIN q /\ Len(q) \in Nat
  BY <1>2
<1>6. /\ Tail(q) \in Seq(EventPool) /\ Len(Tail(q)) = Len(q) - 1
      /\ \A i \in 1 .. Len(Tail(q)) : Tail(q)[i] = q[i + 1]
  BY <1>2, HeadTailProperties
<1>7. \A n \in DOMAIN Tail(q) : n + 1 \in DOMAIN q /\ Tail(q)[n] = q[n + 1]
  <2>1. DOMAIN Tail(q) = 1 .. Len(q) - 1 /\ DOMAIN q = 1 .. Len(q)
    BY <1>2, <1>6
  <2> QED BY <1>5, <1>6, <2>1
<1>8. queue'[Served] = Tail(q) /\ \A g \in Groups : g # Served => queue'[g] = queue[g]
  BY <1>1, <1>3, <1>4
<1> QED BY <1>1, <1>2, <1>3, <1>4, <1>5, <1>6, <1>7, <1>8 DEF q

LEMMA ServeQueued ==
  ASSUME TypeOK, WellListed(Nodes, alive), Serve
  PROVE  serving' \in Queued /\ Queued' = Queued \ {serving'}
<1>1. serving' \in In(queue[Served])
  BY ServedFacts DEF In
<1>2. \A g \in Groups : In(queue'[g]) = In(queue[g]) \ {serving'}
  <2> TAKE g \in Groups
  <2>1. CASE g # Served
    <3>1. serving' \notin In(queue[g])
      BY <2>1, ServedFacts, Distinct DEF In
    <3> QED BY <2>1, <3>1, ServedFacts
  <2>2. CASE g = Served
    <3> DEFINE q == queue[Served]
               r == queue'[Served]
    <3>1. /\ q \in Seq(EventPool) /\ r \in Seq(EventPool) /\ Len(r) = Len(q) - 1
          /\ \A n \in DOMAIN r : n + 1 \in DOMAIN q /\ r[n] = q[n + 1]
          /\ serving' = q[1] /\ 1 \in DOMAIN q
      BY ServedFacts, NodesFacts
    <3>2. \A m, n \in DOMAIN q : q[m] = q[n] => m = n
      BY ServedFacts, Distinct
    <3> HIDE DEF q, r
    <3>3. DOMAIN q = 1 .. Len(q) /\ DOMAIN r = 1 .. Len(q) - 1 /\ Len(q) \in Nat
      BY <3>1
    <3>4. \A n \in DOMAIN r : r[n] \in In(q) /\ r[n] # serving'
      <4> TAKE n \in DOMAIN r
      <4>1. n + 1 # 1
        BY <3>3
      <4> QED BY <3>1, <3>2, <4>1 DEF In
    <3>5. \A n \in DOMAIN q : q[n] # serving' => \E i \in DOMAIN r : r[i] = q[n]
      <4> SUFFICES ASSUME NEW n \in DOMAIN q, q[n] # serving'
                   PROVE  \E i \in DOMAIN r : r[i] = q[n]
        OBVIOUS
      <4>1. n # 1
        BY <3>1
      <4>2. n - 1 \in DOMAIN r /\ (n - 1) + 1 = n
        BY <3>3, <4>1
      <4>3. r[n - 1] = q[n]
        BY <3>1, <4>2
      <4> QED BY <4>2, <4>3
    <3>6. In(r) = In(q) \ {serving'}
      BY <3>4, <3>5 DEF In
    <3> QED BY <2>2, <3>6 DEF q, r
  <2> QED BY <2>1, <2>2
<1>3. "slow" \in Groups /\ "fast" \in Groups /\ Served \in {"slow", "fast"}
  BY DEF Groups, Served
<1>4. Queued' = Queued \ {serving'}
  BY <1>2, <1>3 DEF Queued
<1> QED BY <1>1, <1>3, <1>4 DEF Queued

LEMMA ServeStep ==
  ASSUME IInv, Serve
  PROVE  IInv'
<1>1. /\ Serving /\ serving = None
      /\ UNCHANGED <<free, event, clock, phase, num, group, alive, lost, posts, saved, bound>>
  BY DEF Serve
<1>2. TypeOK /\ Placed /\ WellListed(Nodes, alive)
  BY DEF IInv
<1>3. TypeOK'
  <2>1. EventType' = EventType
    BY <1>1 DEF EventType
  <2>2. queue' \in [Groups -> Seq(EventPool)]
    BY <1>2, ServedFacts
  <2>3. serving' \in EventPool
    BY <1>2, ServeQueued, QueuedInPool
  <2> HIDE DEF EventType
  <2> QED BY <1>1, <1>2, <2>1, <2>2, <2>3 DEF TypeOK, Serving
<1>4. Placed'
  <2>1. serving' \in Queued /\ Queued' = Queued \ {serving'}
    BY <1>2, ServeQueued
  <2>2. serving' \in EventPool
    BY <1>2, <2>1, QueuedInPool
  <2>3. InHand = {} /\ InHand' = {serving'}
    BY <1>1, <2>2, GameEventsAssumption DEF InHand
  <2>4. /\ free \cup Queued \cup InHand = EventPool \ lost
        /\ (free \cap Queued) \cup (free \cap InHand) \cup (Queued \cap InHand) = {}
    BY <1>2 DEF Placed
  <2> HIDE DEF Queued, InHand
  <2> QED BY <1>1, <2>1, <2>3, <2>4 DEF Placed
<1>5. WellListed(Nodes', alive')
  <2>1. ASSUME NEW g \in Groups
        PROVE  /\ DOMAIN Nodes[g] \subseteq Nat /\ DOMAIN Nodes'[g] \subseteq Nat
               /\ \E f : Thinned(Nodes'[g], Nodes[g], f)
    <3>1. Nodes'[g] = [n \in DOMAIN queue'[g] |-> event[queue'[g][n]]]
      BY <1>1 DEF Nodes
    <3>2. DOMAIN Nodes[g] = DOMAIN queue[g] /\ DOMAIN queue[g] \subseteq Nat
      BY <1>2, NodesFacts
    <3>3. queue'[g] \in Seq(EventPool)
      BY <1>2, ServedFacts
    <3>4. DOMAIN Nodes'[g] = DOMAIN queue'[g] /\ DOMAIN queue'[g] \subseteq Nat
      BY <3>1, <3>3
    <3>5. CASE g # Served
      <4>1. queue'[g] = queue[g]
        BY <1>2, <3>5, ServedFacts
      <4>2. Thinned(Nodes'[g], Nodes[g], [n \in DOMAIN queue[g] |-> n])
        <5>1. \A n \in DOMAIN queue[g] : Nodes'[g][n] = Nodes[g][n]
          BY <1>2, <3>1, <4>1, NodesFacts
        <5> QED BY <3>2, <3>4, <4>1, <5>1 DEF Thinned
      <4> QED BY <3>2, <3>4, <4>2
    <3>6. CASE g = Served
      <4> DEFINE f == [n \in DOMAIN queue'[g] |-> n + 1]
      <4>1. \A n \in DOMAIN queue'[g] : /\ n + 1 \in DOMAIN queue[g]
                                        /\ queue'[g][n] = queue[g][n + 1]
        BY <1>2, <3>6, ServedFacts
      <4>2. \A n \in DOMAIN queue'[g] : Nodes'[g][n] = Nodes[g][n + 1]
        BY <1>2, <3>1, <4>1, NodesFacts
      <4>3. Thinned(Nodes'[g], Nodes[g], f)
        BY <3>2, <3>4, <4>1, <4>2 DEF Thinned
      <4> QED BY <3>2, <3>4, <4>3
    <3> QED BY <3>5, <3>6
  <2> QED BY <1>1, <1>2, <2>1, ThinnedListed
<1>6. Queued' \subseteq Queued
  BY <1>2, ServeQueued
<1>7. SavedGamesOK'
  BY <1>1, SavedStays
<1> QED BY <1>1, <1>3, <1>4, <1>5, <1>6, <1>7 DEF IInv

-----------------------------------------------------------------------------
(* Posting an event *)

\* r is q with e put in before the place at.
PutIn(r, q, e, at) ==
  /\ at \in 1 .. Len(q) + 1
  /\ Len(r) = Len(q) + 1
  /\ \A n \in 1 .. Len(q) + 1 : r[n] = IF n < at THEN q[n] ELSE IF n = at THEN e ELSE q[n - 1]

LEMMA PutInFacts ==
  ASSUME NEW S, NEW q \in Seq(S), NEW e \in S, NEW at \in 1 .. Len(q) + 1
  PROVE  LET r == SubSeq(q, 1, at - 1) \o <<e>> \o SubSeq(q, at, Len(q))
         IN  r \in Seq(S) /\ PutIn(r, q, e, at)
<1> DEFINE l == Len(q)
           a == SubSeq(q, 1, at - 1)
           b == SubSeq(q, at, l)
           c == a \o <<e>>
           r == c \o b
<1>1. l \in Nat /\ at \in Nat /\ at >= 1 /\ at <= l + 1 /\ \A i \in 1 .. l : q[i] \in S
  OBVIOUS
<1> HIDE DEF l
<1>2. a \in Seq(S) /\ Len(a) = at - 1 /\ \A i \in 1 .. at - 1 : a[i] = q[i]
  <2>1. \A i \in 1 .. at - 1 : q[i] \in S
    BY <1>1
  <2>2. /\ a \in Seq(S) /\ Len(a) = IF 1 <= at - 1 THEN at - 1 - 1 + 1 ELSE 0
        /\ \A i \in 1 .. at - 1 - 1 + 1 : a[i] = q[1 + i - 1]
    BY <1>1, <2>1, SubSeqProperties
  <2> QED BY <1>1, <2>2
<1>3. b \in Seq(S) /\ Len(b) = l - at + 1 /\ \A i \in 1 .. l - at + 1 : b[i] = q[at + i - 1]
  <2>1. \A i \in at .. l : q[i] \in S
    BY <1>1
  <2>2. /\ b \in Seq(S) /\ Len(b) = IF at <= l THEN l - at + 1 ELSE 0
        /\ \A i \in 1 .. l - at + 1 : b[i] = q[at + i - 1]
    BY <1>1, <2>1, SubSeqProperties
  <2> QED BY <1>1, <2>2
<1> HIDE DEF a, b
<1>4. /\ c \in Seq(S) /\ Len(c) = at
      /\ \A i \in 1 .. at : c[i] = IF i <= at - 1 THEN a[i] ELSE e
  <2>1. <<e>> \in Seq(S) /\ Len(<<e>>) = 1 /\ <<e>>[1] = e
    OBVIOUS
  <2>2. /\ c \in Seq(S) /\ Len(c) = Len(a) + Len(<<e>>)
        /\ \A i \in 1 .. Len(a) + Len(<<e>>) :
             c[i] = IF i <= Len(a) THEN a[i] ELSE <<e>>[i - Len(a)]
    BY <1>2, <2>1, ConcatProperties
  <2>3. \A i \in 1 .. at : ~(i <= at - 1) => i - (at - 1) = 1
    BY <1>1
  <2> QED BY <1>1, <1>2, <2>1, <2>2, <2>3
<1> HIDE DEF c
<1>5. /\ r \in Seq(S) /\ Len(r) = l + 1
      /\ \A i \in 1 .. l + 1 : r[i] = IF i <= at THEN c[i] ELSE b[i - at]
  <2>1. /\ r \in Seq(S) /\ Len(r) = Len(c) + Len(b)
        /\ \A i \in 1 .. Len(c) + Len(b) : r[i] = IF i <= Len(c) THEN c[i] ELSE b[i - Len(c)]
    BY <1>3, <1>4, ConcatProperties
  <2>2. Len(c) + Len(b) = l + 1
    BY <1>1, <1>3, <1>4
  <2> QED BY <1>4, <2>1, <2>2
<1> HIDE DEF r
<1>6. ASSUME NEW n \in 1 .. l + 1
      PROVE  r[n] = IF n < at THEN q[n] ELSE IF n = at THEN e ELSE q[n - 1]
  <2>1. CASE n < at
    <3>1. n \in 1 .. at - 1 /\ n \in 1 .. at /\ n <= at - 1 /\ n <= at
      BY <1>1, <2>1
    <3> QED BY <1>2, <1>4, <1>5, <2>1, <3>1
  <2>2. CASE n = at
    <3>1. n \in 1 .. at /\ ~(n <= at - 1) /\ n <= at /\ ~(n < at)
      BY <1>1, <2>2
    <3> QED BY <1>4, <1>5, <2>2, <3>1
  <2>3. CASE n > at
    <3>1. n - at \in 1 .. l - at + 1 /\ at + (n - at) - 1 = n - 1 /\ ~(n <= at)
      BY <1>1, <2>3
    <3>2. r[n] = q[n - 1]
      BY <1>3, <1>5, <3>1
    <3> QED BY <1>1, <2>3, <3>2
  <2> QED BY <1>1, <2>1, <2>2, <2>3
<1> QED BY <1>5, <1>6 DEF PutIn, r, c, a, b, l

\* The place of an event is behind those due no later and before the others.
LEMMA InsertedFacts ==
  ASSUME NEW S, NEW q \in Seq(S), NEW e \in S, NEW time \in Int,
         \A n \in DOMAIN q : event[q[n]].time \in Int,
         \A m, n \in DOMAIN q : m < n => event[q[m]].time <= event[q[n]].time
  PROVE  /\ Inserted(q, e, time) \in Seq(S)
         /\ \E at : /\ PutIn(Inserted(q, e, time), q, e, at)
                    /\ \A n \in DOMAIN q : n < at => event[q[n]].time <= time
                    /\ \A n \in DOMAIN q : n >= at => time < event[q[n]].time
<1> DEFINE later == {n \in DOMAIN q : time < event[q[n]].time}
           at == IF later = {} THEN Len(q) + 1
                 ELSE CHOOSE n \in later : \A m \in later : n <= m
<1>1. DOMAIN q = 1 .. Len(q) /\ Len(q) \in Nat
  OBVIOUS
<1>2. /\ at \in 1 .. Len(q) + 1
      /\ \A n \in DOMAIN q : n < at => event[q[n]].time <= time
      /\ \A n \in DOMAIN q : n >= at => time < event[q[n]].time
  <2>1. CASE later = {}
    <3>1. at = Len(q) + 1
      BY <2>1
    <3>2. \A n \in DOMAIN q : ~(time < event[q[n]].time)
      BY <2>1
    <3>3. \A n \in DOMAIN q : ~(n >= at)
      BY <1>1, <3>1
    <3>4. \A n \in DOMAIN q : event[q[n]].time <= time
      BY <3>2
    <3> QED BY <1>1, <3>1, <3>3, <3>4
  <2>2. CASE later # {}
    <3>1. later \in SUBSET Nat
      BY <1>1
    <3>2. \E n \in later : \A m \in later : n <= m
      BY <2>2, <3>1, NatLeast
    <3>3. at \in later /\ \A m \in later : at <= m
      BY <2>2, <3>2
    <3> HIDE DEF at
    <3>4. at \in DOMAIN q /\ time < event[q[at]].time
      BY <3>3
    <3>5. \A n \in DOMAIN q : n < at => event[q[n]].time <= time
      <4> SUFFICES ASSUME NEW n \in DOMAIN q, n < at, ~(event[q[n]].time <= time)
                   PROVE  FALSE
        OBVIOUS
      <4>1. time < event[q[n]].time
        OBVIOUS
      <4>2. at <= n
        BY <3>3, <4>1
      <4> QED BY <1>1, <3>4, <4>2
    <3>6. \A n \in DOMAIN q : n >= at => time < event[q[n]].time
      <4> SUFFICES ASSUME NEW n \in DOMAIN q, n >= at
                   PROVE  time < event[q[n]].time
        OBVIOUS
      <4>1. n = at \/ at < n
        BY <1>1, <3>4
      <4>2. at < n => event[q[at]].time <= event[q[n]].time
        BY <3>4
      <4>3. event[q[at]].time \in Int /\ event[q[n]].time \in Int
        BY <3>4
      <4> QED BY <3>4, <4>1, <4>2, <4>3
    <3> QED BY <1>1, <3>4, <3>5, <3>6
  <2> QED BY <2>1, <2>2
<1>3. Inserted(q, e, time) = SubSeq(q, 1, at - 1) \o <<e>> \o SubSeq(q, at, Len(q))
  BY DEF Inserted
<1> HIDE DEF at
<1>4. Inserted(q, e, time) \in Seq(S) /\ PutIn(Inserted(q, e, time), q, e, at)
  BY <1>2, <1>3, PutInFacts
<1> QED BY <1>2, <1>4

\* The node a, with a new stamp, is put in before the place at of the list l,
\* of len nodes, where its time belongs.
NodePutIn(old, new, l, a, at, len) ==
  /\ l \in Groups /\ len \in Nat /\ at \in 1 .. len + 1
  /\ \A g \in Groups : g # l => new[g] = old[g]
  /\ \A g \in Groups : DOMAIN old[g] \subseteq Nat
  /\ DOMAIN old[l] = 1 .. len /\ DOMAIN new[l] = 1 .. len + 1
  /\ \A n \in 1 .. len + 1 :
       new[l][n] = IF n < at THEN old[l][n] ELSE IF n = at THEN a ELSE old[l][n - 1]
  /\ a.time \in Int /\ a.stamp \in Int
  /\ \A g \in Groups : \A n \in DOMAIN old[g] :
       old[g][n].stamp \in Int /\ old[g][n].stamp < a.stamp /\ old[g][n].time \in Int
  /\ \A n \in 1 .. len : n < at => old[l][n].time <= a.time
  /\ \A n \in 1 .. len : n >= at => a.time < old[l][n].time

LEMMA PutInListed ==
  ASSUME NEW old, NEW new, NEW objects, WellListed(old, objects),
         NEW l, NEW a, NEW at, NEW len, NodePutIn(old, new, l, a, at, len),
         Sound(a, objects)
  PROVE  WellListed(new, objects)
<1> USE DEF NodePutIn
<1>1. \A n \in 1 .. len + 1 :
        \/ n < at /\ n \in 1 .. len /\ new[l][n] = old[l][n]
        \/ n = at /\ new[l][n] = a
        \/ n > at /\ n - 1 \in 1 .. len /\ n - 1 >= at /\ new[l][n] = old[l][n - 1]
  <2> TAKE n \in 1 .. len + 1
  <2>1. new[l][n] = IF n < at THEN old[l][n] ELSE IF n = at THEN a ELSE old[l][n - 1]
    OBVIOUS
  <2>2. CASE n < at
    <3>1. n \in 1 .. len
      BY <2>2
    <3> QED BY <2>1, <2>2, <3>1
  <2>3. CASE n = at
    <3>1. ~(n < at)
      BY <2>3
    <3> QED BY <2>1, <2>3, <3>1
  <2>4. CASE n > at
    <3>1. n - 1 \in 1 .. len /\ n - 1 >= at /\ ~(n < at) /\ n # at
      BY <2>4
    <3> QED BY <2>1, <2>4, <3>1
  <2> QED BY <2>2, <2>3, <2>4
<1>2. \A m, n \in 1 .. len : m < n => Earlier(old[l][m], old[l][n])
  BY DEF WellListed, InOrderOfTime
<1>3. InOrderOfTime(new)
  <2> SUFFICES ASSUME NEW g \in Groups, NEW m \in DOMAIN new[g], NEW n \in DOMAIN new[g], m < n
               PROVE  Earlier(new[g][m], new[g][n])
    BY DEF InOrderOfTime
  <2>1. CASE g # l
    BY <2>1 DEF WellListed, InOrderOfTime
  <2>2. CASE g = l
    <3>1. m \in 1 .. len + 1 /\ n \in 1 .. len + 1
      BY <2>2
    <3>2. \/ m < at /\ m \in 1 .. len /\ new[l][m] = old[l][m]
          \/ m = at /\ new[l][m] = a
          \/ m > at /\ m - 1 \in 1 .. len /\ m - 1 >= at /\ new[l][m] = old[l][m - 1]
      BY <1>1, <3>1
    <3>3. \/ n < at /\ n \in 1 .. len /\ new[l][n] = old[l][n]
          \/ n = at /\ new[l][n] = a
          \/ n > at /\ n - 1 \in 1 .. len /\ n - 1 >= at /\ new[l][n] = old[l][n - 1]
      BY <1>1, <3>1
    <3>4. CASE n < at
      <4>1. m < at
        BY <3>1, <3>4
      <4> QED BY <1>2, <2>2, <3>2, <3>3, <3>4, <4>1
    <3>5. CASE n = at
      <4>1. m \in 1 .. len /\ new[l][m] = old[l][m]
        BY <3>1, <3>2, <3>5
      <4>2. old[l][m].time <= a.time /\ old[l][m].stamp < a.stamp /\ old[l][m].time \in Int
        BY <3>5, <4>1
      <4>3. new[l][n] = a
        BY <3>1, <3>3, <3>5
      <4> QED BY <2>2, <4>1, <4>2, <4>3 DEF Earlier
    <3>6. CASE n > at
      <4>1. n - 1 \in 1 .. len /\ n - 1 >= at /\ new[l][n] = old[l][n - 1]
        BY <3>1, <3>3, <3>6
      <4>2. CASE m < at
        <5>1. m \in 1 .. len /\ new[l][m] = old[l][m] /\ m < n - 1
          BY <3>1, <3>2, <4>1, <4>2
        <5> QED BY <1>2, <2>2, <4>1, <5>1
      <4>3. CASE m = at
        <5>1. new[l][m] = a /\ a.time < old[l][n - 1].time
          BY <3>1, <3>2, <4>1, <4>3
        <5> QED BY <2>2, <4>1, <5>1 DEF Earlier
      <4>4. CASE m > at
        <5>1. m - 1 \in 1 .. len /\ new[l][m] = old[l][m - 1] /\ m - 1 < n - 1
          BY <3>1, <3>2, <4>4
        <5> QED BY <1>2, <2>2, <4>1, <5>1
      <4> QED BY <3>1, <4>2, <4>3, <4>4
    <3> QED BY <3>1, <3>4, <3>5, <3>6
  <2> QED BY <2>1, <2>2
\* Where a node of the new lists was in the old ones.
<1> DEFINE Was(g, n) == IF g = l /\ n > at THEN n - 1 ELSE n
<1>4. ASSUME NEW g \in Groups, NEW n \in DOMAIN new[g], ~(g = l /\ n = at)
      PROVE  /\ Was(g, n) \in DOMAIN old[g]
             /\ new[g][n] = old[g][Was(g, n)]
  <2>1. CASE g # l
    BY <2>1
  <2>2. CASE g = l
    <3>1. n \in 1 .. len + 1 /\ n # at
      BY <1>4, <2>2
    <3>2. CASE n < at
      <4>1. Was(g, n) = n
        BY <3>1, <3>2
      <4> QED BY <1>1, <2>2, <3>1, <3>2, <4>1
    <3>3. CASE n > at
      <4>1. Was(g, n) = n - 1
        BY <2>2, <3>3
      <4> QED BY <1>1, <2>2, <3>1, <3>3, <4>1
    <3> QED BY <3>1, <3>2, <3>3
  <2> QED BY <2>1, <2>2
<1>5. new[l][at] = a
  BY <1>1
<1>6. OncePosted(new)
  <2> SUFFICES ASSUME NEW g \in Groups, NEW h \in Groups,
                      NEW m \in DOMAIN new[g], NEW n \in DOMAIN new[h],
                      new[g][m].stamp = new[h][n].stamp
               PROVE  g = h /\ m = n
    BY DEF OncePosted
  <2>1. CASE ~(g = l /\ m = at) /\ ~(h = l /\ n = at)
    <3>1. /\ Was(g, m) \in DOMAIN old[g] /\ Was(h, n) \in DOMAIN old[h]
          /\ old[g][Was(g, m)].stamp = old[h][Was(h, n)].stamp
      BY <1>4, <2>1
    <3>2. g = h /\ Was(g, m) = Was(h, n)
      <4> HIDE DEF Was
      <4> QED BY <3>1 DEF WellListed, OncePosted
    <3>3. m \in Nat /\ n \in Nat
      <4>1. \A k \in 1 .. len + 1 : k \in Nat
        OBVIOUS
      <4> QED BY <4>1
    <3>4. CASE g # l
      BY <3>2, <3>4
    <3>5. CASE g = l
      <4>1. m # at /\ n # at
        BY <2>1, <3>2, <3>5
      <4> QED BY <3>2, <3>3, <3>5, <4>1
    <3> QED BY <3>4, <3>5
  <2>2. CASE g = l /\ m = at /\ ~(h = l /\ n = at)
    <3>1. Was(h, n) \in DOMAIN old[h] /\ a.stamp = old[h][Was(h, n)].stamp
      BY <1>4, <1>5, <2>2
    <3> HIDE DEF Was
    <3>2. a.stamp < a.stamp
      BY <3>1
    <3> QED BY <3>2
  <2>3. CASE h = l /\ n = at /\ ~(g = l /\ m = at)
    <3>1. Was(g, m) \in DOMAIN old[g] /\ a.stamp = old[g][Was(g, m)].stamp
      BY <1>4, <1>5, <2>3
    <3> HIDE DEF Was
    <3>2. a.stamp < a.stamp
      BY <3>1
    <3> QED BY <3>2
  <2> QED BY <2>1, <2>2, <2>3
<1>7. ASSUME NEW g \in Groups, NEW n \in DOMAIN new[g]
      PROVE  Sound(new[g][n], objects)
  <2>1. CASE g = l /\ n = at
    BY <1>5, <2>1
  <2>2. CASE ~(g = l /\ n = at)
    <3>1. Was(g, n) \in DOMAIN old[g] /\ new[g][n] = old[g][Was(g, n)]
      BY <1>4, <2>2
    <3> HIDE DEF Was
    <3> QED BY <3>1 DEF WellListed
  <2> QED BY <2>1, <2>2
<1> QED BY <1>3, <1>6, <1>7 DEF WellListed

\* The record of an event that is posted.
Posted(o, def, delay, context) ==
  LET g == QueueOf(o)
  IN  [object |-> o, def |-> def, time |-> TimeFor(g, context) + delay, stamp |-> posts + 1,
       due |-> clock[g] + delay, crossed |-> g = "fast" /\ context = "slow"]

LEMMA PostedFacts ==
  ASSUME IInv, NEW o \in Objects, NEW def \in Defs, NEW delay \in Delays,
         NEW context \in Groups, o \in alive, posts' = posts + 1
  PROVE  /\ Posted(o, def, delay, context) \in EventType'
         /\ Posted(o, def, delay, context).stamp = posts + 1
         /\ Posted(o, def, delay, context).time = TimeFor(QueueOf(o), context) + delay
         /\ Posted(o, def, delay, context).time \in Nat
         /\ Sound(Posted(o, def, delay, context), alive)
<1> DEFINE g == QueueOf(o)
           a == Posted(o, def, delay, context)
<1>1. TypeOK
  BY DEF IInv
<1>2. clock["slow"] \in Nat /\ clock["fast"] \in Nat /\ posts \in Nat /\ delay \in Nat
  BY <1>1, ClocksType, PostsType, GameEventsAssumption
<1>3. g \in {"slow", "fast"} /\ context \in {"slow", "fast"}
  BY DEF QueueOf, Groups
<1>4. clock[g] \in Nat /\ TimeFor(g, context) \in Nat
  BY <1>2, <1>3 DEF TimeFor
<1>5. TimeFor(g, context) = clock[g] \/ (g = "fast" /\ context = "slow")
  BY <1>3 DEF TimeFor
<1> HIDE DEF g
<1>6. a = [object |-> o, def |-> def, time |-> TimeFor(g, context) + delay, stamp |-> posts + 1,
           due |-> clock[g] + delay, crossed |-> g = "fast" /\ context = "slow"]
  BY DEF Posted, g
<1>7. posts + 1 \in 0 .. posts' /\ TimeFor(g, context) + delay \in Nat /\ clock[g] + delay \in Nat
  BY <1>2, <1>4
<1>8. (g = "fast" /\ context = "slow") \in BOOLEAN
  OBVIOUS
<1>9. a \in EventType'
  BY <1>6, <1>7, <1>8 DEF EventType
<1>10. /\ a.object = o /\ a.def = def /\ a.time = TimeFor(g, context) + delay
       /\ a.stamp = posts + 1 /\ a.due = clock[g] + delay
       /\ a.crossed = (g = "fast" /\ context = "slow")
  BY <1>6
<1> HIDE DEF a
<1>11. Sound(a, alive)
  BY <1>5, <1>10 DEF Sound
<1> QED BY <1>7, <1>9, <1>10, <1>11 DEF g, a

\* A free event is in no list.
LEMMA FreeNotQueued ==
  ASSUME TypeOK, Placed, NEW e \in free
  PROVE  /\ e \in EventPool
         /\ \A g \in Groups : \A n \in DOMAIN queue[g] : queue[g][n] # e
<1>1. e \in EventPool /\ e \notin Queued
  BY DEF TypeOK, Placed
<1> QED BY <1>1 DEF Queued, Groups, In

LEMMA EventTimes ==
  ASSUME TypeOK, NEW g \in Groups, NEW n \in DOMAIN queue[g]
  PROVE  /\ event[queue[g][n]].time \in Nat
         /\ event[queue[g][n]].stamp \in Nat
         /\ event[queue[g][n]].stamp <= posts
<1>1. event[queue[g][n]] \in EventType
  BY NodesFacts
<1>2. event[queue[g][n]].time \in Nat /\ event[queue[g][n]].stamp \in 0 .. posts
  BY <1>1 DEF EventType
<1>3. posts \in Nat
  BY PostsType
<1> QED BY <1>2, <1>3

\* What posting does to the lists: the event is in, at its place.
LEMMA PostFacts ==
  ASSUME IInv, NEW o \in Objects, NEW def \in Defs, NEW delay \in Delays,
         NEW context \in Groups, Post(o, def, delay, context)
  PROVE  \E e \in free, at \in Nat :
           LET g == QueueOf(o)
               a == Posted(o, def, delay, context)
           IN  /\ g \in Groups
               /\ free' = free \ {e}
               /\ event' = [event EXCEPT ![e] = a]
               /\ queue' \in [Groups -> Seq(EventPool)]
               /\ \A h \in Groups : h # g => queue'[h] = queue[h]
               /\ PutIn(queue'[g], queue[g], e, at)
               /\ \A n \in DOMAIN queue[g] : n < at => event[queue[g][n]].time <= a.time
               /\ \A n \in DOMAIN queue[g] : n >= at => a.time < event[queue[g][n]].time
<1> DEFINE g == QueueOf(o)
           a == Posted(o, def, delay, context)
<1>1. TypeOK /\ Placed /\ WellListed(Nodes, alive)
  BY DEF IInv
<1>2. PICK e \in free :
        /\ free' = free \ {e}
        /\ event' = [event EXCEPT ![e] = a]
        /\ queue' = [queue EXCEPT ![g] = Inserted(@, e, TimeFor(g, context) + delay)]
  BY DEF Post, Posted
<1>3. g \in Groups
  BY DEF QueueOf, Groups
<1>4. o \in alive /\ posts' = posts + 1
  BY DEF Post
<1>5. a.time = TimeFor(g, context) + delay /\ a.time \in Nat
  BY <1>4, PostedFacts
<1> HIDE DEF g, a
<1>6. queue' = [queue EXCEPT ![g] = Inserted(@, e, a.time)]
  BY <1>2, <1>5
<1> DEFINE q == queue[g]
<1>7. q \in Seq(EventPool) /\ e \in EventPool /\ a.time \in Int
  BY <1>1, <1>3, <1>5, NodesFacts, FreeNotQueued
<1>8. \A n \in DOMAIN q : event[q[n]].time \in Int /\ event[q[n]].stamp \in Int
  BY <1>1, <1>3, EventTimes
<1>9. \A m, n \in DOMAIN q : m < n => event[q[m]].time <= event[q[n]].time
  <2> SUFFICES ASSUME NEW m \in DOMAIN q, NEW n \in DOMAIN q, m < n
               PROVE  event[q[m]].time <= event[q[n]].time
    OBVIOUS
  <2>1. Earlier(event[q[m]], event[q[n]])
    <3>1. /\ m \in DOMAIN Nodes[g] /\ n \in DOMAIN Nodes[g]
          /\ Nodes[g][m] = event[q[m]] /\ Nodes[g][n] = event[q[n]]
      BY <1>1, <1>3, NodesFacts
    <3> QED BY <1>1, <1>3, <3>1 DEF WellListed, InOrderOfTime
  <2> QED BY <1>8, <2>1 DEF Earlier
<1> HIDE DEF q
<1>10. Inserted(q, e, a.time) \in Seq(EventPool)
  BY <1>7, <1>8, <1>9, InsertedFacts
<1>11. PICK at : /\ PutIn(Inserted(q, e, a.time), q, e, at)
                 /\ \A n \in DOMAIN q : n < at => event[q[n]].time <= a.time
                 /\ \A n \in DOMAIN q : n >= at => a.time < event[q[n]].time
  BY <1>7, <1>8, <1>9, InsertedFacts
<1>12. at \in Nat
  <2>1. at \in 1 .. Len(q) + 1 /\ Len(q) \in Nat
    BY <1>7, <1>11 DEF PutIn
  <2> QED BY <2>1
<1>13. /\ queue'[g] = Inserted(q, e, a.time)
       /\ \A h \in Groups : h # g => queue'[h] = queue[h]
       /\ queue' \in [Groups -> Seq(EventPool)]
  BY <1>1, <1>3, <1>6, <1>10 DEF TypeOK, q
<1> QED BY <1>2, <1>3, <1>11, <1>12, <1>13 DEF g, a, q

LEMMA PutInAdds ==
  ASSUME NEW S, NEW q \in Seq(S), NEW r \in Seq(S), NEW e, NEW at, PutIn(r, q, e, at)
  PROVE  In(r) = In(q) \cup {e}
<1> DEFINE len == Len(q)
<1>1. DOMAIN q = 1 .. len /\ len \in Nat /\ at \in 1 .. len + 1 /\ DOMAIN r = 1 .. len + 1
  BY DEF PutIn
<1>2. \A n \in 1 .. len + 1 : r[n] = IF n < at THEN q[n] ELSE IF n = at THEN e ELSE q[n - 1]
  BY DEF PutIn
<1> HIDE DEF len
<1>3. r[at] = e
  <2>1. ~(at < at)
    BY <1>1
  <2> QED BY <1>1, <1>2, <2>1
<1>4. \A n \in 1 .. len + 1 : r[n] \in In(q) \cup {e}
  <2> TAKE n \in 1 .. len + 1
  <2>1. n < at => n \in 1 .. len
    BY <1>1
  <2>2. ~(n < at) /\ n # at => n - 1 \in 1 .. len
    BY <1>1
  <2> QED BY <1>1, <1>2, <2>1, <2>2 DEF In
<1>5. \A n \in 1 .. len : \E k \in 1 .. len + 1 : r[k] = q[n]
  <2> TAKE n \in 1 .. len
  <2>1. CASE n < at
    <3>1. n \in 1 .. len + 1 /\ r[n] = q[n]
      BY <1>1, <1>2, <2>1
    <3> QED BY <3>1
  <2>2. CASE ~(n < at)
    <3>1. n + 1 \in 1 .. len + 1 /\ ~(n + 1 < at) /\ n + 1 # at /\ (n + 1) - 1 = n
      BY <1>1, <2>2
    <3>2. r[n + 1] = q[n]
      BY <1>2, <3>1
    <3> QED BY <3>1, <3>2
  <2> QED BY <2>1, <2>2
<1> QED BY ZenonT(60), <1>1, <1>3, <1>4, <1>5 DEF In

LEMMA PostStep ==
  ASSUME IInv, NEW o \in Objects, NEW def \in Defs, NEW delay \in Delays,
         NEW context \in Groups, Post(o, def, delay, context)
  PROVE  IInv'
<1> DEFINE g == QueueOf(o)
           a == Posted(o, def, delay, context)
           q == queue[g]
           r == queue'[g]
           len == Len(queue[g])
<1>1. TypeOK /\ Placed /\ WellListed(Nodes, alive)
  BY DEF IInv
<1>2. /\ Running /\ o \in alive /\ posts < bound.posts /\ posts' = posts + 1
      /\ UNCHANGED <<clock, phase, serving, num, group, alive, lost, saved, bound>>
  BY DEF Post
<1>3. PICK e \in free, at \in Nat :
        /\ g \in Groups
        /\ free' = free \ {e}
        /\ event' = [event EXCEPT ![e] = a]
        /\ queue' \in [Groups -> Seq(EventPool)]
        /\ \A h \in Groups : h # g => queue'[h] = queue[h]
        /\ PutIn(r, q, e, at)
        /\ \A n \in DOMAIN q : n < at => event[q[n]].time <= a.time
        /\ \A n \in DOMAIN q : n >= at => a.time < event[q[n]].time
  BY PostFacts
<1>4. /\ a \in EventType' /\ a.stamp = posts + 1 /\ a.time \in Nat /\ Sound(a, alive)
  BY <1>2, PostedFacts
<1>5. posts \in Nat /\ bound.posts \in Nat
  BY <1>1, PostsType
<1>6. q \in Seq(EventPool) /\ r \in Seq(EventPool) /\ DOMAIN q = 1 .. len /\ len \in Nat
  BY <1>1, <1>3, NodesFacts
<1>7. /\ e \in EventPool
      /\ \A h \in Groups : \A n \in DOMAIN queue[h] : queue[h][n] # e
  BY <1>1, FreeNotQueued
<1> HIDE DEF g, a
<1>8. /\ at \in 1 .. len + 1 /\ DOMAIN r = 1 .. len + 1
      /\ \A n \in 1 .. len + 1 : r[n] = IF n < at THEN q[n] ELSE IF n = at THEN e ELSE q[n - 1]
  BY <1>3, <1>6 DEF PutIn
<1>9. event'[e] = a /\ \A d \in EventPool \ {e} : event'[d] = event[d]
  BY <1>1, <1>3, <1>7 DEF TypeOK
<1>10. TypeOK'
  <2>1. EventType \subseteq EventType'
    <3>1. 0 .. posts \subseteq 0 .. posts'
      BY <1>2, <1>5
    <3> QED BY <3>1 DEF EventType
  <2>2. event' \in [EventPool -> EventType']
    <3>1. event \in [EventPool -> EventType]
      BY <1>1 DEF TypeOK
    <3> HIDE DEF EventType
    <3> QED BY <1>3, <1>4, <2>1, <3>1
  <2>3. posts' \in 0 .. bound'.posts
    BY <1>2, <1>5
  <2> HIDE DEF EventType
  <2> QED BY <1>1, <1>2, <1>3, <2>2, <2>3 DEF TypeOK, Serving
<1>11. Queued' = Queued \cup {e}
  <2>1. In(r) = In(q) \cup {e}
    BY <1>3, <1>6, PutInAdds
  <2>2. \A h \in Groups : h # g => In(queue'[h]) = In(queue[h])
    BY <1>3
  <2>3. "slow" \in Groups /\ "fast" \in Groups /\ \A h \in Groups : h = "slow" \/ h = "fast"
    BY DEF Groups
  <2> QED BY <1>3, <2>1, <2>2, <2>3 DEF Queued
<1>12. Placed'
  <2>1. InHand' = InHand
    BY <1>2 DEF InHand
  <2>2. /\ free \cup Queued \cup InHand = EventPool \ lost
        /\ (free \cap Queued) \cup (free \cap InHand) \cup (Queued \cap InHand) = {}
    BY <1>1 DEF Placed
  <2> HIDE DEF Queued, InHand
  <2> QED BY <1>2, <1>3, <1>11, <2>1, <2>2 DEF Placed
<1>13. \A h \in Groups : h # g => Nodes'[h] = Nodes[h]
  <2> SUFFICES ASSUME NEW h \in Groups, h # g PROVE Nodes'[h] = Nodes[h]
    OBVIOUS
  <2>1. Nodes'[h] = [n \in DOMAIN queue[h] |-> event'[queue[h][n]]]
    BY <1>3 DEF Nodes
  <2>2. \A n \in DOMAIN queue[h] : event'[queue[h][n]] = event[queue[h][n]]
    BY <1>1, <1>7, <1>9, NodesFacts
  <2> QED BY <2>1, <2>2 DEF Nodes
<1>14. /\ DOMAIN Nodes'[g] = 1 .. len + 1
       /\ \A n \in 1 .. len + 1 :
            Nodes'[g][n] = IF n < at THEN Nodes[g][n] ELSE IF n = at THEN a ELSE Nodes[g][n - 1]
  <2>1. Nodes'[g] = [n \in DOMAIN r |-> event'[r[n]]]
    BY <1>3 DEF Nodes
  <2>2. \A n \in 1 .. len : event'[q[n]] = Nodes[g][n]
    BY <1>1, <1>3, <1>6, <1>7, <1>9, NodesFacts
  <2>3. ASSUME NEW n \in 1 .. len + 1
        PROVE  event'[r[n]] = IF n < at THEN Nodes[g][n] ELSE IF n = at THEN a ELSE Nodes[g][n - 1]
    <3>1. CASE n < at
      <4>1. n \in 1 .. len
        BY <1>6, <1>8, <3>1
      <4> QED BY <1>8, <2>2, <3>1, <4>1
    <3>2. CASE n = at
      <4>1. ~(n < at)
        BY <1>8, <3>2
      <4> QED BY <1>8, <1>9, <3>2, <4>1
    <3>3. CASE ~(n < at) /\ n # at
      <4>1. n - 1 \in 1 .. len
        BY <1>6, <1>8, <3>3
      <4> QED BY <1>8, <2>2, <3>3, <4>1
    <3> QED BY <3>1, <3>2, <3>3
  <2> QED BY <1>8, <2>1, <2>3
<1>15. WellListed(Nodes', alive')
  <2> DEFINE old == Nodes
             new == Nodes'
  <2>1. \A h \in Groups : DOMAIN old[h] \subseteq Nat
    BY <1>1, NodesFacts
  <2>2. DOMAIN old[g] = 1 .. len
    BY <1>1, <1>3, <1>6, NodesFacts
  <2>3. \A h \in Groups : \A n \in DOMAIN old[h] :
          old[h][n].stamp \in Int /\ old[h][n].stamp < a.stamp /\ old[h][n].time \in Int
    <3> SUFFICES ASSUME NEW h \in Groups, NEW n \in DOMAIN queue[h]
                 PROVE  /\ event[queue[h][n]].stamp \in Int
                        /\ event[queue[h][n]].stamp < a.stamp
                        /\ event[queue[h][n]].time \in Int
      BY <1>1, NodesFacts
    <3>1. /\ event[queue[h][n]].time \in Nat /\ event[queue[h][n]].stamp \in Nat
          /\ event[queue[h][n]].stamp <= posts
      BY <1>1, EventTimes
    <3> QED BY <1>4, <1>5, <3>1
  <2>4. /\ \A n \in 1 .. len : n < at => old[g][n].time <= a.time
        /\ \A n \in 1 .. len : n >= at => a.time < old[g][n].time
    BY ZenonT(60), <1>1, <1>3, <1>6, NodesFacts
  <2>5. a.time \in Int /\ a.stamp \in Int
    BY <1>4, <1>5
  <2>6. /\ WellListed(old, alive) /\ g \in Groups /\ len \in Nat /\ Sound(a, alive)
        /\ \A h \in Groups : h # g => new[h] = old[h]
    BY <1>1, <1>3, <1>4, <1>6, <1>13
  <2>7. /\ DOMAIN new[g] = 1 .. len + 1 /\ at \in 1 .. len + 1
        /\ \A n \in 1 .. len + 1 :
             new[g][n] = IF n < at THEN old[g][n] ELSE IF n = at THEN a ELSE old[g][n - 1]
    BY <1>8, <1>14
  <2> HIDE DEF len, q, r, old, new
  <2>8. NodePutIn(old, new, g, a, at, len)
    BY <2>1, <2>2, <2>3, <2>4, <2>5, <2>6, <2>7 DEF NodePutIn
  <2>9. WellListed(new, alive)
    BY <2>6, <2>8, PutInListed
  <2> QED BY <1>2, <2>9 DEF new
<1>16. SavedGamesOK'
  <2>1. posts' \in Nat /\ posts <= posts'
    BY <1>2, <1>5
  <2>2. ASSUME NEW game \in saved PROVE SavedGameOK(game)'
    BY <1>2, <2>1, SavedKeeps DEF IInv, SavedGamesOK
  <2> QED BY <1>2, <2>2 DEF SavedGamesOK
<1>17. phase' # "no map"
  <2>1. serving # None => Serving
    BY <1>1 DEF TypeOK
  <2> QED BY <1>2, <2>1 DEF Running, Serving
<1> QED BY <1>2, <1>10, <1>12, <1>15, <1>16, <1>17 DEF IInv

-----------------------------------------------------------------------------
(* Saved games *)

LEMMA SaveStep ==
  ASSUME IInv, Save
  PROVE  IInv'
<1>1. /\ phase = "between"
      /\ saved' = saved \cup
           {[events |-> Nodes, clock |-> clock, group |-> group, alive |-> alive]}
      /\ UNCHANGED <<free, queue, event, clock, phase, serving, num, group, alive, lost, posts, bound>>
  BY DEF Save, Nodes
<1>2. TypeOK /\ WellListed(Nodes, alive)
  BY DEF IInv
<1>3. TypeOK'
  <2>1. EventType' = EventType
    BY <1>1 DEF EventType
  <2> HIDE DEF EventType
  <2> QED BY <1>1, <1>2, <2>1 DEF TypeOK, Serving
<1>4. SavedGamesOK'
  <2>1. Nodes \in [Groups -> Seq(EventType)]
    <3>1. ASSUME NEW g \in Groups PROVE Nodes[g] \in Seq(EventType)
      <4> DEFINE k == Len(queue[g])
      <4>1. /\ Nodes[g] = [n \in DOMAIN queue[g] |-> event[queue[g][n]]]
            /\ DOMAIN queue[g] = 1 .. k /\ k \in Nat
            /\ \A n \in 1 .. k : event[queue[g][n]] \in EventType
        BY <1>2, NodesFacts DEF Nodes
      <4> HIDE DEF k, EventType
      <4>2. Nodes[g] \in [1 .. k -> EventType]
        BY <4>1
      <4> QED BY <4>1, <4>2
    <3> HIDE DEF EventType
    <3> QED BY <3>1 DEF Nodes
  <2>2. EventType' = EventType
    BY <1>1 DEF EventType
  <2>3. /\ clock \in [Groups -> 0 .. bound.time]
        /\ group \in [Entities -> Groups] /\ alive \subseteq Objects
    BY <1>2 DEF TypeOK
  <2>4. clock["slow"] <= clock["fast"]
    <3>1. clock["slow"] <= clock["fast"] + 0
      BY <1>1, <1>2 DEF TypeOK
    <3>2. clock["fast"] \in Nat
      BY <1>2, ClocksType
    <3> QED BY <3>1, <3>2
  <2> SUFFICES ASSUME NEW game \in saved'
               PROVE  SavedGameOK(game)'
    BY DEF SavedGamesOK
  <2> HIDE DEF EventType
  <2>5. CASE game \in saved
    <3>1. SavedGameOK(game)
      BY <2>5 DEF IInv, SavedGamesOK
    <3> QED BY <1>1, <2>2, <3>1 DEF SavedGameOK
  <2>6. CASE game \notin saved
    <3>1. game = [events |-> Nodes, clock |-> clock, group |-> group, alive |-> alive]
      BY <1>1, <2>6
    <3>2. game.events = Nodes /\ game.clock = clock /\ game.group = group /\ game.alive = alive
      BY <3>1
    <3>3. /\ game.events \in [Groups -> Seq(EventType')]
          /\ game.clock \in [Groups -> 0 .. bound'.time]
          /\ game.clock["slow"] <= game.clock["fast"]
          /\ game.group \in [Entities -> Groups]
          /\ game.alive \subseteq Objects
          /\ WellListed(game.events, game.alive)
      BY <1>1, <1>2, <2>1, <2>2, <2>3, <2>4, <3>2
    <3> QED BY <3>3 DEF SavedGameOK
  <2> QED BY <2>5, <2>6
<1> QED BY <1>1, <1>2, <1>3, <1>4, ListsKept DEF IInv

\* What loading does: each node gets an event of its own, in its list.
LEMMA LoadFacts ==
  ASSUME IInv, NEW game \in saved, Load(game)
  PROVE  /\ queue' \in [Groups -> Seq(EventPool)]
         /\ event' \in [EventPool -> EventType]
         /\ free' \subseteq EventPool
         /\ Queued' \subseteq EventPool \ lost
         /\ free' = (EventPool \ lost) \ Queued'
         /\ \A g \in Groups : Nodes'[g] = game.events[g]
<1> DEFINE slow == game.events["slow"]
           fast == game.events["fast"]
           events == slow \o fast
           s == Len(slow)
           f == Len(fast)
<1>1. TypeOK /\ SavedGameOK(game)
  BY DEF IInv, SavedGamesOK
<1>2. slow \in Seq(EventType) /\ fast \in Seq(EventType)
  BY <1>1 DEF SavedGameOK, Groups
<1>3. PICK node \in [DOMAIN events -> EventPool \ lost] :
        /\ \A m, n \in DOMAIN node : node[m] = node[n] => m = n
        /\ free' = (EventPool \ lost) \ In(node)
        /\ queue' = [slow |-> SubSeq(node, 1, s), fast |-> SubSeq(node, s + 1, Len(events))]
        /\ event' = [e \in EventPool |->
             IF e \in In(node) THEN events[CHOOSE n \in DOMAIN node : node[n] = e]
             ELSE IF e \in lost THEN event[e] ELSE Blank]
  BY DEF Load, AddedToEnd
<1> HIDE DEF slow, fast, EventType
<1>4. s \in Nat /\ f \in Nat
  BY <1>2
<1>5. /\ events \in Seq(EventType) /\ Len(events) = s + f
      /\ \A i \in 1 .. s + f : events[i] = IF i <= s THEN slow[i] ELSE fast[i - s]
  BY <1>2, ConcatProperties
<1> HIDE DEF events, s, f
<1>6. DOMAIN node = 1 .. s + f /\ \A n \in 1 .. s + f : node[n] \in EventPool /\ node[n] \in EventPool \ lost
  <2>1. DOMAIN events = 1 .. s + f
    BY <1>5
  <2>2. DOMAIN node = 1 .. s + f
    BY <2>1
  <2>3. \A n \in 1 .. s + f : node[n] \in EventPool \ lost
    BY <2>1
  <2> QED BY <2>2, <2>3
<1> DEFINE a == SubSeq(node, 1, s)
           b == SubSeq(node, s + 1, Len(events))
<1>7. a \in Seq(EventPool) /\ Len(a) = s /\ \A i \in 1 .. s : a[i] = node[i]
  <2>1. \A i \in 1 .. s : node[i] \in EventPool
    BY <1>4, <1>6
  <2>2. /\ a \in Seq(EventPool) /\ Len(a) = IF 1 <= s THEN s - 1 + 1 ELSE 0
        /\ \A i \in 1 .. s - 1 + 1 : a[i] = node[1 + i - 1]
    BY <1>4, <2>1, SubSeqProperties
  <2> QED BY <1>4, <2>2
<1>8. b \in Seq(EventPool) /\ Len(b) = f /\ \A i \in 1 .. f : b[i] = node[s + i]
  <2>1. \A i \in s + 1 .. s + f : node[i] \in EventPool
    BY <1>4, <1>6
  <2>2. s + 1 \in Int /\ s + f \in Int /\ b = SubSeq(node, s + 1, s + f)
    BY <1>4, <1>5
  <2> DEFINE k == s + 1
             l == s + f
  <2>3. k \in Int /\ l \in Int /\ \A i \in k .. l : node[i] \in EventPool
    BY <2>1, <2>2
  <2>4. /\ b = SubSeq(node, k, l)
        /\ l - k + 1 = f /\ (k <= l \/ f = 0) /\ \A i \in 1 .. f : k + i - 1 = s + i
    BY <1>4, <2>2
  <2> HIDE DEF b, k, l
  <2>5. /\ SubSeq(node, k, l) \in Seq(EventPool)
        /\ Len(SubSeq(node, k, l)) = IF k <= l THEN l - k + 1 ELSE 0
        /\ \A i \in 1 .. l - k + 1 : SubSeq(node, k, l)[i] = node[k + i - 1]
    BY <2>3, SubSeqProperties
  <2>6. Len(b) = f
    BY <1>4, <2>3, <2>4, <2>5
  <2> QED BY <2>4, <2>5, <2>6
<1> HIDE DEF a, b
<1>9. queue'["slow"] = a /\ queue'["fast"] = b /\ queue' \in [Groups -> Seq(EventPool)]
  <2>1. queue' = [slow |-> a, fast |-> b]
    BY <1>3 DEF a, b
  <2>2. queue'["slow"] = a /\ queue'["fast"] = b /\ DOMAIN queue' = {"slow", "fast"}
    BY <2>1
  <2>3. queue' = [g \in Groups |-> IF g = "slow" THEN a ELSE b]
    BY <2>1 DEF Groups
  <2> QED BY <1>7, <1>8, <2>2, <2>3
<1>10. DOMAIN a = 1 .. s /\ DOMAIN b = 1 .. f
  BY <1>7, <1>8
<1>11. Queued' = In(node)
  <2>1. \A n \in 1 .. s + f : n \in 1 .. s \/ (n - s \in 1 .. f /\ s + (n - s) = n)
    BY <1>4
  <2>2. \A n \in 1 .. s : n \in 1 .. s + f
    BY <1>4
  <2>3. \A n \in 1 .. f : s + n \in 1 .. s + f
    BY <1>4
  <2>4. ASSUME NEW n \in 1 .. s + f
        PROVE  node[n] \in In(a) \cup In(b)
    <3>1. CASE n \in 1 .. s
      BY <1>7, <1>10, <3>1 DEF In
    <3>2. CASE n - s \in 1 .. f /\ s + (n - s) = n
      <4>1. b[n - s] = node[n]
        BY <1>8, <3>2
      <4> QED BY <1>10, <3>2, <4>1 DEF In
    <3> QED BY <2>1, <3>1, <3>2
  <2>5. In(a) \subseteq In(node)
    BY <1>6, <1>7, <1>10, <2>2 DEF In
  <2>6. In(b) \subseteq In(node)
    BY <1>6, <1>8, <1>10, <2>3 DEF In
  <2>7. In(node) \subseteq In(a) \cup In(b)
    BY <1>6, <2>4 DEF In
  <2>8. Queued' = In(a) \cup In(b)
    BY <1>9 DEF Queued
  <2> QED BY <2>5, <2>6, <2>7, <2>8
<1>12. In(node) \subseteq EventPool \ lost
  BY <1>6 DEF In
<1>13. \A n \in 1 .. s + f : event'[node[n]] = events[n]
  <2> TAKE n \in 1 .. s + f
  <2>1. node[n] \in In(node) /\ node[n] \in EventPool
    BY <1>6 DEF In
  <2>2. (CHOOSE k \in DOMAIN node : node[k] = node[n]) = n
    BY <1>3, <1>6
  <2> QED BY <1>3, <2>1, <2>2
<1>14. event' \in [EventPool -> EventType]
  <2>1. Blank \in EventType
    BY <1>1, PostsType DEF Blank, EventType
  <2>2. event \in [EventPool -> EventType]
    BY <1>1 DEF TypeOK
  <2>3. \A e \in In(node) : event'[e] \in EventType
    <3>1. \A n \in 1 .. s + f : events[n] \in EventType
      BY <1>4, <1>5
    <3>2. \A e \in In(node) : \E n \in 1 .. s + f : node[n] = e
      BY <1>6 DEF In
    <3> QED BY <1>13, <3>1, <3>2
  <2>4. \A e \in EventPool \ In(node) : event'[e] \in EventType
    BY <1>3, <2>1, <2>2
  <2>5. event' = [e \in EventPool |-> event'[e]]
    BY <1>3
  <2> QED BY <2>3, <2>4, <2>5
<1>15. \A g \in Groups : Nodes'[g] = game.events[g]
  <2>1. Nodes'["slow"] = [n \in 1 .. s |-> event'[a[n]]] /\ Nodes'["fast"] = [n \in 1 .. f |-> event'[b[n]]]
    BY <1>9, <1>10 DEF Nodes, Groups
  <2>2. \A n \in 1 .. s : event'[a[n]] = slow[n]
    <3> TAKE n \in 1 .. s
    <3>1. n \in 1 .. s + f /\ n <= s
      BY <1>4
    <3> QED BY <1>5, <1>7, <1>13, <3>1
  <2>3. \A n \in 1 .. f : event'[b[n]] = fast[n]
    <3> TAKE n \in 1 .. f
    <3>1. s + n \in 1 .. s + f /\ ~(s + n <= s) /\ (s + n) - s = n
      BY <1>4
    <3> QED BY <1>5, <1>8, <1>13, <3>1
  <2>4. slow = [n \in 1 .. s |-> slow[n]] /\ fast = [n \in 1 .. f |-> fast[n]]
    BY <1>2 DEF s, f
  <2>5. Nodes'["slow"] = slow /\ Nodes'["fast"] = fast
    BY <2>1, <2>2, <2>3, <2>4
  <2> QED BY <2>5 DEF Groups, slow, fast
<1> QED BY <1>3, <1>9, <1>11, <1>12, <1>14, <1>15

LEMMA LoadStep ==
  ASSUME IInv, NEW game \in saved, Load(game)
  PROVE  IInv'
<1>1. /\ phase \in {"between", "no map"}
      /\ clock' = game.clock /\ group' = game.group /\ alive' = game.alive
      /\ phase' = "between" /\ num' = 0
      /\ UNCHANGED <<serving, lost, posts, saved, bound>>
  BY DEF Load, GoesTo
<1>2. TypeOK /\ SavedGameOK(game)
  BY DEF IInv, SavedGamesOK
<1>3. serving = None /\ InHand' = {}
  <2>1. serving # None => Serving
    BY <1>2 DEF TypeOK
  <2>2. serving = None
    BY <1>1, <2>1 DEF Serving
  <2> QED BY <1>1, <2>2 DEF InHand
<1>4. /\ clock' \in [Groups -> 0 .. bound.time] /\ clock'["slow"] <= clock'["fast"]
      /\ group' \in [Entities -> Groups] /\ alive' \subseteq Objects
      /\ WellListed(game.events, alive')
  BY <1>1, <1>2 DEF SavedGameOK
<1>5. TypeOK'
  <2>1. EventType' = EventType
    BY <1>1 DEF EventType
  <2>2. /\ queue' \in [Groups -> Seq(EventPool)]
        /\ event' \in [EventPool -> EventType]
        /\ free' \subseteq EventPool
    BY LoadFacts
  <2>3. clock'["slow"] <= clock'["fast"] + (IF phase' \in {"think slow", "no map"} THEN Frame ELSE 0)
    <3>1. 0 .. bound.time \subseteq Nat
      OBVIOUS
    <3>2. clock'["fast"] \in Nat
      BY <1>4, <3>1 DEF Groups
    <3>3. clock'["slow"] <= clock'["fast"] + 0
      BY <1>4, <3>2
    <3> QED BY <1>1, <3>3
  <2>4. num' \in 0 .. MAX_EVENTSPERFRAME
    <3>1. MAX_EVENTSPERFRAME \in Nat /\ num' = 0
      BY <1>1, GameEventsAssumption
    <3> QED BY <3>1
  <2> HIDE DEF EventType
  <2> QED BY <1>1, <1>2, <1>3, <1>4, <2>1, <2>2, <2>3, <2>4 DEF TypeOK
<1>6. Placed'
  <2>1. Queued' \subseteq EventPool \ lost /\ free' = (EventPool \ lost) \ Queued'
    BY LoadFacts
  <2> HIDE DEF Queued
  <2> QED BY <1>1, <1>3, <2>1 DEF Placed
<1>7. WellListed(Nodes', alive')
  <2>1. \A g \in Groups : Nodes'[g] = game.events[g]
    BY LoadFacts
  <2> QED BY <1>4, <2>1 DEF WellListed, InOrderOfTime, OncePosted
<1>8. SavedGamesOK'
  BY <1>1, SavedStays
<1> QED BY <1>1, <1>5, <1>6, <1>7, <1>8 DEF IInv

-----------------------------------------------------------------------------
(* The invariants *)

LEMMA InitIInv == Init => IInv
<1> SUFFICES ASSUME Init PROVE IInv
  OBVIOUS
<1>1. /\ free = EventPool /\ queue = [g \in Groups |-> <<>>]
      /\ event = [e \in EventPool |-> Blank] /\ clock = [g \in Groups |-> 0]
      /\ phase = "spawn" /\ serving = None /\ num = 0
      /\ group = [o \in Entities |-> "slow"] /\ alive = {} /\ lost = {} /\ posts = 0
      /\ saved = {} /\ bound \in Bounds
  BY DEF Init
<1>2. /\ bound.posts \in Nat /\ bound.time \in Nat /\ MAX_EVENTSPERFRAME \in Nat
      /\ None \notin EventPool
  BY <1>1, GameEventsAssumption
<1>3. queue["slow"] = <<>> /\ queue["fast"] = <<>> /\ \A g \in Groups : DOMAIN queue[g] = {}
  BY <1>1 DEF Groups
<1>4. Queued = {}
  BY <1>3 DEF Queued, In, Groups
<1>5. TypeOK
  <2>1. Blank \in EventType
    BY <1>1 DEF Blank, EventType
  <2>2. queue \in [Groups -> Seq(EventPool)]
    BY <1>1
  <2>3. 0 \in 0 .. bound.time /\ 0 \in 0 .. bound.posts /\ 0 \in 0 .. MAX_EVENTSPERFRAME
    BY <1>2
  <2>4. clock \in [Groups -> 0 .. bound.time] /\ clock["slow"] = 0 /\ clock["fast"] = 0
    BY <1>1, <2>3 DEF Groups
  <2>5. clock["slow"] <= clock["fast"] + 0
    BY <2>4
  <2>6. group \in [Entities -> Groups]
    BY <1>1 DEF Groups
  <2> HIDE DEF EventType
  <2> QED BY <1>1, <2>1, <2>2, <2>3, <2>4, <2>5, <2>6 DEF TypeOK
<1>6. Placed
  <2>1. InHand = {}
    BY <1>1 DEF InHand
  <2> HIDE DEF Queued, InHand
  <2> QED BY <1>1, <1>4, <2>1 DEF Placed
<1>7. WellListed(Nodes, alive)
  <2>1. \A g \in Groups : DOMAIN Nodes[g] = {}
    BY <1>3 DEF Nodes
  <2> QED BY <2>1 DEF WellListed, InOrderOfTime, OncePosted
<1> QED BY <1>1, <1>5, <1>6, <1>7 DEF IInv, SavedGamesOK

LEMMA StutterStep == ASSUME IInv, UNCHANGED vars PROVE IInv'
<1>1. UNCHANGED <<free, queue, event, clock, phase, serving, num, group, alive, lost, posts,
                  saved, bound>>
  BY DEF vars
<1>2. TypeOK'
  BY <1>1 DEF IInv, TypeOK, EventType, Serving
<1>3. SavedGamesOK'
  BY <1>1, SavedStays
<1> QED BY <1>1, <1>2, <1>3, ListsKept DEF IInv

LEMMA NextIInv == IInv /\ [Next]_vars => IInv'
<1> SUFFICES ASSUME IInv, [Next]_vars PROVE IInv'
  OBVIOUS
<1>1. ASSUME NEW o \in Objects, NEW def \in Defs, NEW delay \in Delays,
             NEW context \in Groups, Post(o, def, delay, context)
      PROVE  IInv'
  BY <1>1, PostStep
<1>2. ASSUME NEW o \in Objects, NEW defs \in {Defs} \cup {{d} : d \in Defs},
             CancelEvents(o, defs)
      PROVE  IInv'
  BY <1>2, CancelEventsStep
<1>3. ASSUME NEW o \in Objects, NEW g \in Groups, Spawn(o, g) PROVE IInv'
  BY <1>3, SpawnStep
<1>4. ASSUME NEW o \in Objects, Delete(o) PROVE IInv'
  BY <1>4, DeleteStep
<1>5. ASSUME NEW o \in Entities, Grab(o) PROVE IInv'
  BY <1>5, GrabStep
<1>6. CASE StartFrame \/ RunTimeGroup2 \/ StartService \/ EndService \/ LoadMap
  BY <1>6, FrameSteps
<1>7. CASE LeaveMap \/ Error \/ EventOverflow \/ \E game \in saved : LoadFails(game)
  BY <1>7, LeavesStep
<1>8. CASE Serve
  BY <1>8, ServeStep
<1>9. CASE Return
  BY <1>9, ReturnStep
<1>10. CASE Save
  BY <1>10, SaveStep
<1>11. ASSUME NEW game \in saved, Load(game) PROVE IInv'
  BY <1>11, LoadStep
<1>12. CASE UNCHANGED vars
  BY <1>12, StutterStep
<1> QED BY <1>1, <1>2, <1>3, <1>4, <1>5, <1>6, <1>7, <1>8, <1>9, <1>10, <1>11, <1>12
        DEF Next, Game

LEMMA Invariant == Spec => []IInv
BY InitIInv, NextIInv, PTL DEF Spec

\* The variables of the event queues and of the frames stay in their types.
THEOREM TypeCorrect == Spec => []TypeOK
<1>1. IInv => TypeOK
  BY DEF IInv
<1> QED BY <1>1, Invariant, PTL

\* As many events wait as there are nodes in the lists: the nodes of both lists,
\* one behind the other, are a bijection.
LEMMA NodesCounted ==
  ASSUME TypeOK, WellListed(Nodes, alive)
  PROVE  Cardinality(Queued) = Len(queue["slow"]) + Len(queue["fast"])
<1> DEFINE s == Len(queue["slow"])
           f == Len(queue["fast"])
           b == [n \in 1 .. s + f |-> IF n <= s THEN queue["slow"][n] ELSE queue["fast"][n - s]]
<1>1. /\ s \in Nat /\ f \in Nat
      /\ DOMAIN queue["slow"] = 1 .. s /\ DOMAIN queue["fast"] = 1 .. f
  BY NodesFacts DEF Groups
<1>2. \A m \in 1 .. s : \A n \in 1 .. f : queue["slow"][m] # queue["fast"][n]
  BY <1>1, Distinct DEF Groups
<1>3. \A m, n \in 1 .. s : queue["slow"][m] = queue["slow"][n] => m = n
  BY <1>1, Distinct DEF Groups
<1>4. \A m, n \in 1 .. f : queue["fast"][m] = queue["fast"][n] => m = n
  BY <1>1, Distinct DEF Groups
<1> HIDE DEF s, f
<1>5. \A n \in 1 .. s + f :
        \/ n <= s /\ n \in 1 .. s /\ b[n] = queue["slow"][n]
        \/ ~(n <= s) /\ n - s \in 1 .. f /\ b[n] = queue["fast"][n - s]
  BY <1>1
<1>6. \A n \in 1 .. s : n \in 1 .. s + f /\ b[n] = queue["slow"][n]
  BY <1>1
<1>7. \A n \in 1 .. f : s + n \in 1 .. s + f /\ b[s + n] = queue["fast"][n]
  BY <1>1
<1>8. DOMAIN b = 1 .. s + f
  OBVIOUS
<1> HIDE DEF b
<1>9. \A m, n \in 1 .. s + f : b[m] = b[n] => m = n
  <2> SUFFICES ASSUME NEW m \in 1 .. s + f, NEW n \in 1 .. s + f, b[m] = b[n]
               PROVE  m = n
    OBVIOUS
  <2>1. CASE m <= s /\ n <= s
    BY <1>3, <1>5, <2>1
  <2>2. CASE ~(m <= s) /\ ~(n <= s)
    <3>1. m - s = n - s
      BY <1>4, <1>5, <2>2
    <3> QED BY <1>1, <3>1
  <2>3. CASE m <= s /\ ~(n <= s)
    BY <1>2, <1>5, <2>3
  <2>4. CASE ~(m <= s) /\ n <= s
    BY <1>2, <1>5, <2>4
  <2> QED BY <2>1, <2>2, <2>3, <2>4
<1>10. \A n \in 1 .. s + f : b[n] \in Queued
  BY <1>1, <1>5 DEF Queued, In
<1>11. \A e \in Queued : \E n \in 1 .. s + f : b[n] = e
  BY <1>1, <1>6, <1>7 DEF Queued, In
<1>12. b \in [1 .. s + f -> Queued]
  <2>1. b = [n \in 1 .. s + f |-> b[n]]
    BY DEF b
  <2> HIDE DEF Queued
  <2> QED BY <1>10, <2>1
<1>13. ExistsBijection(1 .. s + f, Queued)
  <2> HIDE DEF Queued
  <2>1. b \in Bijection(1 .. s + f, Queued)
    BY <1>9, <1>11, <1>12 DEF Bijection, Injection, Surjection, IsInjective
  <2> QED BY <2>1 DEF ExistsBijection
<1>14. IsFiniteSet(1 .. s + f) /\ Cardinality(1 .. s + f) = s + f
  <2> DEFINE k == s + f
  <2>1. k \in Nat
    BY <1>1
  <2> HIDE DEF k
  <2>2. IsFiniteSet(1 .. k) /\ Cardinality(1 .. k) = IF 1 > k THEN 0 ELSE k - 1 + 1
    BY <2>1, FS_Interval
  <2>3. Cardinality(1 .. k) = k
    BY <2>1, <2>2
  <2> QED BY <2>2, <2>3 DEF k
<1>15. Cardinality(Queued) = s + f
  <2> HIDE DEF Queued
  <2> QED BY <1>13, <1>14, FS_Bijection
<1> QED BY <1>15 DEF s, f

\* Every event of the pool stays in one place, free, in one queue once or being
\* served, whatever the handlers post, cancel and delete (Event.cpp).
THEOREM PoolStaysWhole == Spec => []PoolWhole
<1>1. IInv => PoolWhole
  BY NodesCounted DEF IInv, Placed, PoolWhole
<1> QED BY <1>1, Invariant, PTL

\* The queues stay in the order of the times, and of posting for one time.
THEOREM StaysSorted == Spec => []Sorted
<1>1. IInv => Sorted
  <2> SUFFICES ASSUME IInv, NEW g \in Groups, NEW m \in DOMAIN queue[g], NEW n \in DOMAIN queue[g],
                      m < n
               PROVE  Earlier(event[queue[g][m]], event[queue[g][n]])
    BY DEF Sorted, Earlier
  <2>1. /\ m \in DOMAIN Nodes[g] /\ n \in DOMAIN Nodes[g]
        /\ Nodes[g][m] = event[queue[g][m]] /\ Nodes[g][n] = event[queue[g][n]]
    BY NodesFacts DEF IInv
  <2> QED BY <2>1 DEF IInv, WellListed, InOrderOfTime
<1> QED BY <1>1, Invariant, PTL

\* What an event that waits is.
LEMMA QueuedSound ==
  ASSUME IInv, NEW g \in Groups, NEW e \in In(queue[g])
  PROVE  Sound(event[e], alive)
<1>1. PICK n \in DOMAIN queue[g] : queue[g][n] = e
  BY DEF In
<1>2. n \in DOMAIN Nodes[g] /\ Nodes[g][n] = event[e]
  BY <1>1, NodesFacts DEF IInv
<1> QED BY <1>2 DEF IInv, WellListed

\* No event waits for an object that is gone.
THEOREM OwnersStayAlive == Spec => []OwnersAlive
<1>1. IInv => OwnersAlive
  <2> SUFFICES ASSUME IInv, NEW e \in Queued PROVE event[e].object \in alive
    BY DEF OwnersAlive
  <2>1. PICK g \in Groups : e \in In(queue[g])
    BY DEF Queued, Groups
  <2> QED BY <2>1, QueuedSound DEF Sound
<1> QED BY <1>1, Invariant, PTL

-----------------------------------------------------------------------------
(* Events are served on time *)

\* The first event of a queue is the earliest.
LEMMA HeadFirst ==
  ASSUME IInv, NEW g \in Groups, NEW e \in In(queue[g])
  PROVE  /\ 1 \in DOMAIN queue[g] /\ queue[g] # <<>>
         /\ Head(queue[g]) = queue[g][1]
         /\ event[queue[g][1]].time <= event[e].time
         /\ e # queue[g][1] => Earlier(event[queue[g][1]], event[e])
<1>1. PICK n \in DOMAIN queue[g] : queue[g][n] = e
  BY DEF In
<1>2. TypeOK
  BY DEF IInv
<1>3. queue[g] \in Seq(EventPool) /\ DOMAIN queue[g] = 1 .. Len(queue[g]) /\ Len(queue[g]) \in Nat
  BY <1>2, NodesFacts
<1>4. 1 \in DOMAIN queue[g] /\ queue[g] # <<>> /\ Head(queue[g]) = queue[g][1]
  BY <1>1, <1>3
<1>5. n # 1 => Earlier(event[queue[g][1]], event[e])
  <2> SUFFICES ASSUME n # 1 PROVE Earlier(event[queue[g][1]], event[e])
    OBVIOUS
  <2>1. 1 < n
    BY <1>1, <1>3
  <2>2. /\ 1 \in DOMAIN Nodes[g] /\ n \in DOMAIN Nodes[g]
        /\ Nodes[g][1] = event[queue[g][1]] /\ Nodes[g][n] = event[e]
    BY <1>1, <1>2, <1>4, NodesFacts
  <2> QED BY <2>1, <2>2 DEF IInv, WellListed, InOrderOfTime
<1>6. event[queue[g][1]].time \in Nat /\ event[e].time \in Nat
  BY <1>1, <1>2, <1>4, EventTimes
<1>7. event[queue[g][1]].time <= event[e].time
  <2>1. CASE n = 1
    BY <1>1, <1>6, <2>1
  <2>2. CASE n # 1
    BY <1>5, <1>6, <2>2 DEF Earlier
  <2> QED BY <2>1, <2>2
<1> QED BY <1>1, <1>4, <1>5, <1>7

\* What OnTime says of a step.
ServedOnTime ==
  /\ serving = None /\ serving' # None =>
       event[serving'].crossed \/ event[serving'].due <= clock[Served]
  /\ Serving /\ phase' # phase /\ phase' # "no map" =>
       \A e \in In(queue[Served]) : event[e].crossed \/ event[e].due > clock[Served]

\* Only Serve takes an event; it is due.
LEMMA TakesDue ==
  ASSUME IInv, Next, serving = None, serving' # None
  PROVE  event[serving'].crossed \/ event[serving'].due <= clock[Served]
<1>1. Serve
  BY DEF Next, Game, Post, CancelEvents, Spawn, Delete, Grab, Error, MapShutdown, StartFrame,
         RunTimeGroup2, StartService, Return, EndService, LeaveMap, EventOverflow, LoadMap,
         Save, Load, LoadFails
<1>2. /\ Served \in Groups
      /\ serving' = queue[Served][1] /\ serving' \in In(queue[Served])
  BY <1>1, ServedFacts DEF IInv, In
<1>3. event[serving'].time <= clock[Served]
  <2>1. Head(queue[Served]) = queue[Served][1]
    BY <1>2, HeadFirst
  <2> QED BY <1>1, <1>2, <2>1 DEF Serve, Due
<1>4. event[serving'].crossed \/ event[serving'].due = event[serving'].time
  BY <1>2, QueuedSound DEF Sound
<1> QED BY <1>3, <1>4

LEMMA LaterThan ==
  \A first, time, now \in Nat : first <= time /\ ~(first <= now) => time > now
  OBVIOUS

\* Only EndService goes on to the next queue; nothing is due in this one.
LEMMA LeavesNoneDue ==
  ASSUME IInv, Next, Serving, phase' # phase, phase' # "no map", NEW e \in In(queue[Served])
  PROVE  event[e].crossed \/ event[e].due > clock[Served]
<1>1. EndService
  BY DEF Next, Game, Post, CancelEvents, Spawn, Delete, Grab, Error, MapShutdown, StartFrame,
         RunTimeGroup2, StartService, Return, Serve, LeaveMap, EventOverflow, LoadMap,
         Save, Load, LoadFails, GoesTo, Serving
<1>2. Served \in Groups
  BY DEF Served, Groups
<1>3. /\ queue[Served] # <<>> /\ Head(queue[Served]) = queue[Served][1]
      /\ event[queue[Served][1]].time <= event[e].time /\ 1 \in DOMAIN queue[Served]
  BY <1>2, HeadFirst
<1>4. ~(event[queue[Served][1]].time <= clock[Served])
  BY <1>1, <1>3 DEF EndService, Due
<1>5. /\ event[queue[Served][1]].time \in Nat /\ event[e].time \in Nat
      /\ clock[Served] \in Nat
  <2>1. PICK n \in DOMAIN queue[Served] : queue[Served][n] = e
    BY DEF In
  <2>2. clock[Served] \in Nat
    BY <1>2, ClocksType DEF IInv, Groups
  <2> QED BY <1>2, <1>3, <2>1, <2>2, EventTimes DEF IInv
<1>6. event[e].time > clock[Served]
  BY <1>3, <1>4, <1>5, LaterThan
<1>7. event[e].crossed \/ event[e].due = event[e].time
  BY <1>2, QueuedSound DEF Sound
<1> QED BY <1>6, <1>7

\* An event is served in the first frame in which its delay has passed by the clock
\* of its queue, slow motion or not, but for those that crossed from the slow group.
THEOREM ServesOnTime == Spec => OnTime
<1>1. IInv /\ [Next]_vars => [ServedOnTime]_vars
  BY TakesDue, LeavesNoneDue DEF ServedOnTime
<1> QED BY <1>1, Invariant, PTL DEF Spec, OnTime, ServedOnTime

-----------------------------------------------------------------------------
(* The queues implement the timetable *)

\* The events that wait, and the saved games, as the timetable has them.
Waiting == UNION {{AsPending(g, event[e]) : e \in In(queue[g])} : g \in Groups}

SavedTables ==
  {[pending |-> UNION {{AsPending(g, e) : e \in In(game.events[g])} : g \in Groups},
    now |-> game.clock] : game \in saved}

LEMMA WaitingIs ==
  /\ \A p : p \in Waiting <=> \E g \in Groups : \E e \in In(queue[g]) : p = AsPending(g, event[e])
  /\ \A p : p \in Waiting' <=>
       \E g \in Groups : \E e \in In(queue'[g]) : p = AsPending(g, event'[e])
BY DEF Waiting, In

LEMMA AsPendingIs ==
  ASSUME NEW g, NEW e
  PROVE  /\ AsPending(g, e).stamp = e.stamp /\ AsPending(g, e).group = g
         /\ AsPending(g, e).time = e.time /\ AsPending(g, e).object = e.object
         /\ AsPending(g, e).def = e.def
BY DEF AsPending

\* What is freed no longer waits; the other events do.
LEMMA FreeWaits ==
  ASSUME TypeOK, NEW events, Free(events)
  PROVE  \A p : p \in Waiting' <=>
           \E g \in Groups : \E e \in In(queue[g]) \ events : p = AsPending(g, event[e])
<1>1. \A g \in Groups : In(queue'[g]) = In(queue[g]) \ events
  BY FreeFacts
<1>2. \A g \in Groups : \A e \in In(queue[g]) \ events : event'[e] = event[e]
  <2>1. \A g \in Groups : In(queue[g]) \subseteq EventPool
    BY NodesFacts DEF In
  <2> QED BY <2>1, FreeFacts
<1> QED BY <1>1, <1>2, WaitingIs

LEMMA CancelWaits ==
  ASSUME TypeOK, NEW o, NEW defs, Free(EventsOf(o, defs))
  PROVE  Waiting' = {p \in Waiting : ~(p.object = o /\ p.def \in defs)}
<1>1. ASSUME NEW g \in Groups, NEW e \in In(queue[g])
      PROVE  e \in EventsOf(o, defs) <=> /\ AsPending(g, event[e]).object = o
                                         /\ AsPending(g, event[e]).def \in defs
  <2>1. e \in Queued
    BY DEF Queued, Groups
  <2> QED BY <2>1, AsPendingIs DEF EventsOf
<1>2. \A p : p \in Waiting' <=>
        \E g \in Groups : \E e \in In(queue[g]) \ EventsOf(o, defs) : p = AsPending(g, event[e])
  BY FreeWaits
<1> QED BY <1>1, <1>2, WaitingIs

LEMMA CancelImplements ==
  ASSUME IInv, NEW o \in Objects, NEW defs \in {Defs} \cup {{d} : d \in Defs},
         Free(EventsOf(o, defs)), UNCHANGED <<clock, saved>>
  PROVE  Timetable!Cancel \/ UNCHANGED Timetable!vars
<1>1. Waiting' = {p \in Waiting : ~(p.object = o /\ p.def \in defs)}
  BY CancelWaits DEF IInv
<1>2. clock' = clock /\ SavedTables' = SavedTables
  BY DEF SavedTables
<1>3. \A p \in Waiting : p.def \in Defs
  <2>1. \A g \in Groups : \A e \in In(queue[g]) : event[e].def \in Defs
    BY QueuedSound DEF Sound
  <2> QED BY <2>1, WaitingIs, AsPendingIs
<1>4. CASE \A p \in Waiting : ~(p.object = o /\ p.def \in defs)
  <2>1. Waiting' = Waiting
    BY <1>1, <1>4
  <2> QED BY <1>2, <2>1 DEF Timetable!vars, Waiting, SavedTables
<1>5. ASSUME NEW p \in Waiting, p.object = o, p.def \in defs
      PROVE  Timetable!Cancel
  <2>1. Waiting' \in {{e \in Waiting : e.object # p.object},
                      {e \in Waiting : e.object # p.object \/ e.def # p.def}}
    <3>1. CASE defs = Defs
      <4>1. Waiting' = {e \in Waiting : e.object # p.object}
        BY <1>1, <1>3, <1>5, <3>1
      <4> QED BY <4>1
    <3>2. CASE defs # Defs
      <4>1. defs = {p.def}
        BY <1>5, <3>2
      <4>2. Waiting' = {e \in Waiting : e.object # p.object \/ e.def # p.def}
        BY <1>1, <1>5, <4>1
      <4> QED BY <4>2
    <3> QED BY <3>1, <3>2
  <2> QED BY <1>2, <1>5, <2>1 DEF Timetable!Cancel, Waiting, SavedTables
<1> QED BY <1>4, <1>5

LEMMA LeaveImplements ==
  ASSUME IInv, NEW events, Free(Queued \cup events), UNCHANGED <<clock, saved>>
  PROVE  Timetable!Leave
<1>1. TypeOK
  BY DEF IInv
<1>2. \A g \in Groups : In(queue[g]) \subseteq Queued
  BY DEF Queued, Groups
<1>3. Waiting' = {}
  <2>1. \A p : p \notin Waiting'
    BY <1>1, <1>2, FreeWaits
  <2> QED BY <2>1
<1>4. clock' = clock /\ SavedTables' = SavedTables
  BY DEF SavedTables
<1> QED BY <1>3, <1>4 DEF Timetable!Leave, Waiting, SavedTables

\* The event that was served was no longer waiting.
LEMMA ReturnImplements ==
  ASSUME IInv, Return
  PROVE  UNCHANGED Timetable!vars
<1>1. TypeOK /\ Free({serving}) /\ UNCHANGED <<clock, saved>>
  BY DEF IInv, Return
<1>2. serving \notin Queued
  BY DEF IInv, Placed, InHand, Return
<1>3. \A g \in Groups : In(queue[g]) \ {serving} = In(queue[g])
  BY <1>2 DEF Queued, Groups
<1>4. Waiting' = Waiting
  <2>1. \A p : p \in Waiting' <=> p \in Waiting
    BY <1>1, <1>3, FreeWaits, WaitingIs
  <2> HIDE DEF Waiting
  <2> QED BY <2>1
<1> QED BY <1>1, <1>4 DEF Timetable!vars, Waiting, SavedTables

\* Served is the event of the earliest time, of these the first posted.
LEMMA ServeImplements ==
  ASSUME IInv, Serve
  PROVE  Timetable!Serve
<1> DEFINE q == queue[Served]
           first == AsPending(Served, event[serving'])
<1>1. TypeOK /\ WellListed(Nodes, alive)
  BY DEF IInv
<1>2. /\ Served \in Groups /\ serving' = q[1] /\ 1 \in DOMAIN q /\ q # <<>>
      /\ q \in Seq(EventPool)
  BY <1>1, ServedFacts, NodesFacts
<1>3. event[serving'].time <= clock[Served] /\ event' = event /\ clock' = clock /\ saved' = saved
  <2>1. Head(q) = q[1]
    BY <1>2
  <2> QED BY <1>2, <2>1 DEF Serve, Due
<1>4. first \in Waiting
  BY <1>2, WaitingIs DEF In
<1>5. ASSUME NEW g \in Groups, NEW n \in DOMAIN queue[g],
             AsPending(g, event[queue[g][n]]) = first
      PROVE  queue[g][n] = serving'
  <2>1. /\ Nodes[g][n].stamp = Nodes[Served][1].stamp
        /\ n \in DOMAIN Nodes[g] /\ 1 \in DOMAIN Nodes[Served]
    BY <1>1, <1>2, <1>5, NodesFacts, AsPendingIs
  <2>2. g = Served /\ n = 1
    BY <1>1, <1>2, <2>1 DEF WellListed, OncePosted
  <2> QED BY <1>2, <2>2
<1>6. ASSUME NEW n \in DOMAIN q, AsPending(Served, event[q[n]]) # first
      PROVE  Timetable!Before(first, AsPending(Served, event[q[n]]))
  <2>1. n \in Nat /\ n # 1 /\ n >= 1
    BY <1>2, <1>6
  <2>2. Earlier(Nodes[Served][1], Nodes[Served][n])
    <3>1. 1 < n /\ 1 \in DOMAIN Nodes[Served] /\ n \in DOMAIN Nodes[Served]
      BY <1>1, <1>2, <2>1, NodesFacts
    <3> QED BY <1>1, <1>2, <3>1 DEF WellListed, InOrderOfTime
  <2>3. Nodes[Served][1] = event[serving'] /\ Nodes[Served][n] = event[q[n]]
    BY <1>1, <1>2, NodesFacts
  <2> QED BY <2>2, <2>3, AsPendingIs DEF Earlier, Timetable!Before
<1>7. \A p \in Waiting : p.group = Served /\ p # first => Timetable!Before(first, p)
  <2> SUFFICES ASSUME NEW p \in Waiting, p.group = Served, p # first
               PROVE  Timetable!Before(first, p)
    OBVIOUS
  <2>1. PICK g \in Groups : \E e \in In(queue[g]) : p = AsPending(g, event[e])
    BY WaitingIs
  <2>2. g = Served
    BY <2>1, AsPendingIs
  <2>3. PICK n \in DOMAIN q : p = AsPending(Served, event[q[n]])
    BY <2>1, <2>2 DEF In
  <2> HIDE DEF first, q
  <2> QED BY <1>6, <2>3
<1>8. \A g \in Groups : In(queue'[g]) = In(queue[g]) \ {serving'}
  <2> TAKE g \in Groups
  <2>1. Queued' = Queued \ {serving'}
    BY <1>1, ServeQueued
  <2>2. CASE g = Served
    <3>1. In(queue'[g]) \subseteq In(queue[g])
      BY <1>1, <2>2, ServedFacts DEF In
    <3>2. serving' \notin In(queue'[g])
      BY <1>2, <2>1, <2>2 DEF Queued, Groups
    <3>3. In(queue[g]) \ {serving'} \subseteq In(queue'[g])
      <4> SUFFICES ASSUME NEW n \in DOMAIN q, q[n] # serving'
                   PROVE  q[n] \in In(queue'[g])
        BY <2>2 DEF In
      <4>1. n \in 1 .. Len(q) /\ n # 1 /\ Len(q) \in Nat
        BY <1>2
      <4>2. queue'[Served] \in Seq(EventPool) /\ Len(queue'[Served]) = Len(q) - 1
        BY <1>1, <1>2, ServedFacts
      <4>3. n - 1 \in DOMAIN queue'[Served] /\ (n - 1) + 1 = n
        BY <4>1, <4>2
      <4>4. queue'[Served][n - 1] = q[n]
        BY <1>1, <4>3, ServedFacts
      <4> QED BY <2>2, <4>3, <4>4 DEF In
    <3> QED BY <3>1, <3>2, <3>3
  <2>3. CASE g # Served
    <3>1. queue'[g] = queue[g]
      BY <1>1, <2>3, ServedFacts
    <3>2. serving' \notin In(queue[g])
      BY <1>1, <1>2, <2>3, Distinct DEF In
    <3> QED BY <3>1, <3>2
  <2> QED BY <2>2, <2>3
<1>9. Waiting' = Waiting \ {first}
  <2>1. ASSUME NEW g \in Groups, NEW e \in In(queue[g])
        PROVE  e = serving' <=> AsPending(g, event[e]) = first
    <3>1. PICK n \in DOMAIN queue[g] : queue[g][n] = e
      BY DEF In
    <3>2. e = serving' => g = Served
      BY <1>1, <1>2, <3>1, Distinct
    <3> QED BY <1>5, <3>1, <3>2
  <2> HIDE DEF first
  <2>2. \A p : p \in Waiting' <=> p \in Waiting /\ p # first
    BY <1>3, <1>8, <2>1, WaitingIs
  <2> HIDE DEF Waiting
  <2> QED BY <2>2
<1>10. first.time <= clock[first.group] /\ first.group = Served
  BY <1>3, AsPendingIs
<1>11. SavedTables' = SavedTables
  BY <1>3 DEF SavedTables
<1> HIDE DEF first, q, Waiting, SavedTables
<1>12. \E e \in Waiting :
         /\ e.time <= clock[e.group]
         /\ \A p \in Waiting : p.group = e.group /\ p # e => Timetable!Before(e, p)
         /\ Waiting' = Waiting \ {e}
  BY <1>4, <1>7, <1>9, <1>10
<1> QED BY <1>3, <1>11, <1>12 DEF Timetable!Serve, Waiting, SavedTables

\* What is posted has the stamp that follows all others.
LEMMA PostImplements ==
  ASSUME IInv, NEW o \in Objects, NEW def \in Defs, NEW delay \in Delays,
         NEW context \in Groups, Post(o, def, delay, context)
  PROVE  Timetable!Post
<1> DEFINE l == QueueOf(o)
           a == Posted(o, def, delay, context)
           new == AsPending(l, a)
<1>1. TypeOK /\ Placed
  BY DEF IInv
<1>2. o \in alive /\ posts' = posts + 1 /\ clock' = clock /\ saved' = saved
  BY DEF Post
<1>3. PICK e \in free, at \in Nat :
        /\ l \in Groups
        /\ event' = [event EXCEPT ![e] = a]
        /\ queue' \in [Groups -> Seq(EventPool)]
        /\ \A h \in Groups : h # l => queue'[h] = queue[h]
        /\ PutIn(queue'[l], queue[l], e, at)
  BY PostFacts
<1>4. a.stamp = posts + 1
  BY <1>2, PostedFacts
<1> HIDE DEF l, a
<1>5. e \in EventPool /\ \A g \in Groups : In(queue[g]) \subseteq EventPool \ {e}
  BY <1>1, FreeNotQueued, NodesFacts DEF In
<1>6. event'[e] = a /\ \A d \in EventPool \ {e} : event'[d] = event[d]
  BY <1>1, <1>3, <1>5 DEF TypeOK
<1>7. In(queue'[l]) = In(queue[l]) \cup {e}
  <2>1. queue[l] \in Seq(EventPool) /\ queue'[l] \in Seq(EventPool)
    BY <1>1, <1>3, NodesFacts
  <2> QED BY <1>3, <2>1, PutInAdds
<1>8. Waiting' = Waiting \cup {new}
  <2>1. \A g \in Groups : \A d \in In(queue[g]) : event'[d] = event[d]
    BY <1>5, <1>6
  <2>2. \A g \in Groups : g # l => In(queue'[g]) = In(queue[g])
    BY <1>3
  <2>3. new \in Waiting'
    BY <1>3, <1>6, <1>7, WaitingIs
  <2>4. \A p \in Waiting : p \in Waiting'
    <3>1. \A g \in Groups : In(queue[g]) \subseteq In(queue'[g])
      BY <1>7, <2>2
    <3> QED BY <2>1, <3>1, WaitingIs
  <2>5. \A p \in Waiting' : p \in Waiting \/ p = new
    <3> SUFFICES ASSUME NEW g \in Groups, NEW d \in In(queue'[g])
                 PROVE  AsPending(g, event'[d]) \in Waiting \/ AsPending(g, event'[d]) = new
      BY WaitingIs
    <3>1. CASE d \in In(queue[g])
      BY <2>1, <3>1, WaitingIs
    <3>2. CASE d \notin In(queue[g])
      <4>1. g = l /\ d = e
        BY <1>7, <2>2, <3>2
      <4> QED BY <1>6, <4>1
    <3> QED BY <3>1, <3>2
  <2> HIDE DEF Waiting, new
  <2> QED BY <2>3, <2>4, <2>5
<1>9. \A p \in Waiting : p.stamp < new.stamp
  <2>1. posts \in Nat
    BY <1>1, PostsType
  <2>2. ASSUME NEW g \in Groups, NEW n \in DOMAIN queue[g]
        PROVE  AsPending(g, event[queue[g][n]]).stamp < new.stamp
    <3>1. event[queue[g][n]].stamp \in Nat /\ event[queue[g][n]].stamp <= posts
      BY <1>1, EventTimes
    <3>2. new.stamp = posts + 1
      BY <1>4, AsPendingIs
    <3> DEFINE stamp == event[queue[g][n]].stamp
    <3> HIDE DEF stamp, new
    <3>3. stamp < new.stamp
      BY <2>1, <3>1, <3>2 DEF stamp
    <3> QED BY <3>3, AsPendingIs DEF stamp
  <2> HIDE DEF new
  <2> QED BY <2>2, WaitingIs DEF In
<1>10. new \notin Waiting
  <2>1. ~(new.stamp < new.stamp)
    <3>1. new.stamp = posts + 1 /\ posts \in Nat
      BY <1>1, <1>4, AsPendingIs, PostsType
    <3> QED BY <3>1
  <2> HIDE DEF new
  <2> QED BY <1>9, <2>1
<1>11. SavedTables' = SavedTables
  BY <1>2 DEF SavedTables
<1> HIDE DEF new, Waiting, SavedTables
<1>12. \E p \in Waiting' \ Waiting : /\ Waiting' = Waiting \cup {p}
                                     /\ \A w \in Waiting : w.stamp < p.stamp
  BY <1>8, <1>9, <1>10
<1> QED BY <1>2, <1>11, <1>12 DEF Timetable!Post, Waiting, SavedTables

\* What is saved and loaded are the data of the events, in their lists.
Table(lists, data) == UNION {{AsPending(g, data[e]) : e \in In(lists[g])} : g \in Groups}
TableOf(events) == UNION {{AsPending(g, e) : e \in In(events[g])} : g \in Groups}

LEMMA SameTable ==
  ASSUME NEW lists, NEW data, NEW events,
         \A g \in Groups : /\ DOMAIN events[g] = DOMAIN lists[g]
                            /\ \A n \in DOMAIN lists[g] : events[g][n] = data[lists[g][n]]
  PROVE  Table(lists, data) = TableOf(events)
<1>1. ASSUME NEW g \in Groups
      PROVE  {AsPending(g, e) : e \in In(events[g])} = {AsPending(g, data[e]) : e \in In(lists[g])}
  <2>1. In(events[g]) = {data[e] : e \in In(lists[g])}
    BY DEF In
  <2> QED BY <2>1
<1> DEFINE A(g) == {AsPending(g, e) : e \in In(events[g])}
           B(g) == {AsPending(g, data[e]) : e \in In(lists[g])}
<1>2. \A g \in Groups : A(g) = B(g)
  BY <1>1
<1> HIDE DEF A, B
<1>3. UNION {A(g) : g \in Groups} = UNION {B(g) : g \in Groups}
  BY <1>2
<1> QED BY <1>3 DEF A, B, Table, TableOf

LEMMA WaitingTable == Waiting = Table(queue, event) /\ Waiting' = Table(queue', event')
BY DEF Waiting, Table, In

LEMMA SaveImplements ==
  ASSUME Save
  PROVE  Timetable!Save
<1> DEFINE game == [events |-> Nodes, clock |-> clock, group |-> group, alive |-> alive]
<1>1. saved' = saved \cup {game} /\ UNCHANGED <<queue, event, clock>>
  BY DEF Save, Nodes
<1>2. Waiting = UNION {{AsPending(g, e) : e \in In(game.events[g])} : g \in Groups}
  <2>1. \A g \in Groups :
          /\ DOMAIN game.events[g] = DOMAIN queue[g]
          /\ \A n \in DOMAIN queue[g] : game.events[g][n] = event[queue[g][n]]
    BY DEF Nodes
  <2> HIDE DEF game
  <2>2. Waiting = TableOf(game.events)
    BY <2>1, SameTable, WaitingTable
  <2> QED BY <2>2 DEF TableOf
<1>3. game.clock = clock
  OBVIOUS
<1>4. SavedTables' = SavedTables \cup {[pending |-> Waiting, now |-> clock]}
  <2> HIDE DEF game
  <2> QED BY <1>1, <1>2, <1>3 DEF SavedTables
<1>5. Waiting' = Waiting
  BY <1>1 DEF Waiting
<1> QED BY <1>1, <1>4, <1>5 DEF Timetable!Save, Waiting, SavedTables

LEMMA LoadImplements ==
  ASSUME IInv, NEW game \in saved, Load(game)
  PROVE  Timetable!Load
<1>1. clock' = game.clock /\ saved' = saved
  BY DEF Load
<1>2. \A g \in Groups : Nodes'[g] = game.events[g]
  BY LoadFacts
<1> DEFINE table == [pending |-> UNION {{AsPending(g, e) : e \in In(game.events[g])} : g \in Groups},
                     now |-> game.clock]
<1>3. Waiting' = table.pending /\ clock' = table.now
  <2>1. Waiting' = UNION {{AsPending(g, e) : e \in In(game.events[g])} : g \in Groups}
    <3>1. \A g \in Groups :
            /\ DOMAIN game.events[g] = DOMAIN queue'[g]
            /\ \A n \in DOMAIN queue'[g] : game.events[g][n] = event'[queue'[g][n]]
      BY ZenonT(60), <1>2 DEF Nodes
    <3> HIDE DEF table
    <3>2. Waiting' = TableOf(game.events)
      BY <3>1, SameTable, WaitingTable
    <3> QED BY <3>2 DEF TableOf
  <2> QED BY <1>1, <2>1
<1>4. table \in SavedTables
  BY DEF SavedTables
<1>5. SavedTables' = SavedTables
  BY <1>1 DEF SavedTables
<1> HIDE DEF table, Waiting, SavedTables
<1>6. \E t \in SavedTables : Waiting' = t.pending /\ clock' = t.now
  BY <1>3, <1>4
<1> QED BY <1>5, <1>6 DEF Timetable!Load, Waiting, SavedTables

LEMMA FramesImplement ==
  ASSUME IInv, StartFrame \/ RunTimeGroup2
  PROVE  Timetable!Tick
<1>1. /\ clock["slow"] \in Nat /\ clock["fast"] \in Nat
      /\ DOMAIN clock = Groups
  BY ClocksType DEF IInv
<1>2. UNCHANGED <<queue, event, saved>>
  BY DEF StartFrame, RunTimeGroup2
<1>3. \A g \in Groups : clock[g] <= clock'[g]
  <2>1. CASE StartFrame
    <3>1. PICK ms \in SlowMotion : clock' = [clock EXCEPT !["slow"] = clock["slow"] + ms]
      BY <2>1 DEF StartFrame
    <3>2. ms \in Nat
      BY DEF SlowMotion
    <3>3. clock'["slow"] = clock["slow"] + ms /\ clock'["fast"] = clock["fast"]
      BY <1>1, <3>1 DEF Groups
    <3> QED BY <1>1, <3>2, <3>3 DEF Groups
  <2>2. CASE RunTimeGroup2
    <3>1. clock' = [clock EXCEPT !["fast"] = clock["fast"] + Frame]
      BY <2>2 DEF RunTimeGroup2, Incremented
    <3>2. clock'["fast"] = clock["fast"] + Frame /\ clock'["slow"] = clock["slow"]
      BY <1>1, <3>1 DEF Groups
    <3> QED BY <1>1, <3>2 DEF Groups, Frame
  <2> QED BY <2>1, <2>2
<1>4. Waiting' = Waiting /\ SavedTables' = SavedTables
  BY <1>2 DEF Waiting, SavedTables
<1> QED BY <1>3, <1>4 DEF Timetable!Tick, Waiting, SavedTables

LEMMA LoadMapImplements ==
  ASSUME IInv, LoadMap
  PROVE  Timetable!Begin
<1>1. clock' = [g \in Groups |-> 0] /\ UNCHANGED <<queue, event, saved>> /\ Queued = {}
  BY DEF LoadMap, IInv
<1>2. Waiting = {}
  <2>1. \A g \in Groups : In(queue[g]) = {}
    BY <1>1 DEF Queued, Groups
  <2> QED BY <2>1 DEF Waiting
<1>3. Waiting' = Waiting /\ SavedTables' = SavedTables
  BY <1>1 DEF Waiting, SavedTables
<1> QED BY <1>1, <1>2, <1>3 DEF Timetable!Begin, Waiting, SavedTables

LEMMA InitTimetable == Init => Timetable!Init
<1> SUFFICES ASSUME Init PROVE Timetable!Init
  OBVIOUS
<1>1. \A g \in Groups : In(queue[g]) = {}
  BY DEF Init, In, Groups
<1>2. Waiting = {}
  BY <1>1 DEF Waiting
<1>3. SavedTables = {}
  BY DEF Init, SavedTables
<1> QED BY <1>2, <1>3 DEF Init, Timetable!Init, Waiting, SavedTables

LEMMA NextTimetable ==
  ASSUME IInv, [Next]_vars
  PROVE  [Timetable!Next]_(Timetable!vars)
<1>1. UNCHANGED <<queue, event, clock, saved>> => UNCHANGED Timetable!vars
  <2> SUFFICES ASSUME UNCHANGED <<queue, event, clock, saved>>
               PROVE  UNCHANGED Timetable!vars
    OBVIOUS
  <2>1. Waiting' = Waiting /\ SavedTables' = SavedTables
    BY DEF Waiting, SavedTables
  <2> QED BY <2>1 DEF Timetable!vars, Waiting, SavedTables
<1>2. CASE UNCHANGED vars
  BY <1>1, <1>2 DEF vars
<1>3. ASSUME NEW o \in Objects, NEW def \in Defs, NEW delay \in Delays,
             NEW context \in Groups, Post(o, def, delay, context)
      PROVE  Timetable!Next
  BY <1>3, PostImplements DEF Timetable!Next
<1>4. ASSUME NEW o \in Objects, NEW defs \in {Defs} \cup {{d} : d \in Defs},
             CancelEvents(o, defs)
      PROVE  [Timetable!Next]_(Timetable!vars)
  BY <1>4, CancelImplements DEF CancelEvents, Timetable!Next
<1>5. ASSUME NEW o \in Objects, Delete(o)
      PROVE  [Timetable!Next]_(Timetable!vars)
  BY <1>5, CancelImplements DEF Delete, Timetable!Next
<1>6. ASSUME NEW o \in Objects, NEW g \in Groups, Spawn(o, g) PROVE UNCHANGED Timetable!vars
  BY <1>1, <1>6 DEF Spawn
<1>7. ASSUME NEW o \in Entities, Grab(o) PROVE UNCHANGED Timetable!vars
  BY <1>1, <1>7 DEF Grab
<1>8. CASE StartService \/ EndService
  BY <1>1, <1>8 DEF StartService, EndService
<1>9. CASE StartFrame \/ RunTimeGroup2
  BY <1>9, FramesImplement DEF Timetable!Next
<1>10. CASE Serve
  BY <1>10, ServeImplements DEF Timetable!Next
<1>11. CASE Return
  BY <1>11, ReturnImplements
<1>12. ASSUME NEW events, MapShutdown(events) PROVE Timetable!Next
  BY <1>12, LeaveImplements DEF MapShutdown, Timetable!Next
<1>13. CASE Error \/ LeaveMap \/ EventOverflow
  BY <1>12, <1>13 DEF Error, LeaveMap, EventOverflow
<1>14. ASSUME NEW game \in saved, LoadFails(game) PROVE Timetable!Next
  BY <1>12, <1>14 DEF LoadFails
<1>15. ASSUME NEW game \in saved, Load(game) PROVE Timetable!Next
  BY <1>15, LoadImplements DEF Timetable!Next
<1>16. CASE Save
  BY <1>16, SaveImplements DEF Timetable!Next
<1>17. CASE LoadMap
  BY <1>17, LoadMapImplements DEF Timetable!Next
<1> QED BY <1>2, <1>3, <1>4, <1>5, <1>6, <1>7, <1>8, <1>9, <1>10, <1>11, <1>13, <1>14, <1>15,
           <1>16, <1>17 DEF Next, Game

\* The queues of events implement the timetable: each event that is posted waits
\* until it is due or cancelled, and is served once, the earliest first.
THEOREM KeepsTheTimetable == Spec => ImplementsTimetable
<1>1. Spec => Timetable!Init /\ Init
  BY InitTimetable, PTL DEF Spec
<1>2. IInv /\ [Next]_vars => [Timetable!Next]_(Timetable!vars)
  BY NextTimetable
<1> QED BY <1>1, <1>2, Invariant, PTL DEF Spec, ImplementsTimetable, Timetable!Spec
=============================================================================
