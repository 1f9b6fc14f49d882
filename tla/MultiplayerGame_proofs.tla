----------------------- MODULE MultiplayerGame_proofs -----------------------
(***************************************************************************)
(* Theorems of MultiplayerGame: what holds in any match, of any length and *)
(* between any number of players.  A frame of the rules is a chain of      *)
(* operators on the whole game; for each there is a lemma that says what   *)
(* it leaves alone.                                                        *)
(***************************************************************************)
EXTENDS MultiplayerGame, FiniteSetTheorems, SequenceTheorems, WellFoundedInduction, TLAPS

\* The natural numbers are well ordered, which is what an induction over them
\* needs.
LEMMA NatLeast ==
  ASSUME NEW T \in SUBSET Nat, T # {}
  PROVE  \E x \in T : \A y \in T : x <= y
<1>1. IsWellFoundedOn(OpToRel(<, Nat), Nat)
  BY NatLessThanWellFounded
<1>2. PICK x \in T : \A y \in T : ~ (<<y, x>> \in OpToRel(<, Nat))
  BY <1>1, WFMin
<1>3. ASSUME NEW y \in T PROVE x <= y
  <2>1. ~ (<<y, x>> \in {ss \in Nat \X Nat : ss[1] < ss[2]})
    BY <1>2 DEF OpToRel
  <2> QED BY <2>1
<1> QED BY <1>3

States == {"INACTIVE", "WARMUP", "COUNTDOWN", "GAMEON", "SUDDENDEATH", "GAMEREVIEW",
           "NEXTGAME"}
Ballots == {"NONE", "WAIT", "YES", "NO"}

Players ==
  [there : BOOLEAN, ingame : BOOLEAN, want : BOOLEAN, spec : BOOLEAN, force : BOOLEAN,
   ready : BOOLEAN, forced : BOOLEAN, dead : BOOLEAN, leader : BOOLEAN, over : BOOLEAN,
   again : BOOLEAN, present : BOOLEAN, frags : Int, vote : Ballots]

Votes ==
  {v \in [kind : {"NONE", "RESTART", "KICK"}, yes : Nat, no : Nat, exec : BOOLEAN,
          value : Clients \cup {None}] : v.kind = "KICK" => v.value \in Clients}

Messages ==
  [id : {"STARTVOTE", "UPDATE", "PASSED", "ABORTED", "FAILED", "RESET"}, yes : Nat, no : Nat]

Games ==
  [state : States, next : States, limit : BOOLEAN, vote : Votes,
   player : [Clients -> Players], inbox : [Clients -> Seq(Messages)]]

\* What the rules do not change of a player.
Same(p, q) ==
  q.there = p.there /\ q.want = p.want /\ q.ingame = p.ingame /\ q.vote = p.vote

\* What they do not change of a game.
Like(g, h) ==
  /\ h.vote = g.vote /\ h.inbox = g.inbox
  /\ \A c \in Clients : Same(g.player[c], h.player[c])

\* And not either, in between the states.
Steady(g, h) == h.state = g.state /\ h.next = g.next

LEMMA ToSpectatorsIs ==
  ASSUME NEW p \in Players
  PROVE  ToSpectators(p) \in Players /\ Same(p, ToSpectators(p)) /\ ToSpectators(p).spec
BY ZenonT(60) DEF ToSpectators, Fresh, Players, Same

LEMMA SpawnIs ==
  ASSUME NEW p \in Players
  PROVE  SpawnToPoint(p) \in Players /\ Same(p, SpawnToPoint(p)) /\ SpawnToPoint(p).spec = p.spec
BY ZenonT(60) DEF SpawnToPoint, Fresh, Players, Same

LEMMA IntoWorldIs ==
  ASSUME NEW p \in Players
  PROVE  IntoWorld(p) \in Players /\ Same(p, IntoWorld(p)) /\ ~IntoWorld(p).spec
<1>0. PICK n \in Int : n = IF p.spec /\ ~LastMan THEN 0 ELSE p.frags
  BY DEF Players
<1> DEFINE q == [p EXCEPT !.spec = FALSE, !.frags = n]
<1>1. q \in Players /\ Same(p, q) /\ ~q.spec
  BY DEF Players, Same
<1>2. IntoWorld(p) = SpawnToPoint(q)
  BY <1>0 DEF IntoWorld
<1> HIDE DEF q
<1> QED BY <1>1, <1>2, SpawnIs DEF Same

LEMMA WithIs ==
  ASSUME NEW g \in Games, NEW c \in Clients, NEW p \in Players
  PROVE  /\ With(g, c, p) \in Games /\ Steady(g, With(g, c, p))
         /\ With(g, c, p).limit = g.limit /\ With(g, c, p).vote = g.vote
         /\ With(g, c, p).inbox = g.inbox /\ With(g, c, p).player[c] = p
         /\ \A d \in Clients : d # c => With(g, c, p).player[d] = g.player[d]
         /\ Same(g.player[c], p) => Like(g, With(g, c, p))
BY DEF With, Games, Steady, Like, Same

\* What a loop does that touches players and leaves the rest.
Alters(g, h) == h \in Games /\ Like(g, h) /\ Steady(g, h) /\ h.limit = g.limit

LEMMA AltersSelf ==
  ASSUME NEW g \in Games
  PROVE  Alters(g, g)
BY DEF Alters, Like, Steady, Same

LEMMA AltersTrans ==
  ASSUME NEW g, NEW h, NEW k, Alters(g, h), Alters(h, k)
  PROVE  Alters(g, k)
BY DEF Alters, Like, Steady, Same

\* One player is touched.
Touches(g, h, c) ==
  /\ Alters(g, h)
  /\ \A d \in Clients : d # c => h.player[d] = g.player[d]

LEMMA SpectateIs ==
  ASSUME NEW g \in Games, NEW c \in Clients, NEW spectate \in BOOLEAN
  PROVE  /\ Touches(g, ServerSpectate(g, c, spectate), c)
         /\ ServerSpectate(g, c, spectate).player[c].spec = spectate
<1>1. g.player[c] \in Players
  BY DEF Games
<1>2. PICK p : /\ p = IF spectate THEN ToSpectators(g.player[c]) ELSE IntoWorld(g.player[c])
               /\ p \in Players /\ Same(g.player[c], p) /\ p.spec = spectate
  BY <1>1, ToSpectatorsIs, IntoWorldIs DEF Players
<1>3. ServerSpectate(g, c, spectate) = With(g, c, p)
  BY <1>2 DEF ServerSpectate
<1> QED BY <1>2, <1>3, WithIs DEF Touches, Alters

-----------------------------------------------------------------------------
(* Loops over the players *)

\* f[n] is what the first n steps of the loop make of g.
Looped(f, S, g) == f = [n \in 0 .. N |-> IF n = 0 THEN g ELSE S[<<f[n - 1], n - 1>>]]

LoopedTo(f, S, g, m) == f = [n \in 0 .. m |-> IF n = 0 THEN g ELSE S[<<f[n - 1], n - 1>>]]

LEMMA LoopNext ==
  ASSUME NEW S, NEW g, NEW m \in Nat, NEW f, LoopedTo(f, S, g, m)
  PROVE  \E h : LoopedTo(h, S, g, m + 1)
<1> DEFINE h == [n \in 0 .. m + 1 |-> IF n = m + 1 THEN S[<<f[m], m>>] ELSE f[n]]
<1>1. /\ h = [n \in 0 .. m + 1 |-> h[n]] /\ h[m + 1] = S[<<f[m], m>>]
      /\ \A n \in 0 .. m : h[n] = f[n]
  OBVIOUS
<1> HIDE DEF h
<1>2. \A n \in 0 .. m : f[n] = IF n = 0 THEN g ELSE S[<<f[n - 1], n - 1>>]
  BY DEF LoopedTo
<1>3. ASSUME NEW n \in 0 .. m + 1
      PROVE  h[n] = IF n = 0 THEN g ELSE S[<<h[n - 1], n - 1>>]
  <2>1. CASE n = m + 1
    <3>1. n - 1 = m /\ m \in 0 .. m /\ n # 0
      BY <2>1
    <3> QED BY <1>1, <2>1, <3>1
  <2>2. CASE n # m + 1
    <3>1. n \in 0 .. m /\ (n # 0 => n - 1 \in 0 .. m)
      BY <2>2
    <3> QED BY <1>1, <1>2, <3>1
  <2> QED BY <2>1, <2>2
<1>4. [n \in 0 .. m + 1 |-> h[n]]
        = [n \in 0 .. m + 1 |-> IF n = 0 THEN g ELSE S[<<h[n - 1], n - 1>>]]
  BY <1>3
<1> QED BY <1>1, <1>4 DEF LoopedTo

LEMMA LoopExists ==
  ASSUME NEW S, NEW g
  PROVE  \E f : Looped(f, S, g)
<1> DEFINE T == {m \in Nat : ~ \E f : LoopedTo(f, S, g, m)}
<1>1. SUFFICES T = {}
  BY MultiplayerGameAssumption DEF Looped, LoopedTo
<1>2. SUFFICES ASSUME T # {} PROVE FALSE
  OBVIOUS
<1>3. PICK m \in T : \A k \in T : m <= k
  <2>1. T \in SUBSET Nat
    OBVIOUS
  <2> HIDE DEF T
  <2> QED BY <1>2, <2>1, NatLeast
<1>4. CASE m = 0
  <2>1. LoopedTo([n \in 0 .. 0 |-> g], S, g, 0)
    <3>1. \A n \in 0 .. 0 : n = 0
      OBVIOUS
    <3> QED BY <3>1 DEF LoopedTo
  <2> QED BY <1>4, <2>1
<1>5. CASE m # 0
  <2>1. m - 1 \in Nat /\ ~(m <= m - 1) /\ (m - 1) + 1 = m
    BY <1>5
  <2>2. PICK f : LoopedTo(f, S, g, m - 1)
    BY <1>3, <2>1
  <2>3. PICK k : k = m - 1 /\ k \in Nat /\ LoopedTo(f, S, g, k)
    BY <2>1, <2>2
  <2>4. \E h : LoopedTo(h, S, g, k + 1)
    BY <2>3, LoopNext
  <2> QED BY <2>1, <2>3, <2>4
<1> QED BY <1>4, <1>5

\* G[n] holds all that the first n steps can make of a game of G[0].
LEMMA LoopStays ==
  ASSUME NEW f, NEW G, f[0] \in G[0],
         \A n \in Clients : f[n] \in G[n] => f[n + 1] \in G[n + 1]
  PROVE  \A n \in 0 .. N : f[n] \in G[n]
<1> DEFINE T == {n \in 0 .. N : f[n] \notin G[n]}
<1>0. N \in Nat
  BY MultiplayerGameAssumption
<1>1. SUFFICES ASSUME T # {} PROVE FALSE
  BY <1>0
<1>2. PICK m \in T : \A k \in T : m <= k
  <2>1. T \in SUBSET Nat
    OBVIOUS
  <2> HIDE DEF T
  <2> QED BY <1>1, <2>1, NatLeast
<1>3. m # 0 /\ m \in 0 .. N /\ f[m] \notin G[m]
  OBVIOUS
<1>4. m - 1 \in 0 .. N /\ m - 1 \in Clients /\ ~(m <= m - 1) /\ (m - 1) + 1 = m
  BY <1>0, <1>3 DEF Clients
<1>5. f[m - 1] \in G[m - 1]
  BY <1>2, <1>4
<1> HIDE DEF T
<1> QED BY <1>3, <1>4, <1>5

\* Steps that make a game of each game can be taken one after another.
LEMMA LoopRuns ==
  ASSUME NEW g \in Games, NEW S \in [Games \X Clients -> Games]
  PROVE  \E f : /\ f = [n \in 0 .. N |-> IF n = 0 THEN g ELSE S[<<f[n - 1], n - 1>>]]
               /\ \A n \in 0 .. N : f[n] \in Games
<1>0. N \in Nat
  BY MultiplayerGameAssumption
<1>1. PICK f : Looped(f, S, g)
  BY LoopExists
<1>2. PICK G : G = [n \in 0 .. N |-> Games]
  OBVIOUS
<1>3. \A n \in 0 .. N : G[n] = Games
  BY <1>2
<1>4. \A n \in 0 .. N : f[n] = IF n = 0 THEN g ELSE S[<<f[n - 1], n - 1>>]
  BY <1>1 DEF Looped
<1>5. f[0] \in G[0]
  <2>1. 0 \in 0 .. N
    BY <1>0
  <2>2. f[0] = g /\ G[0] = Games
    BY <1>3, <1>4, <2>1
  <2> QED BY <2>2
<1>6. ASSUME NEW n \in Clients, f[n] \in G[n]
      PROVE  f[n + 1] \in G[n + 1]
  <2>1. n \in 0 .. N /\ n + 1 \in 0 .. N /\ n + 1 # 0 /\ (n + 1) - 1 = n
    BY <1>0 DEF Clients
  <2>2. f[n] \in Games /\ <<f[n], n>> \in Games \X Clients
    BY <1>3, <1>6, <2>1
  <2> QED BY <1>3, <1>4, <2>1, <2>2
<1>7. \A n \in 0 .. N : f[n] \in G[n]
  BY <1>5, <1>6, LoopStays
<1>8. f = [n \in 0 .. N |-> IF n = 0 THEN g ELSE S[<<f[n - 1], n - 1>>]]
  BY <1>1 DEF Looped
<1>9. \A n \in 0 .. N : f[n] \in Games
  BY <1>3, <1>7
<1> QED BY <1>8, <1>9

\* The loop of LocalMapRestart.
RestartOf(h, c) ==
  IF h.player[c].there
  THEN With(h, c, SpawnToPoint([ToSpectators(h.player[c]) EXCEPT !.force = TRUE])) ELSE h

LEMMA RestartOfIs ==
  ASSUME NEW g \in Games, NEW c \in Clients
  PROVE  Alters(g, RestartOf(g, c))
<1>1. g.player[c] \in Players
  BY DEF Games
<1>2. PICK p : p = ToSpectators(g.player[c]) /\ p \in Players /\ Same(g.player[c], p)
  BY <1>1, ToSpectatorsIs
<1>3. PICK q : q = [p EXCEPT !.force = TRUE] /\ q \in Players /\ Same(p, q)
  <2>1. [p EXCEPT !.force = TRUE] \in Players /\ Same(p, [p EXCEPT !.force = TRUE])
    BY <1>2 DEF Players, Same
  <2> QED BY <2>1
<1>4. PICK r : r = SpawnToPoint(q) /\ r \in Players /\ Same(q, r)
  BY <1>3, SpawnIs
<1>5. Same(g.player[c], r)
  BY <1>2, <1>3, <1>4 DEF Same
<1>6. RestartOf(g, c) = IF g.player[c].there THEN With(g, c, r) ELSE g
  BY <1>2, <1>3, <1>4 DEF RestartOf
<1>7. Alters(g, With(g, c, r))
  BY <1>4, <1>5, WithIs DEF Alters
<1> QED BY <1>6, <1>7, AltersSelf

LEMMA MapRestartRuns ==
  ASSUME NEW g \in Games, NEW G, g \in G[0],
         \A n \in Clients : \A h \in Games : h \in G[n] => RestartOf(h, n) \in G[n + 1]
  PROVE  LocalMapRestart(g) \in G[N]
<1>0. N \in Nat /\ 0 \in 0 .. N /\ N \in 0 .. N
  BY MultiplayerGameAssumption
<1>1. \A h \in Games, c \in Clients : RestartOf(h, c) \in Games
  BY RestartOfIs DEF Alters
<1>2. PICK S : S = [x \in Games \X Clients |-> RestartOf(x[1], x[2])]
  OBVIOUS
<1>3. S \in [Games \X Clients -> Games]
  BY <1>1, <1>2
<1>4. PICK f : /\ f = [n \in 0 .. N |-> IF n = 0 THEN g ELSE S[<<f[n - 1], n - 1>>]]
               /\ \A n \in 0 .. N : f[n] \in Games
  BY <1>3, LoopRuns
<1>5. f = [n \in 0 .. N |-> IF n = 0 THEN g ELSE RestartOf(f[n - 1], n - 1)]
  <2>1. \A n \in 0 .. N : n # 0 => S[<<f[n - 1], n - 1>>] = RestartOf(f[n - 1], n - 1)
    <3> TAKE n \in 0 .. N
    <3> HAVE n # 0
    <3>1. n - 1 \in 0 .. N /\ n - 1 \in Clients
      BY <1>0 DEF Clients
    <3>2. <<f[n - 1], n - 1>> \in Games \X Clients
      BY <1>4, <3>1
    <3> QED BY <1>2, <3>2
  <2> QED BY <1>4, <2>1
<1>6. PICK u : /\ u = [n \in 0 .. N |-> IF n = 0 THEN g ELSE RestartOf(u[n - 1], n - 1)]
               /\ LocalMapRestart(g) = u[N]
  BY <1>5 DEF LocalMapRestart, ForEach, RestartOf
<1>7. \A n \in 0 .. N : u[n] = IF n = 0 THEN g ELSE RestartOf(u[n - 1], n - 1)
  BY <1>6
<1>8. PICK H : H = [n \in 0 .. N |-> Games \cap G[n]]
  OBVIOUS
<1>9. u[0] \in H[0]
  BY <1>0, <1>7, <1>8
<1>10. ASSUME NEW n \in Clients, u[n] \in H[n]
       PROVE  u[n + 1] \in H[n + 1]
  <2>1. n \in 0 .. N /\ n + 1 \in 0 .. N /\ n + 1 # 0 /\ (n + 1) - 1 = n
    BY <1>0 DEF Clients
  <2>2. u[n] \in Games /\ u[n] \in G[n]
    BY <1>8, <1>10, <2>1
  <2>3. u[n + 1] = RestartOf(u[n], n)
    BY <1>7, <2>1
  <2> QED BY <1>1, <1>8, <2>1, <2>2, <2>3
<1>11. u[N] \in H[N]
  BY <1>0, <1>9, <1>10, LoopStays
<1> QED BY <1>0, <1>6, <1>8, <1>11

LEMMA MapRestartLoop ==
  ASSUME NEW g \in Games
  PROVE  Alters(g, LocalMapRestart(g))
<1>0. N \in Nat /\ 0 \in 0 .. N /\ N \in 0 .. N
  BY MultiplayerGameAssumption
<1>1. PICK G : G = [n \in 0 .. N |-> {h \in Games : Alters(g, h)}]
  OBVIOUS
<1>2. g \in G[0]
  <2>1. Alters(g, g)
    BY AltersSelf
  <2> QED BY <1>0, <1>1, <2>1
<1>3. ASSUME NEW n \in Clients, NEW h \in Games, h \in G[n]
      PROVE  RestartOf(h, n) \in G[n + 1]
  <2>1. n \in 0 .. N /\ n + 1 \in 0 .. N
    BY <1>0 DEF Clients
  <2>2. Alters(g, h)
    BY <1>1, <1>3, <2>1
  <2>3. PICK k : k = RestartOf(h, n) /\ Alters(h, k)
    BY RestartOfIs
  <2>4. Alters(g, k) /\ k \in Games
    BY <2>2, <2>3, AltersTrans DEF Alters
  <2> QED BY <1>1, <2>1, <2>3, <2>4
<1>4. LocalMapRestart(g) \in G[N]
  BY <1>2, <1>3, MapRestartRuns
<1> QED BY <1>0, <1>1, <1>4

\* The loop of NewState(GAMEON).
StartOf(h, c) == IF h.player[c].there THEN Starts(h, c) ELSE h

LEMMA StartOfIs ==
  ASSUME NEW g \in Games, NEW c \in Clients, bound \in Bounds
  PROVE  Alters(g, StartOf(g, c))
<1>0. PICK n \in Int : n = IF LastMan THEN FragLimit ELSE 0
  BY MultiplayerGameAssumption DEF FragLimit
<1>1. g.player[c] \in Players
  BY DEF Games
<1>2. PICK p : /\ p = [g.player[c] EXCEPT !.leader = FALSE, !.frags = n]
               /\ p \in Players /\ Same(g.player[c], p)
  <2>1. PICK o : o = g.player[c] /\ o \in Players
    BY <1>1
  <2> DEFINE p == [o EXCEPT !.leader = FALSE, !.frags = n]
  <2>2. p \in Players /\ Same(o, p)
    BY <2>1 DEF Players, Same
  <2> HIDE DEF p
  <2>3. p = [g.player[c] EXCEPT !.leader = FALSE, !.frags = n]
    BY <2>1 DEF p
  <2> QED BY <2>1, <2>2, <2>3
<1>3. PICK q : q = (IF p.want THEN p ELSE IntoWorld(p)) /\ q \in Players /\ Same(p, q)
  BY <1>2, IntoWorldIs DEF Same
<1>4. PICK r : r = [q EXCEPT !.present = CanPlay(q)] /\ r \in Players /\ Same(q, r)
  <2>1. CanPlay(q) \in BOOLEAN
    BY DEF CanPlay
  <2>2. [q EXCEPT !.present = CanPlay(q)] \in Players /\ Same(q, [q EXCEPT !.present = CanPlay(q)])
    BY <1>3, <2>1 DEF Players, Same
  <2> QED BY <2>2
<1>5. Same(g.player[c], r)
  BY <1>2, <1>3, <1>4 DEF Same
<1>6. StartOf(g, c) = IF g.player[c].there THEN With(g, c, r) ELSE g
  BY <1>0, <1>2, <1>3, <1>4 DEF StartOf, Starts
<1>7. Alters(g, With(g, c, r))
  BY <1>4, <1>5, WithIs DEF Alters
<1> QED BY <1>6, <1>7, AltersSelf

LEMMA StartRuns ==
  ASSUME NEW g \in Games, bound \in Bounds, NEW G, g \in G[0],
         \A n \in Clients : \A h \in Games : h \in G[n] => StartOf(h, n) \in G[n + 1]
  PROVE  ForEach(Starts, g) \in G[N]
<1>0. N \in Nat /\ 0 \in 0 .. N /\ N \in 0 .. N
  BY MultiplayerGameAssumption
<1>1. \A h \in Games, c \in Clients : StartOf(h, c) \in Games
  BY StartOfIs DEF Alters
<1>2. PICK S : S = [x \in Games \X Clients |-> StartOf(x[1], x[2])]
  OBVIOUS
<1>3. S \in [Games \X Clients -> Games]
  BY <1>1, <1>2
<1>4. PICK f : /\ f = [n \in 0 .. N |-> IF n = 0 THEN g ELSE S[<<f[n - 1], n - 1>>]]
               /\ \A n \in 0 .. N : f[n] \in Games
  BY <1>3, LoopRuns
<1>5. f = [n \in 0 .. N |-> IF n = 0 THEN g ELSE StartOf(f[n - 1], n - 1)]
  <2>1. \A n \in 0 .. N : n # 0 => S[<<f[n - 1], n - 1>>] = StartOf(f[n - 1], n - 1)
    <3> TAKE n \in 0 .. N
    <3> HAVE n # 0
    <3>1. n - 1 \in 0 .. N /\ n - 1 \in Clients
      BY <1>0 DEF Clients
    <3>2. <<f[n - 1], n - 1>> \in Games \X Clients
      BY <1>4, <3>1
    <3> QED BY <1>2, <3>2
  <2> QED BY <1>4, <2>1
<1>6. PICK u : /\ u = [n \in 0 .. N |-> IF n = 0 THEN g ELSE StartOf(u[n - 1], n - 1)]
               /\ ForEach(Starts, g) = u[N]
  BY <1>5 DEF ForEach, StartOf
<1>7. \A n \in 0 .. N : u[n] = IF n = 0 THEN g ELSE StartOf(u[n - 1], n - 1)
  BY <1>6
<1>8. PICK H : H = [n \in 0 .. N |-> Games \cap G[n]]
  OBVIOUS
<1>9. u[0] \in H[0]
  BY <1>0, <1>7, <1>8
<1>10. ASSUME NEW n \in Clients, u[n] \in H[n]
       PROVE  u[n + 1] \in H[n + 1]
  <2>1. n \in 0 .. N /\ n + 1 \in 0 .. N /\ n + 1 # 0 /\ (n + 1) - 1 = n
    BY <1>0 DEF Clients
  <2>2. u[n] \in Games /\ u[n] \in G[n]
    BY <1>8, <1>10, <2>1
  <2>3. u[n + 1] = StartOf(u[n], n)
    BY <1>7, <2>1
  <2> QED BY <1>1, <1>8, <2>1, <2>2, <2>3
<1>11. u[N] \in H[N]
  BY <1>0, <1>9, <1>10, LoopStays
<1> QED BY <1>0, <1>6, <1>8, <1>11

LEMMA StartLoop ==
  ASSUME NEW g \in Games, bound \in Bounds
  PROVE  Alters(g, ForEach(Starts, g))
<1>0. N \in Nat /\ 0 \in 0 .. N /\ N \in 0 .. N
  BY MultiplayerGameAssumption
<1>1. PICK G : G = [n \in 0 .. N |-> {h \in Games : Alters(g, h)}]
  OBVIOUS
<1>2. g \in G[0]
  <2>1. Alters(g, g)
    BY AltersSelf
  <2> QED BY <1>0, <1>1, <2>1
<1>3. ASSUME NEW n \in Clients, NEW h \in Games, h \in G[n]
      PROVE  StartOf(h, n) \in G[n + 1]
  <2>1. n \in 0 .. N /\ n + 1 \in 0 .. N
    BY <1>0 DEF Clients
  <2>2. Alters(g, h)
    BY <1>1, <1>3, <2>1
  <2>3. PICK k : k = StartOf(h, n) /\ Alters(h, k)
    BY StartOfIs
  <2>4. Alters(g, k) /\ k \in Games
    BY <2>2, <2>3, AltersTrans DEF Alters
  <2> QED BY <1>1, <2>1, <2>3, <2>4
<1>4. ForEach(Starts, g) \in G[N]
  BY <1>2, <1>3, StartRuns
<1> QED BY <1>0, <1>1, <1>4

\* The loop of NewState(GAMEREVIEW).
ReviewOf(h, c) == IF h.player[c].there THEN Review(h, c) ELSE h

LEMMA ReviewOfIs ==
  ASSUME NEW g \in Games, NEW c \in Clients
  PROVE  Alters(g, ReviewOf(g, c))
<1>1. PICK o : o = g.player[c] /\ o \in Players
  BY DEF Games
<1>2. PICK p : p = [o EXCEPT !.forced = FALSE] /\ p \in Players /\ Same(o, p)
  <2>1. [o EXCEPT !.forced = FALSE] \in Players /\ Same(o, [o EXCEPT !.forced = FALSE])
    BY <1>1 DEF Players, Same
  <2> QED BY <2>1
<1>3. PICK h : h = With(g, c, p) /\ h \in Games /\ Alters(g, h)
  BY <1>1, <1>2, WithIs DEF Alters
<1>4. PICK k : k = ServerSpectate(h, c, TRUE) /\ Alters(h, k)
  BY <1>3, SpectateIs DEF Touches
<1>5. ReviewOf(g, c) = IF g.player[c].there THEN k ELSE g
  BY <1>1, <1>2, <1>3, <1>4 DEF ReviewOf, Review
<1>6. Alters(g, k)
  BY <1>3, <1>4, AltersTrans
<1> QED BY <1>5, <1>6, AltersSelf

LEMMA ReviewRuns ==
  ASSUME NEW g \in Games, NEW G, g \in G[0],
         \A n \in Clients : \A h \in Games : h \in G[n] => ReviewOf(h, n) \in G[n + 1]
  PROVE  ForEach(Review, g) \in G[N]
<1>0. N \in Nat /\ 0 \in 0 .. N /\ N \in 0 .. N
  BY MultiplayerGameAssumption
<1>1. \A h \in Games, c \in Clients : ReviewOf(h, c) \in Games
  BY ReviewOfIs DEF Alters
<1>2. PICK S : S = [x \in Games \X Clients |-> ReviewOf(x[1], x[2])]
  OBVIOUS
<1>3. S \in [Games \X Clients -> Games]
  BY <1>1, <1>2
<1>4. PICK f : /\ f = [n \in 0 .. N |-> IF n = 0 THEN g ELSE S[<<f[n - 1], n - 1>>]]
               /\ \A n \in 0 .. N : f[n] \in Games
  BY <1>3, LoopRuns
<1>5. f = [n \in 0 .. N |-> IF n = 0 THEN g ELSE ReviewOf(f[n - 1], n - 1)]
  <2>1. \A n \in 0 .. N : n # 0 => S[<<f[n - 1], n - 1>>] = ReviewOf(f[n - 1], n - 1)
    <3> TAKE n \in 0 .. N
    <3> HAVE n # 0
    <3>1. n - 1 \in 0 .. N /\ n - 1 \in Clients
      BY <1>0 DEF Clients
    <3>2. <<f[n - 1], n - 1>> \in Games \X Clients
      BY <1>4, <3>1
    <3> QED BY <1>2, <3>2
  <2> QED BY <1>4, <2>1
<1>6. PICK u : /\ u = [n \in 0 .. N |-> IF n = 0 THEN g ELSE ReviewOf(u[n - 1], n - 1)]
               /\ ForEach(Review, g) = u[N]
  BY <1>5 DEF ForEach, ReviewOf
<1>7. \A n \in 0 .. N : u[n] = IF n = 0 THEN g ELSE ReviewOf(u[n - 1], n - 1)
  BY <1>6
<1>8. PICK H : H = [n \in 0 .. N |-> Games \cap G[n]]
  OBVIOUS
<1>9. u[0] \in H[0]
  BY <1>0, <1>7, <1>8
<1>10. ASSUME NEW n \in Clients, u[n] \in H[n]
       PROVE  u[n + 1] \in H[n + 1]
  <2>1. n \in 0 .. N /\ n + 1 \in 0 .. N /\ n + 1 # 0 /\ (n + 1) - 1 = n
    BY <1>0 DEF Clients
  <2>2. u[n] \in Games /\ u[n] \in G[n]
    BY <1>8, <1>10, <2>1
  <2>3. u[n + 1] = ReviewOf(u[n], n)
    BY <1>7, <2>1
  <2> QED BY <1>1, <1>8, <2>1, <2>2, <2>3
<1>11. u[N] \in H[N]
  BY <1>0, <1>9, <1>10, LoopStays
<1> QED BY <1>0, <1>6, <1>8, <1>11

LEMMA ReviewLoop ==
  ASSUME NEW g \in Games
  PROVE  Alters(g, ForEach(Review, g))
<1>0. N \in Nat /\ 0 \in 0 .. N /\ N \in 0 .. N
  BY MultiplayerGameAssumption
<1>1. PICK G : G = [n \in 0 .. N |-> {h \in Games : Alters(g, h)}]
  OBVIOUS
<1>2. g \in G[0]
  <2>1. Alters(g, g)
    BY AltersSelf
  <2> QED BY <1>0, <1>1, <2>1
<1>3. ASSUME NEW n \in Clients, NEW h \in Games, h \in G[n]
      PROVE  ReviewOf(h, n) \in G[n + 1]
  <2>1. n \in 0 .. N /\ n + 1 \in 0 .. N
    BY <1>0 DEF Clients
  <2>2. Alters(g, h)
    BY <1>1, <1>3, <2>1
  <2>3. PICK k : k = ReviewOf(h, n) /\ Alters(h, k)
    BY ReviewOfIs
  <2>4. Alters(g, k) /\ k \in Games
    BY <2>2, <2>3, AltersTrans DEF Alters
  <2> QED BY <1>1, <2>1, <2>3, <2>4
<1>4. ForEach(Review, g) \in G[N]
  BY <1>2, <1>3, ReviewRuns
<1> QED BY <1>0, <1>1, <1>4

-----------------------------------------------------------------------------
(* From state to state *)

LEMMA StateIs ==
  ASSUME NEW g \in Games, NEW s \in States
  PROVE  /\ [g EXCEPT !.state = s] \in Games /\ Like(g, [g EXCEPT !.state = s])
         /\ [g EXCEPT !.state = s].state = s /\ [g EXCEPT !.state = s].next = g.next
BY DEF Games, Like, Same

LEMMA NextIs ==
  ASSUME NEW g \in Games, NEW s \in States
  PROVE  /\ [g EXCEPT !.next = s] \in Games /\ Like(g, [g EXCEPT !.next = s])
         /\ [g EXCEPT !.next = s].next = s /\ [g EXCEPT !.next = s].state = g.state
BY DEF Games, Like, Same

LEMMA LimitIs ==
  ASSUME NEW g \in Games, NEW b \in BOOLEAN
  PROVE  /\ [g EXCEPT !.limit = b] \in Games /\ Like(g, [g EXCEPT !.limit = b])
         /\ Steady(g, [g EXCEPT !.limit = b])
BY DEF Games, Like, Same, Steady

LEMMA LikeTrans ==
  ASSUME NEW g, NEW h, NEW k, Like(g, h), Like(h, k)
  PROVE  Like(g, k)
BY DEF Like, Same

LEMMA LikePlaying ==
  ASSUME NEW g, NEW h, Like(g, h)
  PROVE  There(h) = There(g) /\ Playing(h) = Playing(g)
         /\ (EnoughClientsToPlay(h) <=> EnoughClientsToPlay(g))
<1>1. There(h) = There(g)
  BY DEF There, Like, Same
<1>2. \A c \in Clients : CanPlay(h.player[c]) <=> CanPlay(g.player[c])
  BY DEF Like, Same, CanPlay
<1>3. Playing(h) = Playing(g)
  BY <1>1, <1>2 DEF Playing, There
<1> QED BY <1>1, <1>3 DEF EnoughClientsToPlay

LEMMA NewStateIs ==
  ASSUME NEW g \in Games, NEW news \in States, bound \in Bounds
  PROVE  /\ NewState(g, news) \in Games /\ Like(g, NewState(g, news))
         /\ NewState(g, news).state = news
         /\ NewState(g, news).next = IF news = "GAMEREVIEW" THEN "INACTIVE" ELSE g.next
<1>1. CASE news = "GAMEON"
  <2>1. PICK a : a = [g EXCEPT !.limit = FALSE] /\ a \in Games /\ Like(g, a) /\ Steady(g, a)
    BY LimitIs
  <2>2. PICK h : h = LocalMapRestart(a) /\ Alters(a, h)
    BY <2>1, MapRestartLoop
  <2>3. PICK k : k = ForEach(Starts, h) /\ Alters(h, k)
    BY <2>2, StartLoop DEF Alters
  <2>4. NewState(g, news) = [k EXCEPT !.state = news]
    BY <1>1, <2>1, <2>2, <2>3 DEF NewState
  <2>5. k \in Games /\ k.next = g.next
    BY <2>1, <2>2, <2>3 DEF Alters, Steady
  <2>6. Like(g, h)
    BY <2>1, <2>2, LikeTrans DEF Alters
  <2>7. Like(g, k)
    BY <2>3, <2>6, LikeTrans DEF Alters
  <2>8. /\ [k EXCEPT !.state = news] \in Games /\ Like(k, [k EXCEPT !.state = news])
        /\ [k EXCEPT !.state = news].state = news /\ [k EXCEPT !.state = news].next = k.next
    BY <2>5, StateIs
  <2>9. Like(g, [k EXCEPT !.state = news])
    BY <2>7, <2>8, LikeTrans
  <2> QED BY <1>1, <2>4, <2>5, <2>8, <2>9
<1>2. CASE news = "GAMEREVIEW"
  <2>1. PICK h : h = ForEach(Review, g) /\ Alters(g, h)
    BY ReviewLoop
  <2>2. h \in Games /\ Like(g, h) /\ "INACTIVE" \in States
    BY <2>1 DEF Alters, States
  <2>3. PICK k : k = [h EXCEPT !.next = "INACTIVE"] /\ k \in Games /\ Like(h, k)
                 /\ k.next = "INACTIVE"
    BY <2>2, NextIs, ZenonT(60)
  <2>4. NewState(g, news) = [k EXCEPT !.state = news]
    <3>1. NewState(g, news) = [h EXCEPT !.next = "INACTIVE", !.state = news]
      BY <1>2, <2>1 DEF NewState
    <3> QED BY <2>3, <3>1
  <2>5. /\ [k EXCEPT !.state = news] \in Games /\ Like(k, [k EXCEPT !.state = news])
        /\ [k EXCEPT !.state = news].state = news /\ [k EXCEPT !.state = news].next = k.next
    BY <2>3, StateIs
  <2>6. Like(g, k)
    BY <2>2, <2>3, LikeTrans
  <2>7. Like(g, [k EXCEPT !.state = news])
    BY <2>5, <2>6, LikeTrans
  <2> QED BY <1>2, <2>3, <2>4, <2>5, <2>7
<1>3. CASE news \notin {"GAMEON", "GAMEREVIEW"}
  <2>1. NewState(g, news) = [g EXCEPT !.state = news]
    BY <1>3 DEF NewState
  <2> QED BY <1>3, <2>1, StateIs
<1> QED BY <1>1, <1>2, <1>3

\* The match goes on as it was, or is over.
Goes(g, h) ==
  /\ h \in Games /\ Like(g, h)
  /\ Steady(g, h) \/ (h.state = "GAMEREVIEW" /\ h.next = "INACTIVE")

LEMMA GoesTrans ==
  ASSUME NEW g, NEW h, NEW k, Goes(g, h), Goes(h, k)
  PROVE  Goes(g, k)
BY LikeTrans DEF Goes, Steady

LEMMA GoesSelf ==
  ASSUME NEW g \in Games
  PROVE  Goes(g, g)
BY AltersSelf DEF Goes, Alters

LEMMA CheckAbortIs ==
  ASSUME NEW g \in Games, bound \in Bounds
  PROVE  /\ Goes(g, CheckAbortGame(g))
         /\ InMatch(CheckAbortGame(g)) => /\ CheckAbortGame(g) = g
                                          /\ EnoughClientsToPlay(g)
<1>1. CASE InMatch(g) /\ ~EnoughClientsToPlay(g)
  <2>1. PICK h : /\ h = NewState(g, "GAMEREVIEW") /\ h \in Games /\ Like(g, h)
                 /\ h.state = "GAMEREVIEW" /\ h.next = "INACTIVE"
    BY NewStateIs DEF States
  <2>2. CheckAbortGame(g) = h
    BY <1>1, <2>1 DEF CheckAbortGame
  <2> QED BY <2>1, <2>2 DEF Goes, InMatch
<1>2. CASE ~(InMatch(g) /\ ~EnoughClientsToPlay(g))
  <2>1. CheckAbortGame(g) = g
    BY <1>2 DEF CheckAbortGame
  <2> QED BY <1>2, <2>1, GoesSelf
<1> QED BY <1>1, <1>2

LEMMA MapRestartIs ==
  ASSUME NEW g \in Games, bound \in Bounds
  PROVE  /\ MapRestart(g) \in Games /\ Like(g, MapRestart(g))
         /\ MapRestart(g).state = "WARMUP"
         /\ MapRestart(g).next = IF g.state = "WARMUP" THEN g.next ELSE "INACTIVE"
<1>1. PICK h : h = LocalMapRestart(g) /\ Alters(g, h)
  BY MapRestartLoop
<1>2. h \in Games /\ Like(g, h) /\ h.state = g.state /\ h.next = g.next
  BY <1>1 DEF Alters, Steady
<1>3. CASE h.state = "WARMUP"
  BY <1>1, <1>2, <1>3 DEF MapRestart
<1>4. CASE h.state # "WARMUP"
  <2>1. "WARMUP" \in States /\ "INACTIVE" \in States
    BY DEF States
  <2>2. PICK k : k = NewState(h, "WARMUP") /\ k \in Games /\ Like(h, k) /\ k.state = "WARMUP"
    BY <1>2, <2>1, NewStateIs
  <2>3. MapRestart(g) = [k EXCEPT !.next = "INACTIVE"]
    BY <1>1, <1>4, <2>2 DEF MapRestart
  <2>4. PICK m : /\ m = [k EXCEPT !.next = "INACTIVE"] /\ m \in Games /\ Like(k, m)
                 /\ m.next = "INACTIVE" /\ m.state = k.state
    <3>1. PICK s \in States : s = "INACTIVE"
      BY <2>1
    <3>2. PICK m : m = [k EXCEPT !.next = s]
      OBVIOUS
    <3>3. m \in Games /\ Like(k, m) /\ m.next = s /\ m.state = k.state
      BY <2>2, <3>2, NextIs
    <3> QED BY <3>1, <3>2, <3>3
  <2>5. Like(g, k)
    BY <1>2, <2>2, LikeTrans
  <2>6. Like(g, m)
    BY <2>4, <2>5, LikeTrans
  <2> QED BY <1>2, <1>4, <2>2, <2>3, <2>4, <2>6
<1> QED BY <1>3, <1>4

-----------------------------------------------------------------------------
(* Leaders and respawns *)

\* All the players are given something that the rules may change.
LEMMA MarkLeadersIs ==
  ASSUME NEW g \in Games
  PROVE  Alters(g, MarkLeaders(g))
<1> DEFINE new == [c \in Clients |-> IF g.player[c].there
                     THEN [g.player[c] EXCEPT !.leader = c \in Leaders(g)] ELSE g.player[c]]
<1>1. ASSUME NEW c \in Clients
      PROVE  new[c] \in Players /\ Same(g.player[c], new[c])
  <2>1. PICK p : p = g.player[c] /\ p \in Players
    BY DEF Games
  <2>2. PICK b \in BOOLEAN : b = (c \in Leaders(g))
    <3>1. (c \in Leaders(g)) \in BOOLEAN
      OBVIOUS
    <3> QED BY <3>1
  <2>3. [p EXCEPT !.leader = b] \in Players /\ Same(p, [p EXCEPT !.leader = b]) /\ Same(p, p)
    BY <2>1 DEF Players, Same
  <2>4. new[c] = IF p.there THEN [p EXCEPT !.leader = b] ELSE p
    BY <2>1, <2>2
  <2> QED BY <2>1, <2>3, <2>4
<1>2. MarkLeaders(g) = [g EXCEPT !.player = new]
  BY DEF MarkLeaders, Games
<1>3. new \in [Clients -> Players]
  BY <1>1
<1> HIDE DEF new
<1>4. [g EXCEPT !.player = new] \in Games /\ [g EXCEPT !.player = new].player = new
      /\ Steady(g, [g EXCEPT !.player = new]) /\ [g EXCEPT !.player = new].limit = g.limit
      /\ [g EXCEPT !.player = new].vote = g.vote /\ [g EXCEPT !.player = new].inbox = g.inbox
  BY <1>3 DEF Games, Steady
<1> QED BY <1>1, <1>2, <1>4 DEF Alters, Like

LEMMA SuddenRespawnIs ==
  ASSUME NEW g \in Games
  PROVE  Alters(g, SuddenRespawn(g))
<1> DEFINE new == [c \in Clients |-> IF LastMan /\ c \in Contenders(g)
                     THEN [g.player[c] EXCEPT !.again = TRUE] ELSE g.player[c]]
<1>1. ASSUME NEW c \in Clients
      PROVE  new[c] \in Players /\ Same(g.player[c], new[c])
  <2>1. PICK p : p = g.player[c] /\ p \in Players
    BY DEF Games
  <2>2. PICK b \in BOOLEAN : b = (LastMan /\ c \in Contenders(g))
    <3>1. (LastMan /\ c \in Contenders(g)) \in BOOLEAN
      OBVIOUS
    <3> QED BY <3>1
  <2>3. [p EXCEPT !.again = TRUE] \in Players /\ Same(p, [p EXCEPT !.again = TRUE]) /\ Same(p, p)
    BY <2>1 DEF Players, Same
  <2>4. new[c] = IF b THEN [p EXCEPT !.again = TRUE] ELSE p
    BY <2>1, <2>2
  <2> QED BY <2>1, <2>3, <2>4
<1>2. SuddenRespawn(g) = [g EXCEPT !.player = new]
  BY DEF SuddenRespawn, Games
<1>3. new \in [Clients -> Players]
  BY <1>1
<1> HIDE DEF new
<1>4. [g EXCEPT !.player = new] \in Games /\ [g EXCEPT !.player = new].player = new
      /\ Steady(g, [g EXCEPT !.player = new]) /\ [g EXCEPT !.player = new].limit = g.limit
      /\ [g EXCEPT !.player = new].vote = g.vote /\ [g EXCEPT !.player = new].inbox = g.inbox
  BY <1>3 DEF Games, Steady
<1> QED BY <1>1, <1>2, <1>4 DEF Alters, Like

LEMMA LosesLastLifeIs ==
  ASSUME NEW g \in Games, NEW c \in Clients
  PROVE  Touches(g, LosesLastLife(g, c), c)
<1>1. PICK o : o = g.player[c] /\ o \in Players
  BY DEF Games
<1>2. PICK p : p = [o EXCEPT !.over = TRUE, !.frags = NOLIVES] /\ p \in Players /\ Same(o, p)
  <2>1. PICK n \in Int : n = NOLIVES
    BY DEF NOLIVES
  <2>2. [o EXCEPT !.over = TRUE, !.frags = n] \in Players
        /\ Same(o, [o EXCEPT !.over = TRUE, !.frags = n])
    BY <1>1 DEF Players, Same
  <2> QED BY <2>1, <2>2
<1>3. PICK a : a = With(g, c, p) /\ Touches(g, a, c) /\ a \in Games
  BY <1>1, <1>2, WithIs DEF Touches, Alters
<1>4. PICK h : h = ServerSpectate(a, c, TRUE) /\ Touches(a, h, c) /\ h \in Games
  <2>1. Touches(a, ServerSpectate(a, c, TRUE), c)
    BY <1>3, SpectateIs
  <2> QED BY <2>1 DEF Touches, Alters
<1>5. PICK k : k = ServerSpectate(h, c, FALSE) /\ Touches(h, k, c)
  BY <1>4, SpectateIs
<1>6. LosesLastLife(g, c) \in {h, k}
  BY <1>1, <1>2, <1>3, <1>4, <1>5 DEF LosesLastLife
<1>7. Touches(g, h, c)
  BY <1>3, <1>4, AltersTrans DEF Touches
<1>8. Touches(g, k, c)
  BY <1>5, <1>7, AltersTrans DEF Touches
<1> QED BY <1>6, <1>7, <1>8

LEMMA TouchesGoes ==
  ASSUME NEW g, NEW h, NEW c, Touches(g, h, c)
  PROVE  Goes(g, h)
BY DEF Touches, Alters, Goes

LEMMA TouchesSelf ==
  ASSUME NEW g \in Games, NEW c
  PROVE  Touches(g, g, c)
BY AltersSelf DEF Touches

LEMMA RespawnsIs ==
  ASSUME NEW g \in Games, NEW c \in Clients, bound \in Bounds
  PROVE  /\ Goes(g, Respawns(g, c))
         /\ InMatch(Respawns(g, c)) => Touches(g, Respawns(g, c), c)
<1>1. PICK in : in = ServerSpectate(g, c, FALSE) /\ Touches(g, in, c)
  BY SpectateIs
<1>2. PICK out : out = ServerSpectate(g, c, TRUE) /\ Touches(g, out, c)
  BY SpectateIs
<1>3. PICK lost : lost = LosesLastLife(g, c) /\ Touches(g, lost, c)
  BY LosesLastLifeIs
<1>4. PICK over : /\ over = CheckAbortGame(out) /\ Goes(out, over)
                  /\ InMatch(over) => over = out
  <2>1. out \in Games
    BY <1>2 DEF Touches, Alters
  <2> QED BY <2>1, CheckAbortIs
<1>5. RespawnsAsLastMan(g, c) \in {in, lost, g}
  BY <1>1, <1>3 DEF RespawnsAsLastMan
<1>6. RespawnsInSuddenDeath(g, c) \in {g, in, over}
  BY <1>1, <1>2, <1>4 DEF RespawnsInSuddenDeath
<1>7. Respawns(g, c) \in {g, in, lost, over}
  BY <1>1, <1>5, <1>6 DEF Respawns
<1>8. Goes(g, over)
  BY <1>2, <1>4, TouchesGoes, GoesTrans
<1> QED BY <1>1, <1>2, <1>3, <1>4, <1>7, <1>8, TouchesGoes, TouchesSelf

LEMMA RetiresIs ==
  ASSUME NEW g \in Games, NEW c \in Clients, bound \in Bounds
  PROVE  /\ Goes(g, Retires(g, c))
         /\ InMatch(Retires(g, c)) => /\ Touches(g, Retires(g, c), c)
                                      /\ Retires(g, c).player[c].spec
                                      /\ EnoughClientsToPlay(Retires(g, c))
<1>1. PICK o : o = g.player[c] /\ o \in Players
  BY DEF Games
<1>2. PICK p : p = [o EXCEPT !.frags = 0] /\ p \in Players /\ Same(o, p)
  <2>1. [o EXCEPT !.frags = 0] \in Players /\ Same(o, [o EXCEPT !.frags = 0])
    BY <1>1 DEF Players, Same
  <2> QED BY <2>1
<1>3. PICK a : a = With(g, c, p) /\ Touches(g, a, c) /\ a \in Games
  BY <1>1, <1>2, WithIs DEF Touches, Alters
<1>4. PICK h : h = ServerSpectate(a, c, TRUE) /\ Touches(a, h, c) /\ h.player[c].spec
  BY <1>3, SpectateIs
<1>5. Touches(g, h, c)
  BY <1>3, <1>4, AltersTrans DEF Touches
<1>6. PICK k : /\ k = CheckAbortGame(h) /\ Goes(h, k)
               /\ InMatch(k) => k = h /\ EnoughClientsToPlay(h)
  <2>1. h \in Games
    BY <1>5 DEF Touches, Alters
  <2> QED BY <2>1, CheckAbortIs
<1>7. Retires(g, c) = k
  BY <1>1, <1>2, <1>3, <1>4, <1>6 DEF Retires
<1>8. Goes(g, h)
  BY <1>5, TouchesGoes
<1>9. Goes(g, k)
  BY <1>6, <1>8, GoesTrans
<1> QED BY <1>4, <1>5, <1>6, <1>7, <1>9

\* Who plays, or is about to be taken out: the men of a match.
Men(g) ==
  {c \in There(g) : CanPlay(g.player[c]) \/ (g.player[c].want /\ ~g.player[c].spec)}
Fine(g) == Cardinality(Men(g)) >= 2

LEMMA MoreMen ==
  ASSUME NEW A \in SUBSET Clients, NEW B \in SUBSET A, Cardinality(B) >= 2
  PROVE  Cardinality(A) >= 2
<1>1. IsFiniteSet(Clients)
  BY MultiplayerGameAssumption, FS_Interval DEF Clients
<1>2. IsFiniteSet(A)
  BY <1>1, FS_Subset
<1>3. IsFiniteSet(B) /\ Cardinality(B) <= Cardinality(A)
  BY <1>2, FS_Subset
<1>4. Cardinality(B) \in Nat /\ Cardinality(A) \in Nat
  BY <1>2, <1>3, FS_CardinalityType
<1>5. PICK m \in Nat, n \in Nat : m = Cardinality(B) /\ n = Cardinality(A)
  BY <1>4
<1>6. m >= 2 /\ m <= n
  BY <1>3, <1>5
<1>7. n >= 2
  BY <1>6
<1> QED BY <1>5, <1>7

LEMMA FineMore ==
  ASSUME NEW g, NEW h, Men(g) \subseteq Men(h), Fine(g)
  PROVE  Fine(h)
<1>1. Men(h) \subseteq Clients
  BY DEF Men, There
<1> QED BY <1>1, MoreMen DEF Fine

LEMMA FineOfEnough ==
  ASSUME NEW g, EnoughClientsToPlay(g)
  PROVE  Fine(g)
<1>1. Men(g) \subseteq Clients /\ Playing(g) \subseteq Men(g)
  BY DEF Men, Playing, There
<1> QED BY <1>1, MoreMen DEF Fine, EnoughClientsToPlay

\* Someone who wants to play counts, a spectator or not.
LEMMA MenStay ==
  ASSUME NEW g, NEW h, NEW c \in Clients, Touches(g, h, c), ~g.player[c].want
  PROVE  Fine(g) => Fine(h)
<1>1. There(h) = There(g)
  BY DEF Touches, Alters, There, Like, Same
<1>2. \A d \in Clients : /\ CanPlay(h.player[d]) <=> CanPlay(g.player[d])
                         /\ h.player[d].want <=> g.player[d].want
  BY DEF Touches, Alters, Like, Same, CanPlay
<1>3. \A d \in Clients : d # c => h.player[d] = g.player[d]
  BY DEF Touches
<1>4. Men(h) = Men(g)
  BY <1>1, <1>2, <1>3 DEF Men, There
<1> QED BY <1>4 DEF Fine

\* The loop of CheckRespawns.
CheckOf(h, c, spectator) ==
  IF h.player[c].there
  THEN IF WantRespawn(h.player[c]) \/ c = spectator THEN Respawns(h, c)
       ELSE IF h.player[c].want /\ ~h.player[c].spec THEN Retires(h, c)
       ELSE h
  ELSE h

\* The step for one player takes who wants to be a spectator out.
Out(h, c) == h.player[c].there /\ h.player[c].want => h.player[c].spec

LEMMA CheckOfIs ==
  ASSUME NEW g \in Games, NEW c \in Clients, NEW spectator, bound \in Bounds,
         c = spectator => ~g.player[c].want
  PROVE  /\ Goes(g, CheckOf(g, c, spectator))
         /\ InMatch(CheckOf(g, c, spectator)) =>
              /\ Touches(g, CheckOf(g, c, spectator), c)
              /\ Out(CheckOf(g, c, spectator), c)
              /\ Fine(g) => Fine(CheckOf(g, c, spectator))
<1>0. PICK k : k = CheckOf(g, c, spectator)
  OBVIOUS
<1>1. CASE /\ g.player[c].there
           /\ WantRespawn(g.player[c]) \/ c = spectator
  <2>1. k = Respawns(g, c) /\ ~g.player[c].want
    BY <1>0, <1>1 DEF CheckOf, WantRespawn
  <2>2. Goes(g, k) /\ (InMatch(k) => Touches(g, k, c))
    BY <2>1, RespawnsIs
  <2>3. ~k.player[c].want
    BY <2>1, <2>2 DEF Goes, Like, Same
  <2> QED BY <1>0, <2>1, <2>2, <2>3, MenStay DEF Out
<1>2. CASE /\ g.player[c].there /\ ~WantRespawn(g.player[c]) /\ c # spectator
           /\ g.player[c].want /\ ~g.player[c].spec
  <2>1. k = Retires(g, c)
    BY <1>0, <1>2 DEF CheckOf
  <2> QED BY <1>0, <2>1, RetiresIs, FineOfEnough DEF Out
<1>3. CASE \/ ~g.player[c].there
           \/ /\ ~WantRespawn(g.player[c]) /\ c # spectator
              /\ ~(g.player[c].want /\ ~g.player[c].spec)
  <2>1. k = g /\ Out(g, c)
    BY <1>0, <1>3 DEF CheckOf, Out
  <2> QED BY <1>0, <2>1, GoesSelf, TouchesSelf
<1> QED BY <1>1, <1>2, <1>3

LEMMA CheckOfGoes ==
  ASSUME NEW g \in Games, NEW c \in Clients, NEW spectator, bound \in Bounds
  PROVE  Goes(g, CheckOf(g, c, spectator))
BY RespawnsIs, RetiresIs, GoesSelf DEF CheckOf

\* What the first n steps of CheckRespawns make of a game.
Checked(g, h, n) ==
  /\ Goes(g, h)
  /\ InMatch(h) => \A d \in Clients : d < n => Out(h, d)
  /\ InMatch(h) => (Fine(g) => Fine(h))

LEMMA CheckedNext ==
  ASSUME NEW g \in Games, NEW h \in Games, NEW c \in Clients, NEW spectator,
         bound \in Bounds, c = spectator => ~g.player[c].want, Checked(g, h, c)
  PROVE  Checked(g, CheckOf(h, c, spectator), c + 1)
<1>1. PICK k : k = CheckOf(h, c, spectator)
  OBVIOUS
<1>2. c = spectator => ~h.player[c].want
  BY DEF Checked, Goes, Like, Same
<1>3. Goes(h, k) /\ (InMatch(k) => Touches(h, k, c) /\ Out(k, c) /\ (Fine(h) => Fine(k)))
  BY <1>1, <1>2, CheckOfIs
<1>4. Goes(g, k)
  BY <1>3, GoesTrans DEF Checked
<1>5. InMatch(k) => InMatch(h)
  BY <1>3 DEF Goes, Steady, InMatch
<1>6. ASSUME InMatch(k), NEW d \in Clients, d < c + 1
      PROVE  Out(k, d)
  <2>1. CASE d = c
    BY <1>3, <1>6, <2>1
  <2>2. CASE d # c
    <3>1. d < c
      BY <1>6, <2>2, MultiplayerGameAssumption DEF Clients
    <3>2. Out(h, d)
      BY <1>5, <1>6, <3>1 DEF Checked
    <3>3. k.player[d] = h.player[d]
      BY <1>3, <1>6, <2>2 DEF Touches
    <3> QED BY <3>2, <3>3 DEF Out
  <2> QED BY <2>1, <2>2
<1>7. InMatch(k) => (Fine(g) => Fine(k))
  BY <1>3, <1>5 DEF Checked
<1> QED BY <1>1, <1>4, <1>6, <1>7 DEF Checked

LEMMA CheckRuns ==
  ASSUME NEW g \in Games, NEW spectator, bound \in Bounds, NEW G, g \in G[0],
         \A n \in Clients : \A h \in Games : h \in G[n] => CheckOf(h, n, spectator) \in G[n + 1]
  PROVE  CheckRespawnsAnd(g, spectator) \in G[N]
<1>0. N \in Nat /\ 0 \in 0 .. N /\ N \in 0 .. N
  BY MultiplayerGameAssumption
<1>1. \A h \in Games, c \in Clients : CheckOf(h, c, spectator) \in Games
  BY CheckOfGoes DEF Goes
<1>2. PICK S : S = [x \in Games \X Clients |-> CheckOf(x[1], x[2], spectator)]
  OBVIOUS
<1>3. S \in [Games \X Clients -> Games]
  BY <1>1, <1>2
<1>4. PICK f : /\ f = [n \in 0 .. N |-> IF n = 0 THEN g ELSE S[<<f[n - 1], n - 1>>]]
               /\ \A n \in 0 .. N : f[n] \in Games
  BY <1>3, LoopRuns
<1>5. f = [n \in 0 .. N |-> IF n = 0 THEN g ELSE CheckOf(f[n - 1], n - 1, spectator)]
  <2>1. \A n \in 0 .. N : n # 0 => S[<<f[n - 1], n - 1>>] = CheckOf(f[n - 1], n - 1, spectator)
    <3> TAKE n \in 0 .. N
    <3> HAVE n # 0
    <3>1. n - 1 \in 0 .. N /\ n - 1 \in Clients
      BY <1>0 DEF Clients
    <3>2. <<f[n - 1], n - 1>> \in Games \X Clients
      BY <1>4, <3>1
    <3> QED BY <1>2, <3>2
  <2> QED BY <1>4, <2>1
<1>6. PICK u : /\ u = [n \in 0 .. N |-> IF n = 0 THEN g ELSE CheckOf(u[n - 1], n - 1, spectator)]
               /\ CheckRespawnsAnd(g, spectator) = u[N]
  BY <1>5 DEF CheckRespawnsAnd, ForEach, CheckOf
<1>7. \A n \in 0 .. N : u[n] = IF n = 0 THEN g ELSE CheckOf(u[n - 1], n - 1, spectator)
  BY <1>6
<1>8. PICK H : H = [n \in 0 .. N |-> Games \cap G[n]]
  OBVIOUS
<1>9. u[0] \in H[0]
  BY <1>0, <1>7, <1>8
<1>10. ASSUME NEW n \in Clients, u[n] \in H[n]
       PROVE  u[n + 1] \in H[n + 1]
  <2>1. n \in 0 .. N /\ n + 1 \in 0 .. N /\ n + 1 # 0 /\ (n + 1) - 1 = n
    BY <1>0 DEF Clients
  <2>2. u[n] \in Games /\ u[n] \in G[n]
    BY <1>8, <1>10, <2>1
  <2>3. u[n + 1] = CheckOf(u[n], n, spectator)
    BY <1>7, <2>1
  <2> QED BY <1>1, <1>8, <2>1, <2>2, <2>3
<1>11. u[N] \in H[N]
  BY <1>0, <1>9, <1>10, LoopStays
<1> QED BY <1>0, <1>6, <1>8, <1>11

LEMMA CheckLoop ==
  ASSUME NEW g \in Games, NEW spectator, bound \in Bounds,
         \A c \in Clients : c = spectator => ~g.player[c].want
  PROVE  Checked(g, CheckRespawnsAnd(g, spectator), N)
<1>0. N \in Nat /\ 0 \in 0 .. N /\ N \in 0 .. N
  BY MultiplayerGameAssumption
<1>1. PICK G : G = [n \in 0 .. N |-> {h \in Games : Checked(g, h, n)}]
  OBVIOUS
<1>2. g \in G[0]
  <2>1. Checked(g, g, 0)
    BY GoesSelf, MultiplayerGameAssumption DEF Checked, Clients
  <2> QED BY <1>0, <1>1, <2>1
<1>3. ASSUME NEW n \in Clients, NEW h \in Games, h \in G[n]
      PROVE  CheckOf(h, n, spectator) \in G[n + 1]
  <2>1. n \in 0 .. N /\ n + 1 \in 0 .. N
    BY <1>0 DEF Clients
  <2>2. Checked(g, h, n)
    BY <1>1, <1>3, <2>1
  <2>3. PICK k : k = CheckOf(h, n, spectator)
    OBVIOUS
  <2>4. n = spectator => ~g.player[n].want
    OBVIOUS
  <2>5. Checked(g, k, n + 1)
    BY <2>2, <2>3, <2>4, CheckedNext
  <2> QED BY <1>1, <2>1, <2>3, <2>5 DEF Checked, Goes
<1>4. CheckRespawnsAnd(g, spectator) \in G[N]
  BY <1>2, <1>3, CheckRuns
<1> QED BY <1>0, <1>1, <1>4

\* Who wants to spectate is out after CheckRespawns, so the men left all play.
LEMMA CheckRespawnsIs ==
  ASSUME NEW g \in Games, NEW spectator, bound \in Bounds,
         \A c \in Clients : c = spectator => ~g.player[c].want
  PROVE  /\ Goes(g, CheckRespawnsAnd(g, spectator))
         /\ InMatch(CheckRespawnsAnd(g, spectator)) =>
              (Fine(g) => EnoughClientsToPlay(CheckRespawnsAnd(g, spectator)))
<1>1. PICK h : h = CheckRespawnsAnd(g, spectator) /\ Checked(g, h, N)
  BY CheckLoop
<1>2. ASSUME InMatch(h)
      PROVE  Men(h) = Playing(h)
  <2>1. \A d \in Clients : d < N
    BY MultiplayerGameAssumption DEF Clients
  <2>2. \A d \in Clients : Out(h, d)
    BY <1>1, <1>2, <2>1 DEF Checked
  <2> QED BY <2>2 DEF Men, Playing, There, Out
<1> QED BY <1>1, <1>2 DEF Checked, Fine, EnoughClientsToPlay

\* The loop of PutEveryoneBack.
BackOf(h, c) ==
  IF h.player[c].there THEN IF h.player[c].want THEN h ELSE CheckRespawnsAnd(h, c) ELSE h

LEMMA BackOfIs ==
  ASSUME NEW g \in Games, NEW c \in Clients, bound \in Bounds
  PROVE  Goes(g, BackOf(g, c))
<1>1. CASE g.player[c].there /\ ~g.player[c].want
  <2>1. Goes(g, CheckRespawnsAnd(g, c))
    BY <1>1, CheckRespawnsIs
  <2> QED BY <1>1, <2>1 DEF BackOf
<1>2. CASE ~g.player[c].there \/ g.player[c].want
  BY <1>2, GoesSelf DEF BackOf
<1> QED BY <1>1, <1>2

LEMMA BackRuns ==
  ASSUME NEW g \in Games, bound \in Bounds, NEW G, g \in G[0],
         \A n \in Clients : \A h \in Games : h \in G[n] => BackOf(h, n) \in G[n + 1]
  PROVE  PutEveryoneBack(g) \in G[N]
<1>0. N \in Nat /\ 0 \in 0 .. N /\ N \in 0 .. N
  BY MultiplayerGameAssumption
<1>1. \A h \in Games, c \in Clients : BackOf(h, c) \in Games
  BY BackOfIs DEF Goes
<1>2. PICK S : S = [x \in Games \X Clients |-> BackOf(x[1], x[2])]
  OBVIOUS
<1>3. S \in [Games \X Clients -> Games]
  BY <1>1, <1>2
<1>4. PICK f : /\ f = [n \in 0 .. N |-> IF n = 0 THEN g ELSE S[<<f[n - 1], n - 1>>]]
               /\ \A n \in 0 .. N : f[n] \in Games
  BY <1>3, LoopRuns
<1>5. f = [n \in 0 .. N |-> IF n = 0 THEN g ELSE BackOf(f[n - 1], n - 1)]
  <2>1. \A n \in 0 .. N : n # 0 => S[<<f[n - 1], n - 1>>] = BackOf(f[n - 1], n - 1)
    <3> TAKE n \in 0 .. N
    <3> HAVE n # 0
    <3>1. n - 1 \in 0 .. N /\ n - 1 \in Clients
      BY <1>0 DEF Clients
    <3>2. <<f[n - 1], n - 1>> \in Games \X Clients
      BY <1>4, <3>1
    <3> QED BY <1>2, <3>2
  <2> QED BY <1>4, <2>1
<1>6. PICK u : /\ u = [n \in 0 .. N |-> IF n = 0 THEN g ELSE BackOf(u[n - 1], n - 1)]
               /\ PutEveryoneBack(g) = u[N]
  BY <1>5 DEF PutEveryoneBack, ForEach, BackOf
<1>7. \A n \in 0 .. N : u[n] = IF n = 0 THEN g ELSE BackOf(u[n - 1], n - 1)
  BY <1>6
<1>8. PICK H : H = [n \in 0 .. N |-> Games \cap G[n]]
  OBVIOUS
<1>9. u[0] \in H[0]
  BY <1>0, <1>7, <1>8
<1>10. ASSUME NEW n \in Clients, u[n] \in H[n]
       PROVE  u[n + 1] \in H[n + 1]
  <2>1. n \in 0 .. N /\ n + 1 \in 0 .. N /\ n + 1 # 0 /\ (n + 1) - 1 = n
    BY <1>0 DEF Clients
  <2>2. u[n] \in Games /\ u[n] \in G[n]
    BY <1>8, <1>10, <2>1
  <2>3. u[n + 1] = BackOf(u[n], n)
    BY <1>7, <2>1
  <2> QED BY <1>1, <1>8, <2>1, <2>2, <2>3
<1>11. u[N] \in H[N]
  BY <1>0, <1>9, <1>10, LoopStays
<1> QED BY <1>0, <1>6, <1>8, <1>11

LEMMA BackLoop ==
  ASSUME NEW g \in Games, bound \in Bounds
  PROVE  Goes(g, PutEveryoneBack(g))
<1>0. N \in Nat /\ 0 \in 0 .. N /\ N \in 0 .. N
  BY MultiplayerGameAssumption
<1>1. PICK G : G = [n \in 0 .. N |-> {h \in Games : Goes(g, h)}]
  OBVIOUS
<1>2. g \in G[0]
  <2>1. Goes(g, g)
    BY GoesSelf
  <2> QED BY <1>0, <1>1, <2>1
<1>3. ASSUME NEW n \in Clients, NEW h \in Games, h \in G[n]
      PROVE  BackOf(h, n) \in G[n + 1]
  <2>1. n \in 0 .. N /\ n + 1 \in 0 .. N
    BY <1>0 DEF Clients
  <2>2. Goes(g, h)
    BY <1>1, <1>3, <2>1
  <2>3. PICK k : k = BackOf(h, n) /\ Goes(h, k)
    BY BackOfIs
  <2>4. Goes(g, k) /\ k \in Games
    BY <2>2, <2>3, GoesTrans DEF Goes
  <2> QED BY <1>1, <2>1, <2>3, <2>4
<1>4. PutEveryoneBack(g) \in G[N]
  BY <1>2, <1>3, BackRuns
<1> QED BY <1>0, <1>1, <1>4

-----------------------------------------------------------------------------
(* Votes, and a frame *)

\* A switch that is scheduled belongs to the state.
Matches(g) ==
  g.next \in CASE g.state = "COUNTDOWN" -> {"GAMEON"}
               [] g.state = "GAMEREVIEW" -> {"INACTIVE", "NEXTGAME"}
               [] OTHER -> {"INACTIVE"}

LEMMA GoesMatches ==
  ASSUME NEW g, NEW h, Goes(g, h), Matches(g)
  PROVE  Matches(h)
BY DEF Goes, Steady, Matches

LEMMA TellIs ==
  ASSUME NEW g \in Games, NEW m \in Messages
  PROVE  /\ Tell(g, m) \in Games /\ Steady(g, Tell(g, m))
         /\ Tell(g, m).player = g.player /\ Tell(g, m).vote = g.vote
         /\ \A c \in Clients : Tell(g, m).inbox[c] =
              IF g.player[c].there THEN Append(g.inbox[c], m) ELSE g.inbox[c]
<1> DEFINE new == [c \in Clients |-> IF g.player[c].there THEN Append(g.inbox[c], m)
                                    ELSE g.inbox[c]]
<1>1. new \in [Clients -> Seq(Messages)]
  <2>1. \A c \in Clients : g.inbox[c] \in Seq(Messages)
    BY DEF Games
  <2>2. \A c \in Clients : Append(g.inbox[c], m) \in Seq(Messages)
    BY <2>1, AppendProperties
  <2> QED BY <2>1, <2>2
<1>2. Tell(g, m) = [g EXCEPT !.inbox = new]
  BY DEF Tell, Games
<1>3. \A c \in Clients : new[c] =
        IF g.player[c].there THEN Append(g.inbox[c], m) ELSE g.inbox[c]
  OBVIOUS
<1> HIDE DEF new
<1> QED BY <1>1, <1>2, <1>3 DEF Games, Steady

LEMMA VoteIs ==
  ASSUME NEW g \in Games, NEW v \in Votes
  PROVE  /\ [g EXCEPT !.vote = v] \in Games /\ Steady(g, [g EXCEPT !.vote = v])
         /\ [g EXCEPT !.vote = v].player = g.player /\ [g EXCEPT !.vote = v].vote = v
         /\ [g EXCEPT !.vote = v].inbox = g.inbox
BY DEF Games, Steady

LEMMA NoVoteIs == NoVote \in Votes /\ NoVote.kind = "NONE"
BY DEF NoVote, Votes

LEMMA UpdateVoteIs ==
  ASSUME NEW status \in {"UPDATE", "PASSED", "ABORTED", "FAILED", "RESET"}, NEW y \in Nat,
         NEW n \in Nat
  PROVE  UpdateVote(status, y, n) \in Messages
BY DEF UpdateVote, Messages

\* What a client shows, after all the messages to it.
Follows(shows, msgs, end) ==
  \E s : /\ s[0] = shows /\ s[Len(msgs)] = end
         /\ \A i \in 1 .. Len(msgs) : s[i] = Shown(s[i - 1], msgs[i])

LEMMA FollowsNone ==
  ASSUME NEW shows
  PROVE  Follows(shows, <<>>, shows)
<1>1. PICK s : s = [i \in 0 .. 0 |-> shows]
  OBVIOUS
<1>2. s[0] = shows /\ Len(<<>>) = 0 /\ \A i \in 1 .. 0 : FALSE
  BY <1>1
<1> QED BY <1>2 DEF Follows

LEMMA FollowsNothing ==
  ASSUME NEW shows, NEW end, Follows(shows, <<>>, end)
  PROVE  end = shows
BY DEF Follows

LEMMA FollowsAppend ==
  ASSUME NEW shows, NEW msgs \in Seq(Messages), NEW end, NEW m \in Messages,
         Follows(shows, msgs, end)
  PROVE  Follows(shows, Append(msgs, m), Shown(end, m))
<1>1. PICK s : /\ s[0] = shows /\ s[Len(msgs)] = end
               /\ \A i \in 1 .. Len(msgs) : s[i] = Shown(s[i - 1], msgs[i])
  BY DEF Follows
<1>2. PICK k \in Nat : k = Len(msgs)
  BY LenProperties
<1>3. PICK all : all = Append(msgs, m) /\ Len(all) = k + 1 /\ all[k + 1] = m
                 /\ \A i \in 1 .. k : all[i] = msgs[i]
  <2>1. Len(Append(msgs, m)) = k + 1 /\ Append(msgs, m)[k + 1] = m
    BY <1>2, AppendProperties
  <2>2. \A i \in 1 .. k : Append(msgs, m)[i] = msgs[i]
    BY <1>2, AppendProperties
  <2> QED BY <2>1, <2>2
<1>4. PICK t : t = [i \in 0 .. k + 1 |-> IF i = k + 1 THEN Shown(end, m) ELSE s[i]]
  OBVIOUS
<1>5. t[k + 1] = Shown(end, m) /\ \A i \in 0 .. k : t[i] = s[i]
  BY <1>4
<1>6. ASSUME NEW i \in 1 .. k + 1
      PROVE  t[i] = Shown(t[i - 1], all[i])
  <2>1. CASE i = k + 1
    <3>1. i - 1 = k /\ k \in 0 .. k
      BY <2>1
    <3> QED BY <1>1, <1>2, <1>3, <1>5, <2>1, <3>1
  <2>2. CASE i # k + 1
    <3>1. i \in 1 .. k /\ i \in 0 .. k /\ i - 1 \in 0 .. k
      BY <2>2
    <3> QED BY <1>1, <1>2, <1>3, <1>5, <3>1
  <2> QED BY <2>1, <2>2
<1>7. t[0] = shows
  BY <1>1, <1>5
<1> QED BY <1>3, <1>5, <1>6, <1>7 DEF Follows

LEMMA FollowsTail ==
  ASSUME NEW shows, NEW msgs \in Seq(Messages), NEW end, msgs # <<>>,
         Follows(shows, msgs, end)
  PROVE  Follows(Shown(shows, Head(msgs)), Tail(msgs), end)
<1>1. PICK s : /\ s[0] = shows /\ s[Len(msgs)] = end
               /\ \A i \in 1 .. Len(msgs) : s[i] = Shown(s[i - 1], msgs[i])
  BY DEF Follows
<1>2. PICK k \in Nat : k + 1 = Len(msgs)
  <2>1. Len(msgs) \in Nat /\ Len(msgs) # 0
    BY LenProperties, EmptySeq
  <2>2. Len(msgs) - 1 \in Nat /\ (Len(msgs) - 1) + 1 = Len(msgs)
    BY <2>1
  <2> QED BY <2>2
<1>3. PICK rest : rest = Tail(msgs) /\ Len(rest) = k /\ \A i \in 1 .. k : rest[i] = msgs[i + 1]
  <2>1. Len(Tail(msgs)) = k
    <3>1. Len(Tail(msgs)) = Len(msgs) - 1
      BY HeadTailProperties
    <3> QED BY <1>2, <3>1
  <2>2. \A i \in 1 .. k : Tail(msgs)[i] = msgs[i + 1]
    BY <2>1, HeadTailProperties
  <2> QED BY <2>1, <2>2
<1>4. Head(msgs) = msgs[1]
  BY <1>2, HeadTailProperties
<1>5. PICK t : t = [i \in 0 .. k |-> s[i + 1]]
  OBVIOUS
<1>6. \A i \in 0 .. k : t[i] = s[i + 1]
  BY <1>5
<1>7. ASSUME NEW i \in 1 .. k
      PROVE  t[i] = Shown(t[i - 1], rest[i])
  <2>1. i \in 0 .. k /\ i - 1 \in 0 .. k /\ i + 1 \in 1 .. k + 1 /\ (i - 1) + 1 = i
        /\ (i + 1) - 1 = i
    OBVIOUS
  <2>2. s[i + 1] = Shown(s[i], msgs[i + 1])
    BY <1>1, <1>2, <2>1
  <2> QED BY <1>3, <1>6, <2>1, <2>2
<1>8. t[0] = Shown(shows, Head(msgs)) /\ t[k] = end
  <2>1. 0 \in 0 .. k /\ k \in 0 .. k /\ 1 \in 1 .. k + 1
    OBVIOUS
  <2>2. s[1] = Shown(s[0], msgs[1])
    BY <1>1, <1>2, <2>1
  <2>3. t[0] = s[1] /\ t[k] = s[k + 1]
    BY <1>6, <2>1
  <2> QED BY <1>1, <1>2, <1>4, <2>2, <2>3
<1> QED BY <1>3, <1>7, <1>8 DEF Follows

\* What a client should show: the vote, if its player was there when it was called.
Expect(v, in) ==
  IF v.kind # "NONE" /\ in THEN [shown |-> TRUE, yes |-> v.yes, no |-> v.no] ELSE NotShown

Shows == [shown : BOOLEAN, yes : Nat, no : Nat]

LEMMA ShownIs ==
  ASSUME NEW v \in Votes, NEW in
  PROVE  /\ \A status \in {"ABORTED", "FAILED", "RESET"}, y, n \in Nat :
              Shown(Expect(v, in), UpdateVote(status, y, n)) = NotShown
         /\ Shown(Expect(v, in), UpdateVote("PASSED", v.yes, v.no)) = Expect(v, in)
         /\ \A y, n \in Nat : Shown(Expect(v, in), UpdateVote("UPDATE", y, n)) =
              IF v.kind # "NONE" /\ in THEN [shown |-> TRUE, yes |-> y, no |-> n] ELSE NotShown
<1>1. CASE v.kind # "NONE" /\ in
  <2>1. PICK e : e = [shown |-> TRUE, yes |-> v.yes, no |-> v.no] /\ e = Expect(v, in)
    BY <1>1 DEF Expect
  <2>2. ASSUME NEW y \in Nat, NEW n \in Nat
        PROVE  [e EXCEPT !.yes = y, !.no = n] = [shown |-> TRUE, yes |-> y, no |-> n]
    <3>1. v.yes \in Nat /\ v.no \in Nat
      BY DEF Votes
    <3>2. e \in Shows /\ e.shown
      BY <2>1, <3>1 DEF Shows
    <3>3. PICK a : a = [e EXCEPT !.yes = y, !.no = n] /\ a \in Shows /\ a.shown = TRUE
                   /\ a.yes = y /\ a.no = n
      <4>1. [e EXCEPT !.yes = y, !.no = n] \in Shows
        BY <3>2 DEF Shows
      <4>2. /\ [e EXCEPT !.yes = y, !.no = n].shown = TRUE
            /\ [e EXCEPT !.yes = y, !.no = n].yes = y /\ [e EXCEPT !.yes = y, !.no = n].no = n
        BY <2>1, <3>2 DEF Shows
      <4> QED BY <4>1, <4>2
    <3>4. a = [shown |-> TRUE, yes |-> y, no |-> n]
      BY <3>3 DEF Shows
    <3> QED BY <3>3, <3>4
  <2>3. [e EXCEPT !.yes = v.yes, !.no = v.no] = e
    BY <2>1, <2>2 DEF Votes
  <2>4. e.shown = TRUE
    BY <2>1
  <2> QED BY <1>1, <2>1, <2>2, <2>3, <2>4, ZenonT(60) DEF Shown, UpdateVote
<1>2. CASE ~(v.kind # "NONE" /\ in)
  <2>1. Expect(v, in) = NotShown /\ ~NotShown.shown
    BY <1>2 DEF Expect, NotShown
  <2> QED BY <1>2, <2>1 DEF Shown, UpdateVote
<1> QED BY <1>1, <1>2

\* The men of a match in progress remain enough.
Fair(g, h) == InMatch(h) => InMatch(g) /\ (Fine(g) => Fine(h))

\* Players leave, with what was under way to them; the match goes on, or not.
Thins(g, h) ==
  /\ h \in Games /\ h.vote = g.vote
  /\ Matches(g) => Matches(h)
  /\ Fair(g, h)
  /\ \A c \in Clients : h.player[c].there =>
       g.player[c].there /\ h.player[c].vote = g.player[c].vote /\ h.inbox[c] = g.inbox[c]
  /\ \A c \in Clients : ~h.player[c].there =>
       h.inbox[c] = <<>> \/ (~g.player[c].there /\ h.inbox[c] = g.inbox[c])

LEMMA LikeThins ==
  ASSUME NEW g, NEW h \in Games, Like(g, h), Matches(g) => Matches(h), Fair(g, h)
  PROVE  Thins(g, h)
BY DEF Thins, Like, Same

LEMMA DisconnectIs ==
  ASSUME NEW g \in Games, NEW c \in Clients, bound \in Bounds
  PROVE  Thins(g, ServerClientDisconnect(g, c))
         /\ ~ServerClientDisconnect(g, c).player[c].there
         /\ \A d \in Clients \ {c} : Same(g.player[d], ServerClientDisconnect(g, c).player[d])
<1>1. PICK o : o = g.player[c] /\ o \in Players
  BY DEF Games
<1>2. PICK p : p = Deleted(o) /\ p \in Players /\ ~p.there
  <2>1. Deleted(o) \in Players /\ ~Deleted(o).there
    <3>1. PICK b \in BOOLEAN, n \in Int, v \in Ballots : b = o.ingame /\ n = o.frags /\ v = o.vote
      BY <1>1 DEF Players
    <3>2. NoPlayer \in Players /\ ~NoPlayer.there
      BY DEF NoPlayer, Players, Ballots
    <3>3. PICK q : q = NoPlayer /\ q \in Players /\ ~q.there
      BY <3>2
    <3>4. [q EXCEPT !.ingame = b, !.frags = n, !.vote = v] \in Players
          /\ ~[q EXCEPT !.ingame = b, !.frags = n, !.vote = v].there
      BY <3>3 DEF Players
    <3> QED BY <3>1, <3>3, <3>4 DEF Deleted
  <2> QED BY <2>1
<1>3. PICK a : a = With(g, c, p) /\ a \in Games /\ Steady(g, a) /\ a.vote = g.vote
               /\ a.inbox = g.inbox /\ a.player[c] = p
               /\ \A d \in Clients : d # c => a.player[d] = g.player[d]
  BY <1>2, WithIs
<1>4. PICK k : /\ k = [a EXCEPT !.inbox[c] = <<>>] /\ k \in Games /\ Steady(a, k)
               /\ k.player = a.player /\ k.vote = a.vote /\ k.inbox[c] = <<>>
               /\ \A d \in Clients : d # c => k.inbox[d] = a.inbox[d]
  <2> DEFINE e == [a EXCEPT !.inbox[c] = <<>>]
  <2>1. e \in Games
    <3>1. PICK i : i = a.inbox /\ i \in [Clients -> Seq(Messages)]
      BY <1>3 DEF Games
    <3>2. PICK j : j = [i EXCEPT ![c] = <<>>] /\ j \in [Clients -> Seq(Messages)]
      <4>1. PICK none \in Seq(Messages) : none = <<>>
        BY EmptySeq
      <4>2. [i EXCEPT ![c] = none] \in [Clients -> Seq(Messages)]
        BY <3>1
      <4> QED BY <4>1, <4>2
    <3>3. [a EXCEPT !.inbox = j] \in Games
      BY <1>3, <3>2 DEF Games
    <3>4. e = [a EXCEPT !.inbox = j]
      BY <1>3, <3>1, <3>2
    <3> QED BY <3>3, <3>4
  <2>2. /\ Steady(a, e) /\ e.player = a.player /\ e.vote = a.vote /\ e.inbox[c] = <<>>
        /\ \A d \in Clients : d # c => e.inbox[d] = a.inbox[d]
    BY <1>3 DEF Games, Steady
  <2> QED BY <2>1, <2>2
<1>5. PICK h : /\ h = CheckAbortGame(k) /\ Goes(k, h)
               /\ InMatch(h) => h = k /\ EnoughClientsToPlay(k)
  BY <1>4, CheckAbortIs
<1>6. ServerClientDisconnect(g, c) = h
  BY <1>1, <1>2, <1>3, <1>4, <1>5 DEF ServerClientDisconnect
<1>7. Steady(g, k)
  BY <1>3, <1>4 DEF Steady
<1>8. Matches(g) => Matches(h)
  <2>1. Matches(g) => Matches(k)
    BY <1>7 DEF Steady, Matches
  <2> QED BY <1>5, <2>1, GoesMatches
<1>9. Fair(g, h)
  BY <1>5, <1>7, FineOfEnough DEF Fair, Steady, InMatch
<1>10. h \in Games /\ h.vote = g.vote /\ h.inbox = k.inbox
       /\ \A d \in Clients : Same(k.player[d], h.player[d])
  BY <1>3, <1>4, <1>5 DEF Goes, Like
<1>11. \A d \in Clients : d # c => k.player[d] = g.player[d] /\ k.inbox[d] = g.inbox[d]
  BY <1>3, <1>4
<1>12. ~h.player[c].there /\ h.inbox[c] = <<>>
  BY <1>2, <1>3, <1>4, <1>10 DEF Same
<1>13. \A d \in Clients \ {c} : Same(g.player[d], h.player[d]) /\ h.inbox[d] = g.inbox[d]
  BY <1>10, <1>11
<1>14. Thins(g, h)
  BY <1>8, <1>9, <1>10, <1>12, <1>13 DEF Thins, Same
<1> QED BY <1>6, <1>12, <1>13, <1>14

LEMMA ExecuteVoteIs ==
  ASSUME NEW g \in Games, bound \in Bounds
  PROVE  Thins(g, ExecuteVote(g))
<1>1. CASE g.vote.kind = "RESTART"
  <2>1. PICK h : /\ h = MapRestart(g) /\ h \in Games /\ Like(g, h) /\ h.state = "WARMUP"
                 /\ h.next = IF g.state = "WARMUP" THEN g.next ELSE "INACTIVE"
    BY MapRestartIs
  <2>2. Fair(g, h) /\ (Matches(g) => Matches(h))
    BY <2>1 DEF Fair, InMatch, Matches
  <2>3. Thins(g, h)
    BY <2>1, <2>2, LikeThins
  <2> QED BY <1>1, <2>1, <2>3 DEF ExecuteVote
<1>2. CASE g.vote.kind = "KICK" /\ g.player[g.vote.value].there
  <2>1. g.vote.value \in Clients
    BY <1>2 DEF Games, Votes
  <2>2. Thins(g, ServerClientDisconnect(g, g.vote.value))
    BY <2>1, DisconnectIs
  <2> QED BY <1>2, <2>2 DEF ExecuteVote
<1>3. CASE g.vote.kind # "RESTART" /\ ~(g.vote.kind = "KICK" /\ g.player[g.vote.value].there)
  <2>1. Thins(g, g)
    <3>1. Like(g, g) /\ Fair(g, g)
      BY DEF Like, Same, Fair
    <3> QED BY <3>1, LikeThins
  <2> QED BY <1>3, <2>1 DEF ExecuteVote
<1> QED BY <1>1, <1>2, <1>3

\* Nothing is under way to a slot that is empty.
Quiet(g) == \A c \in Clients : ~g.player[c].there => g.inbox[c] = <<>>

\* Who would show the vote as it was will show it as it is.
Relays(g, h) ==
  \A c \in Clients : h.player[c].there =>
    \A shows, in : Follows(shows, g.inbox[c], Expect(g.vote, in))
                   => Follows(shows, h.inbox[c], Expect(h.vote, in))

\* The vote goes on unchanged, or is over.
Tallied(g, h) ==
  /\ \A c \in Clients : h.player[c].there =>
       g.player[c].there /\ h.player[c].vote = g.player[c].vote
  /\ h.vote.kind # "NONE" =>
       g.vote.kind # "NONE" /\ h.vote.yes = g.vote.yes /\ h.vote.no = g.vote.no
  /\ Quiet(g) => Quiet(h)
  /\ Relays(g, h)

\* And so does the match.
Voted(g, h) ==
  /\ h \in Games
  /\ Matches(g) => Matches(h)
  /\ Fair(g, h)
  /\ Tallied(g, h)

LEMMA FairTrans ==
  ASSUME NEW g, NEW h, NEW k, Fair(g, h), Fair(h, k)
  PROVE  Fair(g, k)
BY DEF Fair

LEMMA TalliedTrans ==
  ASSUME NEW g, NEW h, NEW k, Tallied(g, h), Tallied(h, k)
  PROVE  Tallied(g, k)
<1>1. \A c \in Clients : k.player[c].there => h.player[c].there /\ g.player[c].there
  BY DEF Tallied
<1>2. Relays(g, k)
  <2>1. SUFFICES ASSUME NEW c \in Clients, k.player[c].there, NEW shows, NEW in,
                        Follows(shows, g.inbox[c], Expect(g.vote, in))
                 PROVE  Follows(shows, k.inbox[c], Expect(k.vote, in))
    BY DEF Relays
  <2>2. Follows(shows, h.inbox[c], Expect(h.vote, in))
    BY <1>1, <2>1 DEF Tallied, Relays
  <2> QED BY <2>1, <2>2 DEF Tallied, Relays
<1> QED BY <1>1, <1>2 DEF Tallied

LEMMA VotedTrans ==
  ASSUME NEW g, NEW h, NEW k, Voted(g, h), Voted(h, k)
  PROVE  Voted(g, k)
BY FairTrans, TalliedTrans DEF Voted

LEMMA LikeTallied ==
  ASSUME NEW g, NEW h, Like(g, h)
  PROVE  Tallied(g, h)
BY DEF Tallied, Like, Same, Quiet, Relays

LEMMA LikeVoted ==
  ASSUME NEW g, NEW h \in Games, Like(g, h), Matches(g) => Matches(h), Fair(g, h)
  PROVE  Voted(g, h)
BY LikeTallied DEF Voted

\* A vote ends: all are told, and those to whom it is executed may have to go.
LEMMA EndsIs ==
  ASSUME NEW g \in Games, NEW status \in {"ABORTED", "FAILED", "RESET"}, NEW y \in Nat,
         NEW n \in Nat, NEW h \in Games, NEW v \in Votes, v.kind = "NONE",
         NEW t, t = Tell(g, UpdateVote(status, y, n)), Thins(t, h)
  PROVE  Voted(g, [h EXCEPT !.vote = v])
<1>1. PICK m \in Messages : m = UpdateVote(status, y, n)
  BY UpdateVoteIs
<1>2. /\ t \in Games /\ Steady(g, t) /\ t.player = g.player /\ t.vote = g.vote
      /\ \A c \in Clients : t.inbox[c] =
           IF g.player[c].there THEN Append(g.inbox[c], m) ELSE g.inbox[c]
  BY <1>1, TellIs
<1>3. PICK k : /\ k = [h EXCEPT !.vote = v] /\ k \in Games /\ Steady(h, k)
               /\ k.player = h.player /\ k.vote = v /\ k.inbox = h.inbox
  <2>1. PICK k : k = [h EXCEPT !.vote = v]
    OBVIOUS
  <2>2. k \in Games /\ Steady(h, k) /\ k.player = h.player /\ k.vote = v /\ k.inbox = h.inbox
    BY <2>1, VoteIs
  <2> QED BY <2>1, <2>2
<1>4. Matches(g) => Matches(k)
  BY <1>2, <1>3 DEF Thins, Matches, Steady
<1>5. Fair(g, k)
  <2>1. Fair(g, t)
    BY <1>2 DEF Fair, InMatch, Steady, Fine, Men, There
  <2>2. Fair(h, k)
    BY <1>3 DEF Fair, InMatch, Steady, Fine, Men, There
  <2>3. Fair(t, k)
    BY <2>2, FairTrans DEF Thins
  <2> QED BY <2>1, <2>3, FairTrans
<1>6. \A c \in Clients : k.player[c].there =>
        /\ g.player[c].there /\ k.player[c].vote = g.player[c].vote
        /\ k.inbox[c] = Append(g.inbox[c], m)
  <2>1. SUFFICES ASSUME NEW c \in Clients, k.player[c].there
                 PROVE  /\ g.player[c].there /\ k.player[c].vote = g.player[c].vote
                        /\ k.inbox[c] = Append(g.inbox[c], m)
    OBVIOUS
  <2>2. t.player[c].there /\ h.player[c].vote = t.player[c].vote /\ h.inbox[c] = t.inbox[c]
    BY <1>3, <2>1 DEF Thins
  <2> QED BY <1>2, <1>3, <2>2
<1>7. Quiet(g) => Quiet(k)
  BY <1>2, <1>3 DEF Thins, Quiet
<1>8. Relays(g, k)
  <2>1. SUFFICES ASSUME NEW c \in Clients, k.player[c].there, NEW shows, NEW in,
                        Follows(shows, g.inbox[c], Expect(g.vote, in))
                 PROVE  Follows(shows, k.inbox[c], Expect(k.vote, in))
    BY DEF Relays
  <2>2. PICK e : e = Expect(g.vote, in) /\ Shown(e, m) = NotShown
    <3>1. g.vote \in Votes
      BY DEF Games
    <3> QED BY <1>1, <3>1, ShownIs
  <2>3. g.inbox[c] \in Seq(Messages)
    BY DEF Games
  <2>4. Follows(shows, Append(g.inbox[c], m), Shown(e, m))
    BY <2>1, <2>2, <2>3, FollowsAppend
  <2>5. Expect(k.vote, in) = NotShown
    BY <1>3 DEF Expect
  <2> QED BY <1>6, <2>1, <2>2, <2>4, <2>5
<1> QED BY <1>3, <1>4, <1>5, <1>6, <1>7, <1>8 DEF Voted, Tallied

\* The vote goes on, executed later or not.
LEMMA GoesOn ==
  ASSUME NEW g \in Games, NEW h \in Games, Steady(g, h), h.player = g.player,
         h.vote.kind = g.vote.kind, h.vote.yes = g.vote.yes, h.vote.no = g.vote.no,
         \A c \in Clients : ~g.player[c].there => h.inbox[c] = g.inbox[c],
         Relays(g, h)
  PROVE  Voted(g, h)
<1>1. (Matches(g) => Matches(h)) /\ Fair(g, h)
  BY DEF Matches, Steady, Fair, InMatch, Fine, Men, There
<1>2. Quiet(g) => Quiet(h)
  BY DEF Quiet
<1> QED BY <1>1, <1>2 DEF Voted, Tallied

LEMMA ExecIs ==
  ASSUME NEW g \in Games, NEW b \in BOOLEAN
  PROVE  /\ [g EXCEPT !.vote.exec = b] \in Games /\ Steady(g, [g EXCEPT !.vote.exec = b])
         /\ [g EXCEPT !.vote.exec = b].player = g.player
         /\ [g EXCEPT !.vote.exec = b].inbox = g.inbox
         /\ [g EXCEPT !.vote.exec = b].vote.kind = g.vote.kind
         /\ [g EXCEPT !.vote.exec = b].vote.yes = g.vote.yes
         /\ [g EXCEPT !.vote.exec = b].vote.no = g.vote.no
<1>1. PICK v : v = g.vote /\ v \in Votes
  BY DEF Games
<1>2. PICK w : /\ w = [v EXCEPT !.exec = b] /\ w \in Votes
               /\ w.kind = v.kind /\ w.yes = v.yes /\ w.no = v.no
  <2>1. /\ [v EXCEPT !.exec = b] \in Votes /\ [v EXCEPT !.exec = b].kind = v.kind
        /\ [v EXCEPT !.exec = b].yes = v.yes /\ [v EXCEPT !.exec = b].no = v.no
    BY <1>1 DEF Votes
  <2> QED BY <2>1
<1>3. [g EXCEPT !.vote.exec = b] = [g EXCEPT !.vote = w]
  BY <1>1, <1>2
<1>4. PICK h : h = [g EXCEPT !.vote = w]
  OBVIOUS
<1>5. h \in Games /\ Steady(g, h) /\ h.player = g.player /\ h.vote = w /\ h.inbox = g.inbox
  BY <1>2, <1>4, VoteIs
<1>6. [g EXCEPT !.vote.exec = b] = h
  BY <1>3, <1>4
<1> QED BY <1>1, <1>2, <1>5, <1>6

LEMMA ExecVoted ==
  ASSUME NEW g \in Games, NEW b \in BOOLEAN
  PROVE  Voted(g, [g EXCEPT !.vote.exec = b])
<1>1. PICK h : /\ h = [g EXCEPT !.vote.exec = b] /\ h \in Games /\ Steady(g, h)
               /\ h.player = g.player /\ h.inbox = g.inbox /\ h.vote.kind = g.vote.kind
               /\ h.vote.yes = g.vote.yes /\ h.vote.no = g.vote.no
  <2>1. PICK h : h = [g EXCEPT !.vote.exec = b]
    OBVIOUS
  <2>2. /\ h \in Games /\ Steady(g, h)
        /\ h.player = g.player /\ h.inbox = g.inbox /\ h.vote.kind = g.vote.kind
        /\ h.vote.yes = g.vote.yes /\ h.vote.no = g.vote.no
    BY <2>1, ExecIs
  <2> QED BY <2>1, <2>2
<1>2. \A in : Expect(h.vote, in) = Expect(g.vote, in)
  BY <1>1 DEF Expect
<1>3. Relays(g, h)
  BY <1>1, <1>2 DEF Relays
<1> QED BY <1>1, <1>3, GoesOn

LEMMA PassedIs ==
  ASSUME NEW g \in Games
  PROVE  Voted(g, Tell(g, UpdateVote("PASSED", g.vote.yes, g.vote.no)))
<1>1. PICK v \in Votes : v = g.vote /\ v.yes \in Nat /\ v.no \in Nat
  BY DEF Games, Votes
<1>2. PICK m \in Messages : m = UpdateVote("PASSED", v.yes, v.no)
  BY <1>1, UpdateVoteIs
<1>3. PICK t : /\ t = Tell(g, m) /\ t \in Games /\ Steady(g, t) /\ t.player = g.player
               /\ t.vote = g.vote
               /\ \A c \in Clients : t.inbox[c] =
                    IF g.player[c].there THEN Append(g.inbox[c], m) ELSE g.inbox[c]
  BY <1>2, TellIs
<1>4. Relays(g, t)
  <2>1. SUFFICES ASSUME NEW c \in Clients, t.player[c].there, NEW shows, NEW in,
                        Follows(shows, g.inbox[c], Expect(g.vote, in))
                 PROVE  Follows(shows, t.inbox[c], Expect(t.vote, in))
    BY DEF Relays
  <2>2. PICK e : e = Expect(v, in) /\ Shown(e, m) = e
    BY <1>1, <1>2, ShownIs
  <2>3. g.inbox[c] \in Seq(Messages)
    BY DEF Games
  <2>4. Follows(shows, Append(g.inbox[c], m), Shown(e, m))
    BY <1>1, <2>1, <2>2, <2>3, FollowsAppend
  <2> QED BY <1>1, <1>3, <2>1, <2>2, <2>4
<1>5. Voted(g, t)
  BY <1>3, <1>4, GoesOn
<1> QED BY <1>1, <1>2, <1>3, <1>5

LEMMA ThinsSelf ==
  ASSUME NEW g \in Games
  PROVE  Thins(g, g)
BY DEF Thins, Fair

LEMMA CheckVoteIs ==
  ASSUME NEW g \in Games, NEW due, bound \in Bounds
  PROVE  Voted(g, CheckVote(g, due))
<1> DEFINE Ends(status) == [Tell(g, UpdateVote(status, g.vote.yes, g.vote.no)) EXCEPT !.vote = NoVote]
<1>1. PICK v \in Votes : v = g.vote /\ v.yes \in Nat /\ v.no \in Nat
  BY DEF Games, Votes
<1>2. Voted(g, g)
  BY LikeVoted DEF Like, Same, Fair
<1>3. Voted(g, Ends("ABORTED")) /\ Voted(g, Ends("FAILED"))
  <2>1. ASSUME NEW status \in {"ABORTED", "FAILED"}
        PROVE  Voted(g, Ends(status))
    <3>1. PICK m \in Messages : m = UpdateVote(status, v.yes, v.no)
      BY <1>1, UpdateVoteIs
    <3>2. PICK t : t = Tell(g, m) /\ t \in Games
      BY TellIs
    <3>3. Thins(t, t)
      BY <3>2, ThinsSelf
    <3>4. PICK no : no = NoVote /\ no \in Votes /\ no.kind = "NONE"
      BY NoVoteIs
    <3>5. t = Tell(g, UpdateVote(status, v.yes, v.no))
      BY <3>1, <3>2
    <3>6. Voted(g, [t EXCEPT !.vote = no])
      BY <1>1, <3>2, <3>3, <3>4, <3>5, EndsIs
    <3> QED BY <1>1, <3>4, <3>5, <3>6
  <2> QED BY <2>1
<1>4. Voted(g, [Tell(g, UpdateVote("PASSED", g.vote.yes, g.vote.no)) EXCEPT !.vote.exec = TRUE])
  <2>1. PICK t : t = Tell(g, UpdateVote("PASSED", g.vote.yes, g.vote.no))
    OBVIOUS
  <2>2. Voted(g, t)
    BY <2>1, PassedIs
  <2>3. Voted(t, [t EXCEPT !.vote.exec = TRUE])
    BY <2>2, ExecVoted DEF Voted
  <2> QED BY <2>1, <2>2, <2>3, VotedTrans
<1>5. Voted(g, [ExecuteVote(Tell([g EXCEPT !.vote.exec = FALSE], UpdateVote("RESET", 0, 0)))
                  EXCEPT !.vote = NoVote])
  <2>1. PICK a : a = [g EXCEPT !.vote.exec = FALSE]
    OBVIOUS
  <2>2. Voted(g, a) /\ a \in Games
    BY <2>1, ExecVoted DEF Voted
  <2>3. PICK m \in Messages : m = UpdateVote("RESET", 0, 0)
    BY UpdateVoteIs
  <2>4. PICK t : t = Tell(a, m) /\ t \in Games
    BY <2>2, TellIs
  <2>5. PICK h : h = ExecuteVote(t) /\ Thins(t, h)
    BY <2>4, ExecuteVoteIs
  <2>6. PICK no : no = NoVote /\ no \in Votes /\ no.kind = "NONE"
    BY NoVoteIs
  <2>7. t = Tell(a, UpdateVote("RESET", 0, 0)) /\ h \in Games
    BY <2>3, <2>4, <2>5 DEF Thins
  <2>8. Voted(a, [h EXCEPT !.vote = no])
    BY <2>2, <2>5, <2>6, <2>7, EndsIs
  <2>9. Voted(g, [h EXCEPT !.vote = no])
    BY <2>2, <2>8, VotedTrans
  <2> QED BY <2>1, <2>5, <2>6, <2>7, <2>9
<1> HIDE DEF Ends
<1>6. CheckVote(g, due) \in {g, Ends("ABORTED"), Ends("FAILED"),
        [Tell(g, UpdateVote("PASSED", g.vote.yes, g.vote.no)) EXCEPT !.vote.exec = TRUE],
        [ExecuteVote(Tell([g EXCEPT !.vote.exec = FALSE], UpdateVote("RESET", 0, 0)))
           EXCEPT !.vote = NoVote]}
  BY DEF CheckVote, Ends
<1> QED BY <1>2, <1>3, <1>4, <1>5, <1>6

-----------------------------------------------------------------------------
(* A frame *)

\* What the switch on the state does: a match is begun between enough players.
Advances(g, h) ==
  /\ h \in Games /\ Like(g, h)
  /\ Matches(g) => Matches(h)
  /\ InMatch(h) => InMatch(g) \/ EnoughClientsToPlay(h)

LEMMA GoesAdvances ==
  ASSUME NEW g, NEW h, Goes(g, h)
  PROVE  Advances(g, h)
BY GoesMatches DEF Goes, Steady, Advances, InMatch

LEMMA AdvancesTrans ==
  ASSUME NEW g, NEW h, NEW k, Advances(g, h), Advances(h, k)
  PROVE  Advances(g, k)
<1>1. Like(g, k) /\ (EnoughClientsToPlay(k) <=> EnoughClientsToPlay(h))
  BY LikeTrans, LikePlaying DEF Advances
<1> QED BY <1>1 DEF Advances

LEMMA AltersGoes ==
  ASSUME NEW g, NEW h, Alters(g, h)
  PROVE  Goes(g, h)
BY DEF Alters, Goes

\* To a state of a match from a state of a match, with nothing scheduled.
LEMMA NewStateAdvances ==
  ASSUME NEW g \in Games, NEW news \in {"SUDDENDEATH", "GAMEREVIEW"}, g.state = "GAMEON",
         bound \in Bounds
  PROVE  Advances(g, NewState(g, news))
<1>1. PICK h : /\ h = NewState(g, news) /\ h \in Games /\ Like(g, h) /\ h.state = news
               /\ h.next = IF news = "GAMEREVIEW" THEN "INACTIVE" ELSE g.next
  <2>1. news \in States
    BY DEF States
  <2> QED BY <2>1, NewStateIs
<1>2. InMatch(g) /\ (Matches(g) => Matches(h))
  BY <1>1 DEF InMatch, Matches
<1> QED BY <1>1, <1>2 DEF Advances

LEMMA EndsAfterDelayIs ==
  ASSUME NEW g \in Games, NEW due, bound \in Bounds
  PROVE  Goes(g, EndsAfterDelay(g, due))
<1>1. Goes(g, [g EXCEPT !.limit = TRUE])
  BY LimitIs DEF Goes
<1>2. Goes(g, NewState(g, "GAMEREVIEW"))
  BY NewStateIs DEF Goes, States
<1> QED BY <1>1, <1>2, GoesSelf DEF EndsAfterDelay

LEMMA EvenIs ==
  ASSUME NEW g \in Games
  PROVE  Goes(g, Even(g)) /\ Even(g).state = g.state
<1>1. PICK h : h = SuddenRespawn(g) /\ Alters(g, h) /\ h \in Games /\ h.state = g.state
  BY SuddenRespawnIs DEF Alters, Steady
<1>2. PICK k : k = [h EXCEPT !.limit = FALSE] /\ k \in Games /\ Like(h, k) /\ Steady(h, k)
  BY <1>1, LimitIs
<1>3. Goes(g, h) /\ Goes(h, k)
  BY <1>1, <1>2, AltersGoes DEF Goes
<1>4. Goes(g, k)
  BY <1>3, GoesTrans
<1> QED BY <1>1, <1>2, <1>4 DEF Even, Steady

LEMMA GameOnIs ==
  ASSUME NEW g \in Games, NEW due, g.state = "GAMEON", bound \in Bounds
  PROVE  Advances(g, GameOn(g, due))
<1>1. Advances(g, EndsAfterDelay(g, due)) /\ Advances(g, g)
  BY EndsAfterDelayIs, GoesSelf, GoesAdvances
<1>2. PICK k : k = Even(g) /\ Goes(g, k) /\ k \in Games /\ k.state = "GAMEON"
  BY EvenIs DEF Goes
<1>3. Advances(g, k) /\ Advances(k, NewState(k, "SUDDENDEATH"))
  BY <1>2, GoesAdvances, NewStateAdvances
<1>4. Advances(g, NewState(k, "SUDDENDEATH"))
  BY <1>3, AdvancesTrans
<1>5. Advances(g, NewState(g, "SUDDENDEATH")) /\ Advances(g, NewState(g, "GAMEREVIEW"))
  BY NewStateAdvances
<1>6. GameOn(g, due) \in {EndsAfterDelay(g, due), g, NewState(k, "SUDDENDEATH"),
                          NewState(g, "SUDDENDEATH"), NewState(g, "GAMEREVIEW")}
  BY <1>2 DEF GameOn
<1> QED BY <1>1, <1>4, <1>5, <1>6

LEMMA SuddenDeathIs ==
  ASSUME NEW g \in Games, NEW due, bound \in Bounds
  PROVE  Advances(g, SuddenDeath(g, due))
<1>1. Goes(g, EndsAfterDelay(g, due)) /\ Goes(g, Even(g)) /\ Goes(g, g)
  BY EndsAfterDelayIs, EvenIs, GoesSelf
<1>2. SuddenDeath(g, due) \in {EndsAfterDelay(g, due), Even(g), g}
  BY DEF SuddenDeath
<1> QED BY <1>1, <1>2, GoesAdvances

LEMMA RulesIs ==
  ASSUME NEW g \in Games, NEW due, bound \in Bounds
  PROVE  Advances(g, Rules(g, due))
<1>1. CASE g.state = "GAMEREVIEW" /\ g.next = "INACTIVE"
  <2>1. Rules(g, due) = [g EXCEPT !.next = "NEXTGAME"]
    BY <1>1 DEF Rules
  <2>2. PICK s \in States : s = "NEXTGAME"
    BY DEF States
  <2>3. PICK h : h = [g EXCEPT !.next = s] /\ h \in Games /\ Like(g, h) /\ h.next = s
                 /\ h.state = g.state
    <3>1. PICK h : h = [g EXCEPT !.next = s]
      OBVIOUS
    <3>2. h \in Games /\ Like(g, h) /\ h.next = s /\ h.state = g.state
      BY <3>1, NextIs
    <3> QED BY <3>1, <3>2
  <2>4. Advances(g, h)
    BY <1>1, <2>2, <2>3 DEF Advances, Matches, InMatch
  <2> QED BY <2>1, <2>2, <2>3, <2>4
<1>2. CASE g.state = "NEXTGAME" /\ g.next = "INACTIVE"
  <2>1. Rules(g, due) = PutEveryoneBack(NewState(g, "WARMUP"))
    BY <1>2 DEF Rules
  <2>2. PICK h : h = NewState(g, "WARMUP") /\ h \in Games /\ Like(g, h)
                 /\ h.state = "WARMUP" /\ h.next = g.next
    BY NewStateIs DEF States
  <2>3. Advances(g, h)
    BY <1>2, <2>2 DEF Advances, Matches, InMatch
  <2>4. Goes(h, PutEveryoneBack(h))
    BY <2>2, BackLoop
  <2> QED BY <2>1, <2>2, <2>3, <2>4, GoesAdvances, AdvancesTrans
<1>3. CASE g.state = "WARMUP" /\ AllPlayersReady(g)
  <2>1. Rules(g, due) = [NewState(g, "COUNTDOWN") EXCEPT !.next = "GAMEON"]
    BY <1>3 DEF Rules
  <2>2. PICK h : h = NewState(g, "COUNTDOWN") /\ h \in Games /\ Like(g, h)
                 /\ h.state = "COUNTDOWN"
    BY NewStateIs DEF States
  <2>3. PICK s \in States : s = "GAMEON"
    BY DEF States
  <2>4. PICK k : k = [h EXCEPT !.next = s] /\ k \in Games /\ Like(h, k) /\ k.next = s
                 /\ k.state = h.state
    <3>1. PICK k : k = [h EXCEPT !.next = s]
      OBVIOUS
    <3>2. k \in Games /\ Like(h, k) /\ k.next = s /\ k.state = h.state
      BY <2>2, <3>1, NextIs
    <3> QED BY <3>1, <3>2
  <2>5. Like(g, k)
    BY <2>2, <2>4, LikeTrans
  <2>6. EnoughClientsToPlay(k)
    BY <1>3, <2>5, LikePlaying DEF AllPlayersReady
  <2>7. Matches(k)
    BY <2>2, <2>3, <2>4 DEF Matches
  <2> QED BY <2>1, <2>2, <2>3, <2>4, <2>5, <2>6, <2>7 DEF Advances
<1>4. CASE g.state = "GAMEON"
  <2>1. Rules(g, due) = GameOn(MarkLeaders(g), due)
    BY <1>4 DEF Rules
  <2>2. PICK h : h = MarkLeaders(g) /\ Goes(g, h) /\ h \in Games /\ h.state = "GAMEON"
    BY <1>4, MarkLeadersIs, AltersGoes DEF Alters, Steady
  <2>3. Advances(g, h) /\ Advances(h, GameOn(h, due))
    BY <2>2, GoesAdvances, GameOnIs
  <2> QED BY <2>1, <2>2, <2>3, AdvancesTrans
<1>5. CASE g.state = "SUDDENDEATH"
  <2>1. Rules(g, due) = SuddenDeath(MarkLeaders(g), due)
    BY <1>5 DEF Rules
  <2>2. PICK h : h = MarkLeaders(g) /\ Goes(g, h) /\ h \in Games
    BY MarkLeadersIs, AltersGoes DEF Alters
  <2>3. Advances(g, h) /\ Advances(h, SuddenDeath(h, due))
    BY <2>2, GoesAdvances, SuddenDeathIs
  <2> QED BY <2>1, <2>2, <2>3, AdvancesTrans
<1>6. CASE /\ ~(g.state = "GAMEREVIEW" /\ g.next = "INACTIVE")
           /\ ~(g.state = "NEXTGAME" /\ g.next = "INACTIVE")
           /\ ~(g.state = "WARMUP" /\ AllPlayersReady(g))
           /\ g.state # "GAMEON" /\ g.state # "SUDDENDEATH"
  <2>1. Rules(g, due) = g
    BY <1>6 DEF Rules
  <2> QED BY <2>1, GoesSelf, GoesAdvances
<1> QED BY <1>1, <1>2, <1>3, <1>4, <1>5, <1>6

LEMMA NextStateIs ==
  ASSUME NEW g \in Games, NEW due, bound \in Bounds, Matches(g)
  PROVE  Advances(g, NextState(g, due))
<1>1. CASE ~(g.next # "INACTIVE" /\ due.next)
  BY <1>1, GoesSelf, GoesAdvances DEF NextState
<1>2. CASE g.next # "INACTIVE" /\ due.next
  <2>1. \/ g.state = "COUNTDOWN" /\ g.next = "GAMEON"
        \/ g.state = "GAMEREVIEW" /\ g.next = "NEXTGAME"
    BY <1>2 DEF Matches
  <2>2. PICK h : h = NewState(g, g.next) /\ h \in Games /\ Like(g, h) /\ h.state = g.next
    <3>1. g.next \in States
      BY DEF Games
    <3> QED BY <3>1, NewStateIs
  <2>3. PICK s \in States : s = "INACTIVE"
    BY DEF States
  <2>4. PICK k : k = [h EXCEPT !.next = s] /\ k \in Games /\ Like(h, k) /\ k.next = s
                 /\ k.state = h.state
    <3>1. PICK k : k = [h EXCEPT !.next = s]
      OBVIOUS
    <3>2. k \in Games /\ Like(h, k) /\ k.next = s /\ k.state = h.state
      BY <2>2, <3>1, NextIs
    <3> QED BY <3>1, <3>2
  <2>5. NextState(g, due) = k
    BY <1>2, <2>2, <2>3, <2>4 DEF NextState
  <2>6. Like(g, k)
    BY <2>2, <2>4, LikeTrans
  <2>7. Matches(k) /\ (InMatch(k) => InMatch(g))
    BY <2>1, <2>2, <2>3, <2>4 DEF Matches, InMatch
  <2> QED BY <2>4, <2>5, <2>6, <2>7 DEF Advances
<1> QED BY <1>1, <1>2

LEMMA ActivatedIs ==
  ASSUME NEW g \in Games, bound \in Bounds
  PROVE  Voted(g, Activated(g))
<1>1. CASE g.state = "INACTIVE"
  <2>1. PICK h : h = NewState(g, "WARMUP") /\ h \in Games /\ Like(g, h)
                 /\ h.state = "WARMUP" /\ h.next = g.next
    BY NewStateIs DEF States
  <2>2. (Matches(g) => Matches(h)) /\ Fair(g, h)
    BY <1>1, <2>1 DEF Matches, Fair, InMatch
  <2>3. Voted(g, h)
    BY <2>1, <2>2, LikeVoted
  <2> QED BY <1>1, <2>1, <2>3 DEF Activated
<1>2. CASE g.state # "INACTIVE"
  <2>1. Like(g, g) /\ Fair(g, g)
    BY DEF Like, Same, Fair
  <2>2. Voted(g, g)
    BY <2>1, LikeVoted
  <2> QED BY <1>2, <2>2 DEF Activated
<1> QED BY <1>1, <1>2

LEMMA FrameIs ==
  ASSUME NEW g \in Games, NEW due, bound \in Bounds, Matches(g)
  PROVE  /\ Frame(g, due) \in Games
         /\ Matches(Frame(g, due))
         /\ InMatch(Frame(g, due)) /\ (InMatch(g) => Fine(g))
              => EnoughClientsToPlay(Frame(g, due))
         /\ Tallied(g, Frame(g, due))
<1>1. PICK a : a = Activated(g) /\ Voted(g, a) /\ a \in Games
  BY ActivatedIs DEF Voted
<1>2. PICK v : v = CheckVote(a, due) /\ Voted(a, v)
  BY <1>1, CheckVoteIs
<1>3. Voted(g, v)
  BY <1>1, <1>2, VotedTrans
<1>4. v \in Games /\ Matches(v) /\ Fair(g, v) /\ Tallied(g, v)
  BY <1>3 DEF Voted
<1>5. PICK r : /\ r = CheckRespawns(v) /\ Goes(v, r)
               /\ InMatch(r) => (Fine(v) => EnoughClientsToPlay(r))
  <2>1. \A c \in Clients : c # None
    BY MultiplayerGameAssumption DEF Clients, None
  <2>2. PICK r : r = CheckRespawnsAnd(v, None)
    OBVIOUS
  <2>3. Goes(v, r) /\ (InMatch(r) => (Fine(v) => EnoughClientsToPlay(r)))
    BY <1>4, <2>1, <2>2, CheckRespawnsIs
  <2> QED BY <2>2, <2>3 DEF CheckRespawns
<1>6. Matches(r) /\ r \in Games /\ Like(v, r)
  BY <1>4, <1>5, GoesMatches DEF Goes
<1>7. PICK n : n = NextState(r, due) /\ Advances(r, n) /\ n \in Games
  BY <1>6, NextStateIs DEF Advances
<1>8. PICK h : h = Rules(n, due) /\ Advances(n, h)
  BY <1>7, RulesIs
<1>9. Advances(r, h)
  BY <1>7, <1>8, AdvancesTrans
<1>10. Frame(g, due) = h
  BY <1>1, <1>2, <1>5, <1>7, <1>8 DEF Frame
<1>11. h \in Games /\ Matches(h) /\ Like(r, h)
  BY <1>6, <1>9 DEF Advances
<1>12. ASSUME InMatch(h), InMatch(g) => Fine(g)
       PROVE  EnoughClientsToPlay(h)
  <2>1. EnoughClientsToPlay(h) <=> EnoughClientsToPlay(r)
    BY <1>11, LikePlaying
  <2>2. CASE InMatch(r)
    <3>1. InMatch(v)
      BY <1>5, <2>2 DEF Goes, Steady, InMatch
    <3> QED BY <1>4, <1>5, <1>12, <2>1, <2>2, <3>1 DEF Fair
  <2>3. CASE ~InMatch(r)
    BY <1>9, <1>12, <2>3 DEF Advances
  <2> QED BY <2>2, <2>3
<1>13. Tallied(g, h)
  <2>1. Like(v, h)
    BY <1>6, <1>11, LikeTrans
  <2>2. Tallied(v, h)
    BY <2>1, LikeTallied
  <2> QED BY <1>4, <2>2, TalliedTrans
<1> QED BY <1>10, <1>11, <1>12, <1>13

-----------------------------------------------------------------------------
(* The invariant *)

Histories ==
  [joins : Nat, leaves : Nat, infos : Nat, deaths : Nat, votes : Nat,
   person : [Clients -> Nat], died : [Clients -> Nat], sits : BOOLEAN,
   kicked : BOOLEAN, electorate : SUBSET Nat, cast : SUBSET Nat]

Types ==
  mp \in Games /\ bound \in Bounds /\ client \in [Clients -> Shows] /\ hist \in Histories

\* There are men enough for a match in progress, those included who are about
\* to be taken out of it: CheckRespawns looks then.
Manned == InMatch(mp) /\ ~hist.sits => Fine(mp)

\* Whoever joins is someone else.
Known ==
  /\ \A c \in Clients : mp.player[c].there => hist.person[c] \in 1 .. hist.joins
  /\ \A c, d \in Clients :
       mp.player[c].there /\ mp.player[d].there /\ hist.person[c] = hist.person[d] => c = d

\* What a player's state says of the vote is what that person did in it.
Honest(p, person) ==
  /\ p.vote = "WAIT" => person \in hist.electorate /\ person \notin hist.cast
  /\ p.vote \in {"YES", "NO"} => person \in hist.cast
  /\ p.vote = "NONE" => person \notin hist.electorate

Counted ==
  mp.vote.kind # "NONE" =>
    /\ hist.cast \subseteq hist.electorate /\ hist.electorate \subseteq 1 .. hist.joins
    /\ mp.vote.yes + mp.vote.no = Cardinality(hist.cast)
    /\ \A c \in Clients : mp.player[c].there => Honest(mp.player[c], hist.person[c])

\* What is under way to a client makes it show the vote as it is.
Told ==
  /\ Quiet(mp)
  /\ \A c \in Clients : mp.player[c].there =>
       Follows(client[c], mp.inbox[c], Expect(mp.vote, hist.person[c] \in hist.electorate))

IInv == Types /\ Matches(mp) /\ Manned /\ Known /\ Counted /\ Told

LEMMA ShownTyped ==
  ASSUME NEW shows \in Shows, NEW m \in Messages
  PROVE  Shown(shows, m) \in Shows
<1>1. PICK y \in Nat, n \in Nat : y = m.yes /\ n = m.no
  BY DEF Messages
<1>2. [shown |-> TRUE, yes |-> y, no |-> n] \in Shows
      /\ [shows EXCEPT !.yes = y, !.no = n] \in Shows /\ NotShown \in Shows
  BY DEF Shows, NotShown
<1> QED BY <1>1, <1>2 DEF Shown

LEMMA ThinsTallied ==
  ASSUME NEW g, NEW h, Thins(g, h)
  PROVE  Tallied(g, h)
BY DEF Thins, Tallied, Quiet, Relays

\* A step that leaves the vote and who is there, or thins them out.
LEMMA TalliedKeeps ==
  ASSUME IInv, Tallied(mp, mp'), hist'.person = hist.person, hist'.joins = hist.joins,
         client' = client,
         mp'.vote.kind # "NONE" => /\ hist'.electorate = hist.electorate
                                   /\ hist'.cast = hist.cast
  PROVE  Known' /\ Counted' /\ Told'
<1>1. /\ \A c \in Clients : mp'.player[c].there =>
           mp.player[c].there /\ mp'.player[c].vote = mp.player[c].vote
      /\ mp'.vote.kind # "NONE" =>
           mp.vote.kind # "NONE" /\ mp'.vote.yes = mp.vote.yes /\ mp'.vote.no = mp.vote.no
      /\ Quiet(mp) => Quiet(mp')
      /\ Relays(mp, mp')
  BY DEF Tallied
<1>2. Known'
  BY <1>1 DEF IInv, Known
<1>3. Counted'
  <2>1. SUFFICES ASSUME mp'.vote.kind # "NONE"
                 PROVE  Counted'
    BY DEF Counted
  <2>2. ASSUME NEW c \in Clients, mp'.player[c].there
        PROVE  Honest(mp.player[c], hist.person[c])'
    <3>1. mp.player[c].there /\ mp'.player[c].vote = mp.player[c].vote /\ mp.vote.kind # "NONE"
      BY <1>1, <2>1, <2>2
    <3>2. Honest(mp.player[c], hist.person[c])
      BY <3>1 DEF IInv, Counted
    <3> QED BY <2>1, <3>1, <3>2 DEF Honest
  <2>3. hist'.cast \subseteq hist'.electorate /\ hist'.electorate \subseteq 1 .. hist'.joins
        /\ mp'.vote.yes + mp'.vote.no = Cardinality(hist'.cast)
    BY <1>1, <2>1 DEF IInv, Counted
  <2> QED BY <2>2, <2>3 DEF Counted
<1>4. Told'
  <2>1. Quiet(mp)'
    BY <1>1 DEF IInv, Told
  <2>2. ASSUME NEW c \in Clients, mp'.player[c].there
        PROVE  Follows(client'[c], mp'.inbox[c],
                       Expect(mp'.vote, hist'.person[c] \in hist'.electorate))
    <3>1. Follows(client[c], mp.inbox[c], Expect(mp.vote, hist.person[c] \in hist.electorate))
      BY <1>1, <2>2 DEF IInv, Told
    <3>2. Follows(client[c], mp'.inbox[c], Expect(mp'.vote, hist.person[c] \in hist.electorate))
      BY <1>1, <2>2, <3>1 DEF Relays
    <3>3. Expect(mp'.vote, hist.person[c] \in hist.electorate)
            = Expect(mp'.vote, hist'.person[c] \in hist'.electorate)
      BY DEF Expect
    <3> QED BY <3>2, <3>3
  <2> QED BY <2>1, <2>2 DEF Told
<1> QED BY <1>2, <1>3, <1>4

LEMMA RunKeeps ==
  ASSUME IInv, Run
  PROVE  IInv'
<1>1. PICK due : RunDue(due)
  BY DEF Run
<1>2. mp' = Frame(mp, due) /\ client' = client /\ bound' = bound
  BY <1>1 DEF RunDue
<1>3. /\ hist'.person = hist.person /\ hist'.joins = hist.joins
      /\ hist'.sits = (hist.sits /\ InMatch(mp'))
      /\ hist'.electorate = IF mp'.vote.kind = "NONE" THEN {} ELSE hist.electorate
      /\ hist'.cast = IF mp'.vote.kind = "NONE" THEN {} ELSE hist.cast
  BY <1>1 DEF RunDue, IInv, Types, Histories
<1>4. /\ mp' \in Games /\ Matches(mp') /\ Tallied(mp, mp')
      /\ InMatch(mp') /\ (InMatch(mp) => Fine(mp)) => EnoughClientsToPlay(mp')
  BY <1>2, FrameIs DEF IInv, Types
<1>5. hist' \in Histories
  <2>1. PICK died : died = [c \in Clients |-> Lost(mp', c)]
    OBVIOUS
  <2>2. died \in [Clients -> Nat]
    <3>1. \A c \in Clients : hist.died[c] \in Nat
      BY DEF IInv, Types, Histories
    <3>2. FragLimit \in Nat
      BY MultiplayerGameAssumption DEF FragLimit, IInv, Types
    <3>3. \A c \in Clients : Lost(mp', c) \in Nat
      BY <3>1, <3>2 DEF Lost
    <3> QED BY <2>1, <3>3
  <2>3. PICK h : h = hist /\ h \in Histories
    BY DEF IInv, Types
  <2>4. PICK sits \in BOOLEAN : sits = (hist.sits /\ InMatch(mp'))
    <3>1. (hist.sits /\ InMatch(mp')) \in BOOLEAN
      OBVIOUS
    <3> QED BY <3>1
  <2>5. PICK electorate \in SUBSET Nat, cast \in SUBSET Nat :
             /\ electorate = IF mp'.vote.kind = "NONE" THEN {} ELSE hist.electorate
             /\ cast = IF mp'.vote.kind = "NONE" THEN {} ELSE hist.cast
    BY <2>3 DEF Histories
  <2>6. PICK kicked \in BOOLEAN : kicked = (hist.kicked \/ There(mp') # There(mp))
    <3>1. (hist.kicked \/ There(mp') # There(mp)) \in BOOLEAN
      OBVIOUS
    <3> QED BY <3>1
  <2>7. hist' = [h EXCEPT !.died = died, !.sits = sits, !.kicked = kicked,
                          !.electorate = electorate, !.cast = cast]
    BY <1>1, <2>1, <2>3, <2>4, <2>5, <2>6 DEF RunDue
  <2> QED BY <2>2, <2>3, <2>7 DEF Histories
<1>6. Known' /\ Counted' /\ Told'
  BY <1>2, <1>3, <1>4, TalliedKeeps
<1>7. Manned'
  <2>1. SUFFICES ASSUME InMatch(mp'), ~hist'.sits
                 PROVE  Fine(mp')
    BY DEF Manned
  <2>2. ~hist.sits
    BY <1>3, <2>1
  <2>3. EnoughClientsToPlay(mp')
    BY <1>4, <2>1, <2>2 DEF IInv, Manned
  <2> QED BY <2>3, FineOfEnough
<1>8. Types' /\ Matches(mp)'
  BY <1>2, <1>4, <1>5 DEF IInv, Types
<1> QED BY <1>6, <1>7, <1>8 DEF IInv

\* What a player does leaves who is there, and the vote.
Minds(g, h) ==
  /\ h \in Games /\ Steady(g, h) /\ h.vote = g.vote /\ h.inbox = g.inbox
  /\ \A c \in Clients :
       h.player[c].there = g.player[c].there /\ h.player[c].vote = g.player[c].vote

\* And, mostly, who is in the match.
Stays(p, q) == q.there = p.there /\ q.want = p.want /\ q.ingame = p.ingame /\ q.spec = p.spec

LEMMA StaysFine ==
  ASSUME NEW g, NEW h, Steady(g, h),
         \A c \in Clients : Stays(g.player[c], h.player[c])
  PROVE  (InMatch(h) <=> InMatch(g)) /\ (Fine(h) <=> Fine(g))
<1>1. There(h) = There(g)
  BY DEF There, Stays
<1>2. \A c \in Clients :
        /\ CanPlay(h.player[c]) <=> CanPlay(g.player[c])
        /\ (h.player[c].want /\ ~h.player[c].spec) <=> (g.player[c].want /\ ~g.player[c].spec)
  BY DEF CanPlay, Stays
<1>3. Men(h) = Men(g)
  BY <1>1, <1>2 DEF Men, There
<1> QED BY <1>3 DEF Fine, InMatch, Steady

LEMMA MindsKeeps ==
  ASSUME IInv, Minds(mp, mp'), hist'.person = hist.person, hist'.joins = hist.joins,
         hist'.electorate = hist.electorate, hist'.cast = hist.cast, client' = client
  PROVE  Matches(mp)' /\ Known' /\ Counted' /\ Told'
<1>1. Tallied(mp, mp')
  BY DEF Minds, Tallied, Quiet, Relays
<1>2. Matches(mp)'
  BY DEF IInv, Minds, Steady, Matches
<1> QED BY <1>1, <1>2, TalliedKeeps

\* One player is given a state.
LEMMA PlayerIs ==
  ASSUME NEW g \in Games, NEW c \in Clients, NEW p \in Players,
         p.there = g.player[c].there, p.vote = g.player[c].vote
  PROVE  /\ Minds(g, With(g, c, p)) /\ With(g, c, p).player[c] = p
         /\ \A d \in Clients : d # c => With(g, c, p).player[d] = g.player[d]
<1>1. PICK h : h = With(g, c, p) /\ h \in Games /\ Steady(g, h) /\ h.vote = g.vote
               /\ h.inbox = g.inbox /\ h.player[c] = p
               /\ \A d \in Clients : d # c => h.player[d] = g.player[d]
  BY WithIs
<1> QED BY <1>1 DEF Minds

\* A player who does nothing about being in the match.
Acts(g, h) == Minds(g, h) /\ \A c \in Clients : Stays(g.player[c], h.player[c])

LEMMA PlayerActs ==
  ASSUME NEW g \in Games, NEW c \in Clients, NEW p \in Players,
         Stays(g.player[c], p), p.vote = g.player[c].vote
  PROVE  Acts(g, With(g, c, p))
<1>1. PICK h : h = With(g, c, p) /\ Minds(g, h) /\ h.player[c] = p
               /\ \A d \in Clients : d # c => h.player[d] = g.player[d]
  BY PlayerIs DEF Stays
<1> QED BY <1>1 DEF Acts, Stays

LEMMA ActsTrans ==
  ASSUME NEW g, NEW h, NEW k, Acts(g, h), Acts(h, k)
  PROVE  Acts(g, k)
BY DEF Acts, Minds, Stays, Steady

LEMMA ActsFine ==
  ASSUME NEW g, NEW h, Acts(g, h)
  PROVE  (InMatch(h) <=> InMatch(g)) /\ (Fine(h) <=> Fine(g)) /\ h \in Games
BY StaysFine DEF Acts, Minds

LEMMA EvaluateControlsKeeps ==
  ASSUME IInv, NEW c \in Clients, EvaluateControls(c)
  PROVE  IInv'
<1>1. mp \in Games /\ client' = client /\ hist' = hist /\ bound' = bound
  BY DEF IInv, Types, EvaluateControls
<1>2. PICK o : o = mp.player[c] /\ o \in Players
  BY <1>1 DEF Games
<1>3. PICK p : p = [o EXCEPT !.force = TRUE] /\ p \in Players /\ Stays(o, p) /\ p.vote = o.vote
  <2>1. /\ [o EXCEPT !.force = TRUE] \in Players /\ Stays(o, [o EXCEPT !.force = TRUE])
        /\ [o EXCEPT !.force = TRUE].vote = o.vote
    BY <1>2 DEF Players, Stays
  <2> QED BY <2>1
<1>4. mp' = With(mp, c, p)
  BY <1>2, <1>3 DEF EvaluateControls, With
<1>5. Acts(mp, mp')
  BY <1>1, <1>2, <1>3, <1>4, PlayerActs
<1>6. Matches(mp)' /\ Known' /\ Counted' /\ Told'
  BY <1>1, <1>5, MindsKeeps DEF Acts
<1>7. Manned'
  BY <1>1, <1>5, ActsFine DEF IInv, Manned
<1>8. Types'
  BY <1>1, <1>5, ActsFine DEF IInv, Types
<1> QED BY <1>6, <1>7, <1>8 DEF IInv

LEMMA ForceReadyKeeps ==
  ASSUME IInv, ForceReady
  PROVE  IInv'
<1>1. mp \in Games /\ client' = client /\ hist' = hist /\ bound' = bound
  BY DEF IInv, Types, ForceReady
<1> DEFINE new == [c \in Clients |-> IF c \in There(mp) /\ ~IsReady(mp.player[c])
                     THEN [mp.player[c] EXCEPT !.forced = TRUE] ELSE mp.player[c]]
<1>2. ASSUME NEW c \in Clients
      PROVE  /\ new[c] \in Players /\ Stays(mp.player[c], new[c])
             /\ new[c].vote = mp.player[c].vote
  <2>1. PICK p : p = mp.player[c] /\ p \in Players
    BY <1>1 DEF Games
  <2>2. PICK q : q = [p EXCEPT !.forced = TRUE] /\ q \in Players /\ Stays(p, q) /\ q.vote = p.vote
    <3>1. /\ [p EXCEPT !.forced = TRUE] \in Players /\ Stays(p, [p EXCEPT !.forced = TRUE])
          /\ [p EXCEPT !.forced = TRUE].vote = p.vote
      BY <2>1 DEF Players, Stays
    <3> QED BY <3>1
  <2>3. new[c] \in {p, q}
    BY <2>1, <2>2
  <2> QED BY <2>1, <2>2, <2>3 DEF Stays
<1>3. mp' = [mp EXCEPT !.player = new]
  BY <1>1 DEF ForceReady, Games
<1>4. new \in [Clients -> Players]
  BY <1>2
<1> HIDE DEF new
<1>5. mp' \in Games /\ mp'.player = new /\ Steady(mp, mp') /\ mp'.vote = mp.vote
      /\ mp'.inbox = mp.inbox
  BY <1>1, <1>3, <1>4 DEF Games, Steady
<1>6. Acts(mp, mp')
  BY <1>2, <1>5 DEF Acts, Minds, Stays
<1>7. Matches(mp)' /\ Known' /\ Counted' /\ Told'
  BY <1>1, <1>6, MindsKeeps DEF Acts
<1>8. Manned'
  BY <1>1, <1>6, ActsFine DEF IInv, Manned
<1>9. Types'
  BY <1>1, <1>5 DEF IInv, Types
<1> QED BY <1>7, <1>8, <1>9 DEF IInv

LEMMA DieKeeps ==
  ASSUME IInv, NEW c \in Clients, NEW killer \in There(mp) \cup {None}, Die(c, killer)
  PROVE  IInv'
<1>1. mp \in Games /\ client' = client /\ bound' = bound
  BY DEF IInv, Types, Die
<1>2. PICK g : g = With(mp, c, [mp.player[c] EXCEPT !.dead = TRUE]) /\ Acts(mp, g)
  <2>1. PICK o : o = mp.player[c] /\ o \in Players
    BY <1>1 DEF Games
  <2>2. PICK p : p = [o EXCEPT !.dead = TRUE] /\ p \in Players /\ Stays(o, p) /\ p.vote = o.vote
    <3>1. /\ [o EXCEPT !.dead = TRUE] \in Players /\ Stays(o, [o EXCEPT !.dead = TRUE])
          /\ [o EXCEPT !.dead = TRUE].vote = o.vote
      BY <2>1 DEF Players, Stays
    <3> QED BY <3>1
  <2>3. PICK g : g = With(mp, c, p)
    OBVIOUS
  <2>4. Acts(mp, g)
    BY <1>1, <2>1, <2>2, <2>3, PlayerActs
  <2> QED BY <2>1, <2>2, <2>3, <2>4
<1>3. ASSUME NEW d \in Clients, NEW n \in {-1, 1}
      PROVE  Acts(g, [g EXCEPT !.player[d].frags = g.player[d].frags + n])
  <2>1. PICK o : o = g.player[d] /\ o \in Players /\ g \in Games
    BY <1>2 DEF Games, Acts, Minds
  <2>2. PICK m \in Int : m = o.frags + n
    BY <2>1 DEF Players
  <2>3. PICK p : p = [o EXCEPT !.frags = m] /\ p \in Players /\ Stays(o, p) /\ p.vote = o.vote
    <3>1. /\ [o EXCEPT !.frags = m] \in Players /\ Stays(o, [o EXCEPT !.frags = m])
          /\ [o EXCEPT !.frags = m].vote = o.vote
      BY <2>1 DEF Players, Stays
    <3> QED BY <3>1
  <2>4. [g EXCEPT !.player[d].frags = g.player[d].frags + n] = With(g, d, p)
    BY <2>1, <2>2, <2>3 DEF With
  <2>5. Acts(g, With(g, d, p))
    BY <2>1, <2>3, PlayerActs
  <2> QED BY <2>4, <2>5
<1>4. PICK d \in Clients, k \in {-1, 1} :
        mp' = [g EXCEPT !.player[d].frags = g.player[d].frags + k]
  <2>0. killer = None \/ killer \in Clients
    BY DEF There
  <2>1. CASE LastMan \/ killer \in {c, None}
    <3>1. mp' = [g EXCEPT !.player[c].frags = g.player[c].frags - 1]
      BY <1>2, <2>1 DEF Die
    <3>2. PICK o \in Players : o = g.player[c]
      BY <1>2 DEF Games, Acts, Minds
    <3>3. g.player[c].frags - 1 = g.player[c].frags + (-1)
      BY <3>2 DEF Players
    <3> QED BY <3>1, <3>3
  <2>2. CASE ~(LastMan \/ killer \in {c, None})
    <3>1. mp' = [g EXCEPT !.player[killer].frags = g.player[killer].frags + 1]
      BY <1>2, <2>2 DEF Die
    <3> QED BY <2>0, <2>2, <3>1
  <2> QED BY <2>1, <2>2
<1>5. Acts(g, mp')
  BY <1>3, <1>4
<1>6. Acts(mp, mp')
  BY <1>2, <1>5, ActsTrans
<1>7. /\ hist' \in Histories /\ hist'.person = hist.person /\ hist'.joins = hist.joins
      /\ hist'.electorate = hist.electorate /\ hist'.cast = hist.cast /\ hist'.sits = hist.sits
  <2>1. PICK h \in Histories : h = hist
    BY DEF IInv, Types
  <2>2. PICK n \in Nat, m \in Nat : n = h.deaths + 1 /\ m = h.died[c] + 1
    BY <2>1 DEF Histories
  <2>3. hist' = [h EXCEPT !.deaths = n, !.died[c] = m]
    BY <2>1, <2>2 DEF Die
  <2> QED BY <2>1, <2>3 DEF Histories
<1>8. Matches(mp)' /\ Known' /\ Counted' /\ Told'
  BY <1>1, <1>6, <1>7, MindsKeeps DEF Acts
<1>9. Manned'
  BY <1>6, <1>7, ActsFine DEF IInv, Manned
<1>10. Types'
  BY <1>1, <1>6, <1>7, ActsFine DEF IInv, Types
<1> QED BY <1>8, <1>9, <1>10 DEF IInv

LEMMA LeaveKeeps ==
  ASSUME IInv, NEW c \in Clients, Leave(c)
  PROVE  IInv'
<1>1. mp \in Games /\ client' = client /\ bound' = bound
  BY DEF IInv, Types, Leave
<1>2. Thins(mp, mp')
  <2>1. PICK h : h = ServerClientDisconnect(mp, c)
    OBVIOUS
  <2>2. Thins(mp, h)
    BY <1>1, <2>1, DisconnectIs DEF IInv, Types
  <2> QED BY <2>1, <2>2 DEF Leave
<1>3. /\ hist' \in Histories /\ hist'.person = hist.person /\ hist'.joins = hist.joins
      /\ hist'.electorate = hist.electorate /\ hist'.cast = hist.cast /\ hist'.sits = hist.sits
  <2>1. PICK h \in Histories : h = hist
    BY DEF IInv, Types
  <2>2. PICK n \in Nat : n = h.leaves + 1
    BY <2>1 DEF Histories
  <2>3. hist' = [h EXCEPT !.leaves = n, !.died[c] = 0]
    BY <2>1, <2>2 DEF Leave
  <2> QED BY <2>1, <2>3 DEF Histories
<1>4. Tallied(mp, mp')
  BY <1>2, ThinsTallied
<1>5. Known' /\ Counted' /\ Told'
  BY <1>1, <1>3, <1>4, TalliedKeeps
<1>6. Manned' /\ Matches(mp)' /\ Types'
  BY <1>1, <1>2, <1>3 DEF Thins, Fair, IInv, Manned, Types
<1> QED BY <1>5, <1>6 DEF IInv

LEMMA JoinKeeps ==
  ASSUME IInv, NEW c \in Clients, Join(c)
  PROVE  IInv'
<1>1. /\ mp \in Games /\ bound' = bound /\ ~mp.player[c].there
      /\ client' = [client EXCEPT ![c] = NotShown] /\ client \in [Clients -> Shows]
  BY DEF IInv, Types, Join
<1>2. PICK p : p = [NoPlayer EXCEPT !.there = TRUE, !.spec = TRUE, !.force = TRUE]
               /\ p \in Players /\ p.there /\ ~p.want /\ ~p.ingame /\ p.vote = "NONE"
  <2>1. PICK none : none = NoPlayer /\ none \in Players /\ ~none.want /\ ~none.ingame
                    /\ none.vote = "NONE"
    <3>1. /\ NoPlayer \in Players /\ ~NoPlayer.want /\ ~NoPlayer.ingame
          /\ NoPlayer.vote = "NONE"
      BY DEF NoPlayer, Players, Ballots
    <3> QED BY <3>1
  <2> DEFINE p == [none EXCEPT !.there = TRUE, !.spec = TRUE, !.force = TRUE]
  <2>2. p \in Players /\ p.there /\ ~p.want /\ ~p.ingame /\ p.vote = "NONE"
    BY <2>1 DEF Players
  <2> QED BY <2>1, <2>2
<1>3. /\ mp' \in Games /\ Steady(mp, mp') /\ mp'.vote = mp.vote /\ mp'.inbox = mp.inbox
      /\ mp'.player[c] = p
      /\ \A d \in Clients : d # c => mp'.player[d] = mp.player[d]
  <2>1. mp' = With(mp, c, p)
    BY <1>2 DEF Join
  <2> QED BY <1>1, <1>2, <2>1, WithIs
<1>4. PICK j \in Nat : j = hist.joins
  BY DEF IInv, Types, Histories
<1>5. /\ hist' \in Histories /\ hist'.joins = j + 1 /\ hist'.person[c] = j + 1
      /\ \A d \in Clients : d # c => hist'.person[d] = hist.person[d]
      /\ hist'.electorate = hist.electorate /\ hist'.cast = hist.cast /\ hist'.sits = hist.sits
  <2>1. PICK h \in Histories : h = hist
    BY DEF IInv, Types
  <2>2. PICK n \in Nat : n = j + 1
    OBVIOUS
  <2>3. hist' = [h EXCEPT !.joins = n, !.person[c] = n]
    BY <1>4, <2>1, <2>2 DEF Join
  <2> QED BY <2>1, <2>2, <2>3 DEF Histories
<1>6. Known'
  <2>1. \A d \in Clients : d # c /\ mp'.player[d].there =>
          mp.player[d].there /\ hist'.person[d] = hist.person[d] /\ hist.person[d] \in 1 .. j
    BY <1>3, <1>4, <1>5 DEF IInv, Known
  <2>2. ASSUME NEW d \in Clients, mp'.player[d].there
        PROVE  hist'.person[d] \in 1 .. hist'.joins
    <3>1. CASE d = c
      BY <1>5, <3>1
    <3>2. CASE d # c
      BY <1>5, <2>1, <2>2, <3>2
    <3> QED BY <3>1, <3>2
  <2>3. ASSUME NEW d \in Clients, NEW e \in Clients, mp'.player[d].there,
               mp'.player[e].there, hist'.person[d] = hist'.person[e]
        PROVE  d = e
    <3>1. CASE d # c /\ e # c
      <4>1. /\ mp.player[d].there /\ mp.player[e].there
            /\ hist.person[d] = hist.person[e]
        BY <2>1, <2>3, <3>1
      <4> QED BY <4>1 DEF IInv, Known
    <3>2. ASSUME NEW i \in Clients, i # c, mp'.player[i].there
          PROVE  hist'.person[i] # hist'.person[c]
      BY <1>5, <2>1, <3>2
    <3> QED BY <2>3, <3>1, <3>2
  <2> QED BY <2>2, <2>3 DEF Known
<1>7. Counted'
  <2>1. SUFFICES ASSUME mp.vote.kind # "NONE"
                 PROVE  Counted'
    BY <1>3 DEF Counted
  <2>2. /\ hist.cast \subseteq hist.electorate /\ hist.electorate \subseteq 1 .. j
        /\ mp.vote.yes + mp.vote.no = Cardinality(hist.cast)
        /\ \A d \in Clients : mp.player[d].there => Honest(mp.player[d], hist.person[d])
    BY <1>4, <2>1 DEF IInv, Counted
  <2>3. hist'.electorate \subseteq 1 .. hist'.joins
    BY <1>5, <2>2
  <2>4. ASSUME NEW d \in Clients, mp'.player[d].there
        PROVE  Honest(mp.player[d], hist.person[d])'
    <3>1. CASE d = c
      <4>1. j + 1 \notin hist.electorate
        BY <2>2
      <4> QED BY <1>2, <1>3, <1>5, <3>1, <4>1 DEF Honest
    <3>2. CASE d # c
      <4>1. mp'.player[d] = mp.player[d] /\ hist'.person[d] = hist.person[d]
        BY <1>3, <1>5, <3>2
      <4>2. Honest(mp.player[d], hist.person[d])
        BY <2>2, <2>4, <4>1
      <4> QED BY <1>5, <4>1, <4>2 DEF Honest
    <3> QED BY <3>1, <3>2
  <2>5. hist'.cast \subseteq hist'.electorate
        /\ mp'.vote.yes + mp'.vote.no = Cardinality(hist'.cast)
    BY <1>3, <1>5, <2>2
  <2> QED BY <2>3, <2>4, <2>5 DEF Counted
<1>8. Told'
  <2>1. Quiet(mp)'
    BY <1>2, <1>3 DEF IInv, Told, Quiet
  <2>2. ASSUME NEW d \in Clients, mp'.player[d].there
        PROVE  Follows(client[d], mp.inbox[d],
                       Expect(mp.vote, hist.person[d] \in hist.electorate))'
    <3>1. CASE d = c
      <4>1. mp.inbox[c] = <<>>
        BY <1>1 DEF IInv, Told, Quiet
      <4>2. Expect(mp.vote, j + 1 \in hist.electorate) = NotShown
        <5>1. mp.vote.kind # "NONE" => hist.electorate \subseteq 1 .. j
          BY <1>4 DEF IInv, Counted
        <5>2. mp.vote.kind # "NONE" => j + 1 \notin hist.electorate
          BY <5>1
        <5> QED BY <5>2 DEF Expect
      <4>3. Follows(NotShown, <<>>, NotShown)
        BY FollowsNone
      <4>4. client'[c] = NotShown
        BY <1>1
      <4> QED BY <1>3, <1>5, <3>1, <4>1, <4>2, <4>3, <4>4
    <3>2. CASE d # c
      <4>1. /\ mp'.player[d] = mp.player[d] /\ hist'.person[d] = hist.person[d]
            /\ client'[d] = client[d] /\ mp'.inbox[d] = mp.inbox[d] /\ mp'.vote = mp.vote
        BY <1>1, <1>3, <1>5, <3>2
      <4>2. Follows(client[d], mp.inbox[d],
                    Expect(mp.vote, hist.person[d] \in hist.electorate))
        BY <2>2, <4>1 DEF IInv, Told
      <4> QED BY <1>5, <4>1, <4>2
    <3> QED BY <3>1, <3>2
  <2> QED BY <2>1, <2>2 DEF Told
<1>9. Manned'
  <2>1. Men(mp') = Men(mp)
    <3>1. \A d \in Clients :
            /\ d \in Men(mp') <=> d \in Men(mp)
      BY <1>1, <1>2, <1>3 DEF Men, There, CanPlay
    <3>2. Men(mp') \subseteq Clients /\ Men(mp) \subseteq Clients
      BY DEF Men, There
    <3> QED BY <3>1, <3>2
  <2> QED BY <1>3, <1>5, <2>1 DEF IInv, Manned, Fine, InMatch, Steady
<1>10. Types' /\ Matches(mp)'
  <2>1. NotShown \in Shows
    BY DEF NotShown, Shows
  <2>2. client' \in [Clients -> Shows]
    BY <1>1, <2>1
  <2> QED BY <1>1, <1>3, <1>5, <2>2 DEF IInv, Types, Matches, Steady
<1> QED BY <1>6, <1>7, <1>8, <1>9, <1>10 DEF IInv

LEMMA UserInfoKeeps ==
  ASSUME IInv, NEW c \in Clients, NEW want \in BOOLEAN, NEW ready \in BOOLEAN,
         UserInfo(c, want, ready)
  PROVE  IInv'
<1>1. mp \in Games /\ bound' = bound /\ client' = client
  BY DEF IInv, Types, UserInfo
<1>2. PICK p : p = mp.player[c] /\ p \in Players
  BY <1>1 DEF Games
<1>3. PICK q : /\ q = IF mp.state = "SUDDENDEATH" /\ p.want THEN p
                      ELSE [p EXCEPT !.want = want, !.force = @ \/ (p.want /\ ~want)]
               /\ q \in Players /\ q.there = p.there /\ q.vote = p.vote /\ q.spec = p.spec
               /\ q.want = p.want \/ q.want = want
               /\ q.ingame = p.ingame
  <2>1. PICK b \in BOOLEAN : b = (p.force \/ (p.want /\ ~want))
    <3>1. (p.force \/ (p.want /\ ~want)) \in BOOLEAN
      OBVIOUS
    <3> QED BY <3>1
  <2> DEFINE r == [p EXCEPT !.want = want, !.force = b]
  <2>2. r \in Players /\ r.there = p.there /\ r.vote = p.vote /\ r.spec = p.spec
        /\ r.want = want /\ r.ingame = p.ingame
    BY <1>2, ZenonT(60) DEF Players
  <2>3. r = [p EXCEPT !.want = want, !.force = @ \/ (p.want /\ ~want)]
    BY <1>2, <2>1 DEF Players
  <2> HIDE DEF r
  <2> QED BY <1>2, <2>2, <2>3
<1>4. PICK o : /\ o = [q EXCEPT !.ready = ready, !.ingame = TRUE]
               /\ o \in Players /\ o.there = p.there /\ o.vote = p.vote /\ o.spec = p.spec
               /\ o.want = p.want \/ o.want = want
               /\ o.ingame
  <2>1. PICK o : o = [q EXCEPT !.ready = ready, !.ingame = TRUE]
    OBVIOUS
  <2>0. q \in Players
    BY <1>3
  <2>2. o \in Players
    BY <2>0, <2>1 DEF Players
  <2>3. o.there = q.there /\ o.vote = q.vote /\ o.spec = q.spec /\ o.want = q.want
    BY <2>0, <2>1 DEF Players
  <2>4. o.ingame
    BY <2>0, <2>1 DEF Players
  <2> QED BY <1>3, <2>1, <2>2, <2>3, <2>4
<1>5. mp' = With(mp, c, o)
  BY <1>2, <1>3, <1>4 DEF UserInfo
<1>6. /\ Minds(mp, mp') /\ mp'.player[c] = o
      /\ \A d \in Clients : d # c => mp'.player[d] = mp.player[d]
  <2>1. PICK h : h = With(mp, c, o)
    OBVIOUS
  <2>2. /\ Minds(mp, h) /\ h.player[c] = o
        /\ \A d \in Clients : d # c => h.player[d] = mp.player[d]
    <3>1. o \in Players /\ o.there = mp.player[c].there /\ o.vote = mp.player[c].vote
      BY <1>2, <1>4
    <3> QED BY <1>1, <2>1, <3>1, PlayerIs
  <2> QED BY <1>5, <2>1, <2>2
<1>7. /\ hist' \in Histories /\ hist'.person = hist.person /\ hist'.joins = hist.joins
      /\ hist'.electorate = hist.electorate /\ hist'.cast = hist.cast
      /\ hist'.sits = (hist.sits \/ (InMatch(mp) /\ CanPlay(mp.player[c]) /\ mp.player[c].spec /\ want))
  <2>1. PICK h \in Histories : h = hist
    BY DEF IInv, Types
  <2>2. PICK n \in Nat : n = h.infos + 1
    BY <2>1 DEF Histories
  <2>3. PICK b \in BOOLEAN : b =
          (hist.sits \/ (InMatch(mp) /\ CanPlay(mp.player[c]) /\ mp.player[c].spec /\ want))
    <3>1. (hist.sits \/ (InMatch(mp) /\ CanPlay(mp.player[c]) /\ mp.player[c].spec /\ want))
            \in BOOLEAN
      OBVIOUS
    <3> QED BY <3>1
  <2>4. hist' = [h EXCEPT !.infos = n, !.sits = b]
    BY <2>1, <2>2, <2>3 DEF UserInfo, Histories
  <2> QED BY <2>1, <2>3, <2>4 DEF Histories
<1>8. Matches(mp)' /\ Known' /\ Counted' /\ Told'
  BY <1>1, <1>6, <1>7, MindsKeeps
<1>9. Manned'
  <2>1. SUFFICES ASSUME InMatch(mp'), ~hist'.sits
                 PROVE  Fine(mp')
    BY DEF Manned
  <2>2. InMatch(mp) /\ Fine(mp)
    BY <1>6, <1>7, <2>1 DEF Minds, Steady, InMatch, IInv, Manned
  <2>3. ~(CanPlay(p) /\ p.spec /\ want)
    BY <1>2, <1>7, <2>1, <2>2
  <2>4. CanPlay(p) \/ (p.want /\ ~p.spec) => CanPlay(o) \/ (o.want /\ ~o.spec)
    BY <1>2, <1>4, <2>3 DEF CanPlay, Players
  <2>5. Men(mp) \subseteq Men(mp')
    <3>1. ASSUME NEW d \in Men(mp)
          PROVE  d \in Men(mp')
      <4>1. d \in Clients /\ mp.player[d].there
            /\ (CanPlay(mp.player[d]) \/ (mp.player[d].want /\ ~mp.player[d].spec))
        BY <3>1 DEF Men, There
      <4>2. CASE d = c
        BY <1>2, <1>4, <1>6, <2>4, <4>1, <4>2 DEF Men, There
      <4>3. CASE d # c
        BY <1>6, <4>1, <4>3 DEF Men, There
      <4> QED BY <4>2, <4>3
    <3> QED BY <3>1
  <2> QED BY <2>2, <2>5, FineMore
<1>10. Types'
  BY <1>1, <1>6, <1>7 DEF IInv, Types, Minds
<1> QED BY <1>8, <1>9, <1>10 DEF IInv

\* The players of g, whose votes are v, are told m.
Announces(g, h, players, v, m) ==
  /\ h \in Games /\ Steady(g, h) /\ h.vote = v /\ h.player = players
  /\ \A c \in Clients : h.inbox[c] =
       IF players[c].there THEN Append(g.inbox[c], m) ELSE g.inbox[c]

LEMMA TellVote ==
  ASSUME NEW g \in Games, NEW players \in [Clients -> Players], NEW v \in Votes,
         NEW m \in Messages
  PROVE  Announces(g, Tell([g EXCEPT !.vote = v, !.player = players], m), players, v, m)
<1>1. PICK a : a = [g EXCEPT !.vote = v, !.player = players]
  OBVIOUS
<1>2. a \in Games /\ Steady(g, a) /\ a.vote = v /\ a.player = players /\ a.inbox = g.inbox
  BY <1>1 DEF Games, Steady
<1>3. PICK h : h = Tell(a, m)
  OBVIOUS
<1>4. /\ h \in Games /\ Steady(a, h) /\ h.player = a.player /\ h.vote = a.vote
      /\ \A c \in Clients : h.inbox[c] =
           IF a.player[c].there THEN Append(a.inbox[c], m) ELSE a.inbox[c]
  BY <1>2, <1>3, TellIs
<1>5. Announces(g, h, players, v, m)
  BY <1>2, <1>4 DEF Steady, Announces
<1> QED BY <1>1, <1>3, <1>5

LEMMA ServerCallVoteKeeps ==
  ASSUME IInv, NEW c \in Clients, NEW kind \in {"RESTART", "KICK"},
         NEW value \in Clients \cup {None}, kind = "KICK" => value \in Clients,
         ServerCallVote(c, kind, value)
  PROVE  IInv'
<1>1. mp \in Games /\ client' = client /\ bound' = bound /\ mp.player[c].there
  BY DEF IInv, Types, ServerCallVote
<1>2. PICK v : /\ v = [kind |-> kind, yes |-> 1, no |-> 0, exec |-> FALSE, value |-> value]
               /\ v \in Votes /\ v.kind # "NONE" /\ v.yes = 1 /\ v.no = 0
  <2>1. PICK v : v = [kind |-> kind, yes |-> 1, no |-> 0, exec |-> FALSE, value |-> value]
    OBVIOUS
  <2>2. v \in Votes /\ v.kind # "NONE" /\ v.yes = 1 /\ v.no = 0
    BY <2>1 DEF Votes
  <2> QED BY <2>1, <2>2
<1> DEFINE new == [i \in Clients |-> [mp.player[i] EXCEPT !.vote =
                     IF ~mp.player[i].there THEN "NONE" ELSE IF i = c THEN "YES" ELSE "WAIT"]]
<1>3. ASSUME NEW i \in Clients
      PROVE  /\ new[i] \in Players /\ Stays(mp.player[i], new[i])
             /\ mp.player[i].there => new[i].vote = IF i = c THEN "YES" ELSE "WAIT"
  <2>1. PICK p : p = mp.player[i] /\ p \in Players
    BY <1>1 DEF Games
  <2>2. PICK b \in Ballots : b = IF ~p.there THEN "NONE" ELSE IF i = c THEN "YES" ELSE "WAIT"
    BY DEF Ballots
  <2>3. PICK q : q = [p EXCEPT !.vote = b]
    OBVIOUS
  <2>4. q \in Players /\ Stays(p, q) /\ q.vote = b
    BY <2>1, <2>3 DEF Players, Stays
  <2>5. new[i] = q
    BY <2>1, <2>2, <2>3
  <2> QED BY <2>1, <2>2, <2>4, <2>5
<1>4. PICK players : players = new /\ players \in [Clients -> Players]
  BY <1>3
<1>5. \A i \in Clients :
        /\ Stays(mp.player[i], players[i])
        /\ mp.player[i].there => players[i].vote = IF i = c THEN "YES" ELSE "WAIT"
  BY <1>3, <1>4
<1>6. PICK m \in Messages : m = StartVote
  BY DEF StartVote, Messages
<1>7. mp' = Tell([mp EXCEPT !.vote = v, !.player = players], m)
  BY <1>1, <1>2, <1>4, <1>6 DEF ServerCallVote, ServerStartVote, Games
<1> HIDE DEF new
<1>8. /\ mp' \in Games /\ Steady(mp, mp') /\ mp'.vote = v /\ mp'.player = players
      /\ \A i \in Clients : mp'.inbox[i] =
           IF players[i].there THEN Append(mp.inbox[i], m) ELSE mp.inbox[i]
  <2>1. Announces(mp, Tell([mp EXCEPT !.vote = v, !.player = players], m), players, v, m)
    BY <1>1, <1>2, <1>4, <1>6, TellVote
  <2>2. Announces(mp, mp', players, v, m)
    BY <1>7, <2>1
  <2> QED BY <2>2 DEF Announces
<1>9. /\ hist' \in Histories /\ hist'.person = hist.person /\ hist'.joins = hist.joins
      /\ hist'.electorate = {hist.person[i] : i \in There(mp)}
      /\ hist'.cast = {hist.person[c]} /\ hist'.sits = hist.sits
  <2>1. PICK h \in Histories : h = hist
    BY DEF IInv, Types
  <2>2. PICK electorate \in SUBSET Nat, cast \in SUBSET Nat, n \in Nat :
          /\ electorate = {hist.person[i] : i \in There(mp)} /\ cast = {hist.person[c]}
          /\ n = hist.votes + 1
    <3>1. \A i \in Clients : hist.person[i] \in Nat
      BY <2>1 DEF Histories
    <3>2. {hist.person[i] : i \in There(mp)} \in SUBSET Nat /\ {hist.person[c]} \in SUBSET Nat
      BY <3>1 DEF There
    <3>3. hist.votes + 1 \in Nat
      BY <2>1 DEF Histories
    <3> QED BY <3>2, <3>3
  <2>3. hist' = [h EXCEPT !.votes = n, !.electorate = electorate, !.cast = cast]
    BY <2>1, <2>2 DEF ServerCallVote
  <2> QED BY <2>1, <2>2, <2>3 DEF Histories
<1>10. \A i \in Clients : mp'.player[i].there <=> mp.player[i].there
  BY <1>5, <1>8 DEF Stays
<1>11. Known'
  BY <1>9, <1>10 DEF IInv, Known
<1>12. \A i \in Clients : mp.player[i].there => hist.person[i] \in hist'.electorate
  BY <1>9 DEF There
<1>13. Counted'
  <2>1. hist'.cast \subseteq hist'.electorate
    BY <1>1, <1>9, <1>12
  <2>2. hist'.electorate \subseteq 1 .. hist'.joins
    BY <1>9 DEF IInv, Known, There
  <2>3. mp'.vote.yes + mp'.vote.no = Cardinality(hist'.cast)
    <3>1. Cardinality({hist.person[c]}) = 1
      BY FS_Singleton
    <3>2. mp'.vote.yes = 1 /\ mp'.vote.no = 0
      BY <1>2, <1>8
    <3> QED BY <1>9, <3>1, <3>2
  <2>4. ASSUME NEW i \in Clients, mp'.player[i].there
        PROVE  Honest(mp.player[i], hist.person[i])'
    <3>1. mp.player[i].there
      BY <1>10, <2>4
    <3>2. hist'.person[i] \in hist'.electorate
      BY <1>9, <1>12, <3>1
    <3>3. hist'.person[i] \in hist'.cast <=> i = c
      BY <1>1, <1>9, <3>1 DEF IInv, Known
    <3>4. mp'.player[i].vote = IF i = c THEN "YES" ELSE "WAIT"
      BY <1>5, <1>8, <3>1
    <3> QED BY <3>2, <3>3, <3>4 DEF Honest
  <2> QED BY <2>1, <2>2, <2>3, <2>4 DEF Counted
<1>14. Told'
  <2>1. Quiet(mp)'
    BY <1>8, <1>10 DEF IInv, Told, Quiet
  <2>2. ASSUME NEW i \in Clients, mp'.player[i].there
        PROVE  Follows(client[i], mp.inbox[i],
                       Expect(mp.vote, hist.person[i] \in hist.electorate))'
    <3>1. mp.player[i].there /\ mp.inbox[i] \in Seq(Messages)
      BY <1>1, <1>10, <2>2 DEF Games
    <3>2. PICK e : e = Expect(mp.vote, hist.person[i] \in hist.electorate)
                   /\ Follows(client[i], mp.inbox[i], e)
      BY <3>1 DEF IInv, Told
    <3>3. Follows(client[i], Append(mp.inbox[i], m), Shown(e, m))
      BY <3>1, <3>2, FollowsAppend
    <3>4. Shown(e, m) = [shown |-> TRUE, yes |-> 1, no |-> 0]
      BY <1>6 DEF Shown, StartVote
    <3>5. hist'.person[i] \in hist'.electorate
      BY <1>9, <1>12, <3>1
    <3>6. Expect(mp'.vote, hist'.person[i] \in hist'.electorate) = Shown(e, m)
      BY <1>2, <1>8, <3>4, <3>5 DEF Expect
    <3>7. mp'.inbox[i] = Append(mp.inbox[i], m)
      BY <1>8, <2>2
    <3> QED BY <1>1, <3>3, <3>6, <3>7
  <2> QED BY <2>1, <2>2 DEF Told
<1>15. Manned'
  BY <1>5, <1>8, <1>9, StaysFine DEF IInv, Manned
<1>16. Types' /\ Matches(mp)'
  BY <1>1, <1>8, <1>9 DEF IInv, Types, Matches, Steady
<1> QED BY <1>11, <1>13, <1>14, <1>15, <1>16 DEF IInv

LEMMA ServerCastVoteKeeps ==
  ASSUME IInv, NEW c \in Clients, NEW yes \in BOOLEAN, ServerCastVote(c, yes)
  PROVE  IInv'
<1>1. mp \in Games /\ client' = client /\ bound' = bound /\ mp.player[c].there
      /\ mp.vote.kind # "NONE" /\ mp.player[c].vote = "WAIT"
  BY DEF IInv, Types, ServerCastVote, MayVote
<1>2. PICK u \in Votes : u = mp.vote /\ u.yes \in Nat /\ u.no \in Nat
  BY <1>1 DEF Games, Votes
<1>3. PICK v : /\ v = IF yes THEN [mp.vote EXCEPT !.yes = mp.vote.yes + 1]
                      ELSE [mp.vote EXCEPT !.no = mp.vote.no + 1]
               /\ v \in Votes /\ v.kind = u.kind /\ v.yes \in Nat /\ v.no \in Nat
               /\ v.yes + v.no = u.yes + u.no + 1
  <2>1. PICK y \in Nat, n \in Nat : y = u.yes + 1 /\ n = u.no + 1
    BY <1>2
  <2>2. PICK a : a = [u EXCEPT !.yes = y]
    OBVIOUS
  <2>3. a \in Votes /\ a.kind = u.kind /\ a.yes = y /\ a.no = u.no
    BY <2>2 DEF Votes
  <2>4. PICK b : b = [u EXCEPT !.no = n]
    OBVIOUS
  <2>5. b \in Votes /\ b.kind = u.kind /\ b.yes = u.yes /\ b.no = n
    BY <2>4 DEF Votes
  <2>6. y + u.no = u.yes + u.no + 1 /\ u.yes + n = u.yes + u.no + 1
    BY <1>2, <2>1
  <2>7. CASE yes
    <3>1. a = IF yes THEN [mp.vote EXCEPT !.yes = mp.vote.yes + 1]
              ELSE [mp.vote EXCEPT !.no = mp.vote.no + 1]
      BY <1>2, <2>1, <2>2, <2>7
    <3> QED BY <1>2, <2>1, <2>3, <2>6, <3>1
  <2>8. CASE ~yes
    <3>1. b = IF yes THEN [mp.vote EXCEPT !.yes = mp.vote.yes + 1]
              ELSE [mp.vote EXCEPT !.no = mp.vote.no + 1]
      BY <1>2, <2>1, <2>4, <2>8
    <3> QED BY <1>2, <2>1, <2>5, <2>6, <3>1
  <2> QED BY <2>7, <2>8
<1>4. PICK p : p = mp.player[c] /\ p \in Players
  BY <1>1 DEF Games
<1>5. PICK q : q = [p EXCEPT !.vote = IF yes THEN "YES" ELSE "NO"] /\ q \in Players
               /\ Stays(p, q) /\ q.vote \in {"YES", "NO"}
  <2>1. PICK b \in {"YES", "NO"} : b = IF yes THEN "YES" ELSE "NO"
    OBVIOUS
  <2>2. PICK q : q = [p EXCEPT !.vote = b]
    OBVIOUS
  <2>3. q \in Players /\ Stays(p, q) /\ q.vote = b
    BY <1>4, <2>2 DEF Players, Stays, Ballots
  <2> QED BY <2>1, <2>2, <2>3
<1>6. PICK players : players = [mp.player EXCEPT ![c] = q]
                     /\ players \in [Clients -> Players] /\ players[c] = q
                     /\ \A i \in Clients : i # c => players[i] = mp.player[i]
  <2>1. PICK old : old = mp.player /\ old \in [Clients -> Players]
    BY <1>1 DEF Games
  <2>2. PICK players : players = [old EXCEPT ![c] = q]
    OBVIOUS
  <2>3. /\ players \in [Clients -> Players] /\ players[c] = q
        /\ \A i \in Clients : i # c => players[i] = old[i]
    BY <1>5, <2>1, <2>2
  <2> QED BY <2>1, <2>2, <2>3
<1>7. PICK m \in Messages : m = UpdateVote("UPDATE", v.yes, v.no)
  BY <1>3, UpdateVoteIs
<1>8. mp' = Tell([mp EXCEPT !.vote = v, !.player = players], m)
  <2>1. CastVote(mp, c, yes) = Tell([mp EXCEPT !.vote = v, !.player[c].vote =
                                       IF yes THEN "YES" ELSE "NO"],
                                    UpdateVote("UPDATE", v.yes, v.no))
    BY <1>3 DEF CastVote
  <2>2. [mp EXCEPT !.vote = v, !.player[c].vote = IF yes THEN "YES" ELSE "NO"]
          = [mp EXCEPT !.vote = v, !.player = players]
    BY <1>1, <1>4, <1>5, <1>6
  <2> QED BY <1>7, <2>1, <2>2 DEF ServerCastVote
<1>9. /\ mp' \in Games /\ Steady(mp, mp') /\ mp'.vote = v /\ mp'.player = players
      /\ \A i \in Clients : mp'.inbox[i] =
           IF players[i].there THEN Append(mp.inbox[i], m) ELSE mp.inbox[i]
  <2>1. Announces(mp, Tell([mp EXCEPT !.vote = v, !.player = players], m), players, v, m)
    <3>1. mp \in Games /\ v \in Votes /\ players \in [Clients -> Players]
      BY <1>1, <1>3, <1>6
    <3> QED BY <3>1, TellVote
  <2>2. Announces(mp, mp', players, v, m)
    BY <1>8, <2>1
  <2> QED BY <2>2 DEF Announces
<1>10. /\ hist' \in Histories /\ hist'.person = hist.person /\ hist'.joins = hist.joins
       /\ hist'.electorate = hist.electorate
       /\ hist'.cast = hist.cast \cup {hist.person[c]} /\ hist'.sits = hist.sits
  <2>1. PICK h \in Histories : h = hist
    BY DEF IInv, Types
  <2>2. PICK cast \in SUBSET Nat : cast = hist.cast \cup {hist.person[c]}
    BY <2>1 DEF Histories
  <2>3. hist' = [h EXCEPT !.cast = cast]
    BY <2>1, <2>2 DEF ServerCastVote
  <2> QED BY <2>1, <2>2, <2>3 DEF Histories
<1>11. \A i \in Clients : Stays(mp.player[i], mp'.player[i])
  BY <1>4, <1>5, <1>6, <1>9 DEF Stays
<1>12. \A i \in Clients : mp'.player[i].there <=> mp.player[i].there
  BY <1>11 DEF Stays
<1>13. Known'
  BY <1>10, <1>12 DEF IInv, Known
<1>14. /\ hist.cast \subseteq hist.electorate /\ hist.electorate \subseteq 1 .. hist.joins
       /\ mp.vote.yes + mp.vote.no = Cardinality(hist.cast)
       /\ \A i \in Clients : mp.player[i].there => Honest(mp.player[i], hist.person[i])
  BY <1>1 DEF IInv, Counted
<1>15. hist.person[c] \in hist.electorate /\ hist.person[c] \notin hist.cast
  BY <1>1, <1>14 DEF Honest
<1>16. Counted'
  <2>1. hist'.cast \subseteq hist'.electorate /\ hist'.electorate \subseteq 1 .. hist'.joins
    BY <1>10, <1>14, <1>15
  <2>2. mp'.vote.yes + mp'.vote.no = Cardinality(hist'.cast)
    <3>1. IsFiniteSet(hist.cast)
      <4>1. hist.cast \subseteq 1 .. hist.joins /\ hist.joins \in Int
        BY <1>14 DEF IInv, Types, Histories
      <4> QED BY <4>1, FS_Interval, FS_Subset
    <3>2. Cardinality(hist'.cast) = Cardinality(hist.cast) + 1
      BY <1>10, <1>15, <3>1, FS_AddElement, ZenonT(60)
    <3> QED BY <1>2, <1>3, <1>9, <1>14, <3>2
  <2>3. ASSUME NEW i \in Clients, mp'.player[i].there
        PROVE  Honest(mp.player[i], hist.person[i])'
    <3>1. CASE i = c
      <4>1. hist'.person[c] \in hist'.cast /\ mp'.player[c].vote \in {"YES", "NO"}
        BY <1>5, <1>6, <1>9, <1>10
      <4> QED BY <3>1, <4>1 DEF Honest
    <3>2. CASE i # c
      <4>1. mp'.player[i] = mp.player[i] /\ mp.player[i].there
        BY <1>6, <1>9, <2>3, <3>2
      <4>2. Honest(mp.player[i], hist.person[i])
        BY <1>14, <4>1
      <4>3. hist.person[i] # hist.person[c]
        BY <1>1, <3>2, <4>1 DEF IInv, Known
      <4> QED BY <1>10, <4>1, <4>2, <4>3 DEF Honest
    <3> QED BY <3>1, <3>2
  <2> QED BY <2>1, <2>2, <2>3 DEF Counted
<1>17. Told'
  <2>1. Quiet(mp)'
    BY <1>9, <1>12 DEF IInv, Told, Quiet
  <2>2. ASSUME NEW i \in Clients, mp'.player[i].there
        PROVE  Follows(client[i], mp.inbox[i],
                       Expect(mp.vote, hist.person[i] \in hist.electorate))'
    <3>1. mp.player[i].there /\ mp.inbox[i] \in Seq(Messages)
      BY <1>1, <1>12, <2>2 DEF Games
    <3>2. PICK in : in = (hist.person[i] \in hist.electorate)
      OBVIOUS
    <3>3. Follows(client[i], mp.inbox[i], Expect(u, in))
      BY <1>2, <3>1, <3>2 DEF IInv, Told
    <3>4. Follows(client[i], Append(mp.inbox[i], m), Shown(Expect(u, in), m))
      BY <3>1, <3>3, FollowsAppend
    <3>5. Shown(Expect(u, in), m) = Expect(v, in)
      <4>1. PICK y \in Nat, k \in Nat : y = v.yes /\ k = v.no
        BY <1>3
      <4>2. Shown(Expect(u, in), UpdateVote("UPDATE", y, k)) =
              IF u.kind # "NONE" /\ in THEN [shown |-> TRUE, yes |-> y, no |-> k] ELSE NotShown
        BY ShownIs
      <4>3. v.kind = u.kind /\ m = UpdateVote("UPDATE", y, k)
        BY <1>3, <1>7, <4>1
      <4> QED BY <4>1, <4>2, <4>3 DEF Expect
    <3>6. mp'.inbox[i] = Append(mp.inbox[i], m)
      BY <1>9, <2>2
    <3> QED BY <1>1, <1>9, <1>10, <3>2, <3>4, <3>5, <3>6
  <2> QED BY <2>1, <2>2 DEF Told
<1>18. Manned'
  BY <1>9, <1>10, <1>11, StaysFine DEF IInv, Manned
<1>19. Types' /\ Matches(mp)'
  BY <1>1, <1>9, <1>10 DEF IInv, Types, Matches, Steady
<1> QED BY <1>13, <1>16, <1>17, <1>18, <1>19 DEF IInv

LEMMA ReceiveKeeps ==
  ASSUME IInv, NEW c \in Clients, Receive(c)
  PROVE  IInv'
<1>1. /\ mp \in Games /\ hist' = hist /\ bound' = bound /\ mp.inbox[c] # <<>>
      /\ client \in [Clients -> Shows]
      /\ client' = [client EXCEPT ![c] = Shown(client[c], Head(mp.inbox[c]))]
  BY DEF IInv, Types, Receive
<1>2. PICK msgs \in Seq(Messages) : msgs = mp.inbox[c] /\ msgs # <<>>
  BY <1>1 DEF Games
<1>3. PICK rest \in Seq(Messages), m \in Messages : rest = Tail(msgs) /\ m = Head(msgs)
  BY <1>2, HeadTailProperties
<1>4. mp' = [mp EXCEPT !.inbox[c] = rest]
  BY <1>2, <1>3 DEF Receive
<1>5. /\ mp' \in Games /\ Steady(mp, mp') /\ mp'.vote = mp.vote /\ mp'.player = mp.player
      /\ mp'.inbox[c] = rest /\ \A d \in Clients : d # c => mp'.inbox[d] = mp.inbox[d]
  <2>1. PICK i \in [Clients -> Seq(Messages)] : i = mp.inbox
    BY <1>1 DEF Games
  <2>2. PICK j : j = [i EXCEPT ![c] = rest]
    OBVIOUS
  <2>3. j \in [Clients -> Seq(Messages)] /\ j[c] = rest /\ \A d \in Clients : d # c => j[d] = i[d]
    BY <2>2
  <2>4. mp' = [mp EXCEPT !.inbox = j]
    BY <1>4, <2>1, <2>2
  <2>5. mp' \in Games /\ Steady(mp, mp') /\ mp'.vote = mp.vote /\ mp'.player = mp.player
        /\ mp'.inbox = j
    BY <1>1, <2>3, <2>4 DEF Games, Steady
  <2> QED BY <2>1, <2>3, <2>5
<1>6. Known' /\ Counted'
  BY <1>1, <1>5 DEF IInv, Known, Counted, Honest
<1>7. mp.player[c].there
  BY <1>1 DEF IInv, Told, Quiet
<1>8. Told'
  <2>1. Quiet(mp)'
    BY <1>5, <1>7 DEF IInv, Told, Quiet
  <2>2. ASSUME NEW d \in Clients, mp'.player[d].there
        PROVE  Follows(client[d], mp.inbox[d],
                       Expect(mp.vote, hist.person[d] \in hist.electorate))'
    <3>1. PICK e : e = Expect(mp.vote, hist.person[d] \in hist.electorate)
                   /\ Follows(client[d], mp.inbox[d], e)
      BY <1>5, <2>2 DEF IInv, Told
    <3>2. e = Expect(mp'.vote, hist'.person[d] \in hist'.electorate)
      BY <1>1, <1>5, <3>1
    <3>3. CASE d = c
      <4>1. PICK shows : shows = client[c] /\ Follows(shows, msgs, e)
        BY <1>2, <3>1, <3>3
      <4>2. Follows(Shown(shows, m), rest, e)
        BY <1>2, <1>3, <4>1, FollowsTail
      <4>3. client'[c] = Shown(shows, m)
        BY <1>1, <1>2, <1>3, <4>1
      <4> QED BY <1>5, <3>2, <3>3, <4>2, <4>3
    <3>4. CASE d # c
      <4>1. client'[d] = client[d] /\ mp'.inbox[d] = mp.inbox[d]
        BY <1>1, <1>5, <3>4
      <4> QED BY <3>1, <3>2, <4>1
    <3> QED BY <3>3, <3>4
  <2> QED BY <2>1, <2>2 DEF Told
<1>9. Manned'
  <2>1. \A d \in Clients : Stays(mp.player[d], mp'.player[d])
    BY <1>5 DEF Stays
  <2> QED BY <1>1, <1>5, <2>1, StaysFine DEF IInv, Manned
<1>10. Types' /\ Matches(mp)'
  <2>1. PICK x \in Shows : x = client[c]
    BY <1>1
  <2>2. PICK y \in Shows : y = Shown(x, m)
    BY ShownTyped
  <2>3. client' = [client EXCEPT ![c] = y]
    BY <1>1, <1>2, <1>3, <2>1, <2>2
  <2>4. client' \in [Clients -> Shows]
    BY <1>1, <2>3
  <2> QED BY <1>1, <1>5, <2>4 DEF IInv, Types, Matches, Steady
<1> QED BY <1>6, <1>8, <1>9, <1>10 DEF IInv

LEMMA StutterKeeps ==
  ASSUME IInv, UNCHANGED vars
  PROVE  IInv'
<1>1. mp' = mp /\ client' = client /\ hist' = hist /\ bound' = bound
  BY DEF vars
<1>2. Types' /\ Matches(mp)' /\ Manned'
  BY <1>1 DEF IInv, Types, Manned
<1>3. Known' /\ Counted' /\ Told'
  BY <1>1 DEF IInv, Known, Counted, Honest, Told
<1> QED BY <1>2, <1>3 DEF IInv

LEMMA InitHolds ==
  ASSUME Init
  PROVE  IInv
<1>1. PICK none \in Votes : none = NoVote /\ none.kind = "NONE"
  BY NoVoteIs
<1>2. PICK p \in Players : p = NoPlayer /\ ~p.there
  <2>1. NoPlayer \in Players /\ ~NoPlayer.there
    BY DEF NoPlayer, Players, Ballots
  <2> QED BY <2>1
<1>3. PICK e \in Seq(Messages) : e = <<>>
  BY EmptySeq
<1>4. /\ mp = [state |-> "INACTIVE", next |-> "INACTIVE", limit |-> FALSE, vote |-> none,
               player |-> [c \in Clients |-> p], inbox |-> [c \in Clients |-> e]]
      /\ "INACTIVE" \in States
  BY <1>1, <1>2, <1>3 DEF Init, States
<1>5. /\ mp \in Games /\ mp.state = "INACTIVE" /\ mp.next = "INACTIVE" /\ mp.vote = none
      /\ \A c \in Clients : mp.player[c] = p /\ mp.inbox[c] = e
  BY <1>4 DEF Games
<1>6. hist \in Histories
  <2>1. PICK zero : zero = [c \in Clients |-> 0] /\ zero \in [Clients -> Nat]
    <3>1. [c \in Clients |-> 0] \in [Clients -> Nat]
      OBVIOUS
    <3> QED BY <3>1
  <2>2. hist = [joins |-> 0, leaves |-> 0, infos |-> 0, deaths |-> 0, votes |-> 0,
                person |-> zero, died |-> zero, sits |-> FALSE, kicked |-> FALSE,
                electorate |-> {}, cast |-> {}]
    BY <2>1 DEF Init
  <2> QED BY <2>1, <2>2 DEF Histories
<1>7. client \in [Clients -> Shows] /\ bound \in Bounds
  <2>1. NotShown \in Shows
    BY DEF NotShown, Shows
  <2> QED BY <2>1 DEF Init
<1>8. Types
  BY <1>5, <1>6, <1>7 DEF Types
<1>9. Matches(mp) /\ Manned
  BY <1>5 DEF Matches, Manned, InMatch
<1>10. Known /\ Counted /\ Told
  BY <1>1, <1>2, <1>3, <1>5 DEF Known, Counted, Told, Quiet
<1> QED BY <1>8, <1>9, <1>10 DEF IInv

LEMMA StepKeeps ==
  ASSUME IInv, [Next]_vars
  PROVE  IInv'
<1>1. CASE Run
  BY <1>1, RunKeeps
<1>2. CASE ForceReady
  BY <1>2, ForceReadyKeeps
<1>3. ASSUME NEW c \in Clients, Join(c)
      PROVE  IInv'
  BY <1>3, JoinKeeps
<1>4. ASSUME NEW c \in Clients, Leave(c)
      PROVE  IInv'
  BY <1>4, LeaveKeeps
<1>5. ASSUME NEW c \in Clients, NEW want \in BOOLEAN, NEW ready \in BOOLEAN,
             UserInfo(c, want, ready)
      PROVE  IInv'
  BY <1>5, UserInfoKeeps
<1>6. ASSUME NEW c \in Clients, NEW killer \in There(mp) \cup {None}, Die(c, killer)
      PROVE  IInv'
  BY <1>6, DieKeeps
<1>7. ASSUME NEW c \in Clients, EvaluateControls(c)
      PROVE  IInv'
  BY <1>7, EvaluateControlsKeeps
<1>8. ASSUME NEW c \in Clients, ServerCallVote(c, "RESTART", None)
      PROVE  IInv'
  <2>1. PICK kind \in {"RESTART", "KICK"}, value \in Clients \cup {None} :
          kind = "RESTART" /\ value = None
    OBVIOUS
  <2>2. ServerCallVote(c, kind, value) /\ (kind = "KICK" => value \in Clients)
    BY <1>8, <2>1
  <2> QED BY <2>2, ServerCallVoteKeeps
<1>9. ASSUME NEW c \in Clients, NEW value \in Clients, ServerCallVote(c, "KICK", value)
      PROVE  IInv'
  <2>1. PICK kind \in {"RESTART", "KICK"}, v \in Clients \cup {None} :
          kind = "KICK" /\ v = value
    OBVIOUS
  <2>2. ServerCallVote(c, kind, v) /\ v \in Clients
    BY <1>9, <2>1
  <2> QED BY <2>2, ServerCallVoteKeeps
<1>10. ASSUME NEW c \in Clients, NEW yes \in BOOLEAN, ServerCastVote(c, yes)
       PROVE  IInv'
  BY <1>10, ServerCastVoteKeeps
<1>11. ASSUME NEW c \in Clients, Receive(c)
       PROVE  IInv'
  BY <1>11, ReceiveKeeps
<1>12. CASE UNCHANGED vars
  BY <1>12, StutterKeeps
<1> QED BY <1>1, <1>2, <1>3, <1>4, <1>5, <1>6, <1>7, <1>8, <1>9, <1>10, <1>11, <1>12 DEF Next

\* The inductive invariant of a server's matches: what the state, the men, the
\* people, the votes and the messages under way have to do with one another
\* holds in every state, of any number of players and frames.
THEOREM Invariant == Spec => []IInv
<1>1. Init => IInv
  BY InitHolds
<1>2. IInv /\ [Next]_vars => IInv'
  BY StepKeeps
<1> QED BY <1>1, <1>2, PTL DEF Spec

\* A switch that is scheduled belongs to the state the match is in, however a
\* countdown was broken off (NewState, MapRestart).
THEOREM NextMatchesAlways == Spec => []NextMatches
<1>1. IInv => NextMatches
  BY DEF IInv, Matches, NextMatches
<1> QED BY <1>1, Invariant, PTL

\* No match goes on without two players: who leaves, is kicked or retires is
\* seen by CheckAbortGame, whatever order the players are looked at.
THEOREM EnoughPlayersAlways == Spec => []EnoughPlayers
<1>1. ASSUME IInv
      PROVE  EnoughPlayers
  <2>1. SUFFICES ASSUME InMatch(mp), ~EnoughClientsToPlay(mp), ~hist.sits,
                        ~ \E c \in There(mp) : mp.player[c].want /\ ~mp.player[c].spec
                 PROVE  FALSE
    BY DEF EnoughPlayers
  <2>2. Men(mp) = Playing(mp)
    BY <2>1 DEF Men, Playing
  <2>3. Fine(mp)
    BY <1>1, <2>1 DEF IInv, Manned
  <2> QED BY <2>1, <2>2, <2>3 DEF Fine, EnoughClientsToPlay
<1>2. IInv => EnoughPlayers
  BY <1>1
<1> QED BY <1>2, Invariant, PTL

\* A vote counts people who were there when it was called, each of them once,
\* whoever leaves and whoever comes into the slot (CastVote).
THEOREM OneVoteEachAlways == Spec => []OneVoteEach
<1>1. IInv => OneVoteEach
  BY DEF IInv, Counted, OneVoteEach
<1> QED BY <1>1, Invariant, PTL

\* A client that has received all there is shows the vote there is, if its
\* player may vote in it, and with its count (ClientStartVote, ClientUpdateVote).
THEOREM VotesShownAlways == Spec => []VotesShown
<1>1. ASSUME IInv
      PROVE  VotesShown
  <2>1. SUFFICES ASSUME NEW c \in Clients, mp.player[c].there, mp.inbox[c] = <<>>
                 PROVE  client[c] = Expect(mp.vote, hist.person[c] \in hist.electorate)
    BY DEF VotesShown, There, Expect
  <2>2. Follows(client[c], <<>>, Expect(mp.vote, hist.person[c] \in hist.electorate))
    BY <1>1, <2>1 DEF IInv, Told
  <2> QED BY <2>2, FollowsNothing
<1>2. IInv => VotesShown
  BY <1>1
<1> QED BY <1>2, Invariant, PTL

-----------------------------------------------------------------------------
(* Lives in last man standing *)

\* Who is out waits to be put in again.
Eager(p) == p.spec /\ ~p.want /\ ~p.over => p.force

\* Who has no lives left is not put in again.
Spent(p) == p.over => p.frags <= 0 /\ ~(p.again /\ p.present)

\* What a player has left of the match.
SameLife(p, q) ==
  q.over = p.over /\ q.frags = p.frags /\ q.again = p.again /\ q.present = p.present

\* Back in the world, with the lives there were.
Enters(p, q) == ~q.spec /\ ~q.over /\ ~q.again /\ q.frags = p.frags /\ q.present = p.present

LEMMA ToSpectatorsLife ==
  ASSUME NEW p \in Players
  PROVE  SameLife(p, ToSpectators(p)) /\ ToSpectators(p).force = p.force
BY ZenonT(60) DEF ToSpectators, Fresh, Players, SameLife

LEMMA SpawnLife ==
  ASSUME NEW p \in Players
  PROVE  /\ ~SpawnToPoint(p).over /\ ~SpawnToPoint(p).again
         /\ SpawnToPoint(p).frags = p.frags /\ SpawnToPoint(p).present = p.present
         /\ SpawnToPoint(p).force = (p.force /\ p.spec)
BY ZenonT(60) DEF SpawnToPoint, Fresh, Players

LEMMA IntoWorldLife ==
  ASSUME NEW p \in Players
  PROVE  ~IntoWorld(p).over /\ (LastMan => Enters(p, IntoWorld(p)))
<1>1. PICK n \in Int : n = IF p.spec /\ ~LastMan THEN 0 ELSE p.frags
  BY DEF Players
<1>2. PICK q \in Players : /\ q = [p EXCEPT !.spec = FALSE, !.frags = n]
                           /\ q.frags = n /\ q.present = p.present /\ ~q.spec
  <2> DEFINE r == [p EXCEPT !.spec = FALSE, !.frags = n]
  <2>1. r \in Players /\ r.frags = n /\ r.present = p.present /\ ~r.spec
    BY <1>1 DEF Players
  <2> HIDE DEF r
  <2>2. r = [p EXCEPT !.spec = FALSE, !.frags = n]
    BY DEF r
  <2> QED BY <2>1, <2>2
<1>3. IntoWorld(p) = SpawnToPoint(q)
  BY <1>1, <1>2 DEF IntoWorld
<1>4. LastMan => q.frags = p.frags
  BY <1>1, <1>2
<1>5. PICK s : s = SpawnToPoint(q)
  OBVIOUS
<1>6. ~s.spec /\ ~s.over /\ ~s.again /\ s.frags = q.frags /\ s.present = q.present
  BY <1>2, <1>5, SpawnLife, SpawnIs
<1> QED BY <1>2, <1>3, <1>4, <1>5, <1>6 DEF Enters

LEMMA SpectateLife ==
  ASSUME NEW g \in Games, NEW c \in Clients
  PROVE  /\ SameLife(g.player[c], ServerSpectate(g, c, TRUE).player[c])
         /\ ServerSpectate(g, c, TRUE).player[c].force = g.player[c].force
         /\ ~ServerSpectate(g, c, FALSE).player[c].over
         /\ LastMan => Enters(g.player[c], ServerSpectate(g, c, FALSE).player[c])
<1>1. PICK p \in Players : p = g.player[c]
  BY DEF Games
<1>2. PICK in \in Players : in = IntoWorld(p) /\ ~in.over /\ (LastMan => Enters(p, in))
  BY IntoWorldIs, IntoWorldLife
<1>3. PICK out \in Players : out = ToSpectators(p) /\ SameLife(p, out) /\ out.force = p.force
  BY ToSpectatorsIs, ToSpectatorsLife
<1>4. /\ ServerSpectate(g, c, TRUE) = With(g, c, out)
      /\ ServerSpectate(g, c, FALSE) = With(g, c, in)
  BY <1>1, <1>2, <1>3 DEF ServerSpectate
<1>5. With(g, c, out).player[c] = out /\ With(g, c, in).player[c] = in
  BY WithIs
<1> QED BY <1>1, <1>2, <1>3, <1>4, <1>5

\* One player after a restart of the map.
LEMMA RestartOfLife ==
  ASSUME NEW g \in Games, NEW c \in Clients
  PROVE  /\ \A d \in Clients : d # c => RestartOf(g, c).player[d] = g.player[d]
         /\ ~g.player[c].there => RestartOf(g, c) = g
         /\ g.player[c].there =>
              RestartOf(g, c).player[c].force /\ ~RestartOf(g, c).player[c].over
<1>1. PICK o \in Players : o = g.player[c]
  BY DEF Games
<1>2. PICK p \in Players : p = ToSpectators(o) /\ p.spec
  BY ToSpectatorsIs
<1>3. PICK q \in Players : q = [p EXCEPT !.force = TRUE] /\ q.force /\ q.spec
  <2>1. [p EXCEPT !.force = TRUE] \in Players /\ [p EXCEPT !.force = TRUE].force
        /\ [p EXCEPT !.force = TRUE].spec
    BY <1>2 DEF Players
  <2> QED BY <2>1
<1>4. PICK r \in Players : r = SpawnToPoint(q) /\ ~r.over /\ r.force
  BY <1>3, SpawnIs, SpawnLife
<1>5. RestartOf(g, c) = IF o.there THEN With(g, c, r) ELSE g
  BY <1>1, <1>2, <1>3, <1>4 DEF RestartOf
<1>6. PICK h : /\ h = With(g, c, r) /\ h.player[c] = r
               /\ \A d \in Clients : d # c => h.player[d] = g.player[d]
  BY WithIs
<1>7. RestartOf(g, c) = IF o.there THEN h ELSE g
  BY <1>5, <1>6
<1>8. CASE g.player[c].there
  <2>1. RestartOf(g, c) = h
    BY <1>1, <1>7, <1>8
  <2> QED BY <1>4, <1>6, <1>8, <2>1
<1>9. CASE ~g.player[c].there
  <2>1. RestartOf(g, c) = g
    BY <1>1, <1>7, <1>9
  <2> QED BY <1>9, <2>1
<1> QED BY <1>8, <1>9

\* All who are there begin anew.
Anew(g, h) ==
  \A c \in Clients : IF g.player[c].there THEN h.player[c].force /\ ~h.player[c].over
                     ELSE h.player[c] = g.player[c]

LEMMA MapRestartLife ==
  ASSUME NEW g \in Games
  PROVE  Anew(g, LocalMapRestart(g))
<1> DEFINE Done(h, n) ==
      /\ Alters(g, h)
      /\ \A c \in Clients : IF g.player[c].there
                            THEN c < n => h.player[c].force /\ ~h.player[c].over
                            ELSE h.player[c] = g.player[c]
<1>0. N \in Nat /\ 0 \in 0 .. N /\ N \in 0 .. N
  BY MultiplayerGameAssumption
<1>1. PICK G : G = [n \in 0 .. N |-> {h \in Games : Done(h, n)}]
  OBVIOUS
<1>2. g \in G[0]
  <2>1. Done(g, 0)
    BY AltersSelf DEF Clients
  <2> HIDE DEF Done
  <2> QED BY <1>0, <1>1, <2>1
<1>3. ASSUME NEW n \in Clients, NEW h \in Games, h \in G[n]
      PROVE  RestartOf(h, n) \in G[n + 1]
  <2>1. n \in 0 .. N /\ n + 1 \in 0 .. N
    BY <1>0 DEF Clients
  <2>2. Done(h, n)
    <3> HIDE DEF Done
    <3> QED BY <1>1, <1>3, <2>1
  <2>3. PICK k : k = RestartOf(h, n) /\ Alters(h, k)
    BY RestartOfIs
  <2>4. Alters(g, k) /\ k \in Games
    BY <2>2, <2>3, AltersTrans DEF Alters
  <2>5. ASSUME NEW c \in Clients
        PROVE  IF g.player[c].there
               THEN c < n + 1 => k.player[c].force /\ ~k.player[c].over
               ELSE k.player[c] = g.player[c]
    <3>1. h.player[c].there = g.player[c].there
      BY <2>2 DEF Alters, Like, Same
    <3>2. CASE c = n
      BY <2>2, <2>3, <3>1, <3>2, RestartOfLife
    <3>3. CASE c # n
      <4>1. k.player[c] = h.player[c]
        BY <2>3, <3>3, RestartOfLife
      <4>2. c < n + 1 => c < n
        BY <1>0, <3>3 DEF Clients
      <4> QED BY <2>2, <3>1, <4>1, <4>2
    <3> QED BY <3>2, <3>3
  <2>6. Done(k, n + 1)
    BY <2>4, <2>5
  <2> HIDE DEF Done
  <2> QED BY <1>1, <2>1, <2>3, <2>4, <2>6
<1>4. LocalMapRestart(g) \in G[N]
  BY <1>2, <1>3, MapRestartRuns
<1>5. Done(LocalMapRestart(g), N)
  <2> HIDE DEF Done
  <2> QED BY <1>0, <1>1, <1>4
<1> QED BY <1>0, <1>5 DEF Anew, Clients

LEMMA SameLifeTrans ==
  ASSUME NEW p, NEW q, NEW r, SameLife(p, q), SameLife(q, r)
  PROVE  SameLife(p, r)
BY DEF SameLife

\* Into the review of the match with what they have.
LEMMA ReviewLife ==
  ASSUME NEW g \in Games, NEW c \in Clients
  PROVE  SameLife(g.player[c], ForEach(Review, g).player[c])
<1> DEFINE Done(h) == \A d \in Clients : SameLife(g.player[d], h.player[d])
<1>0. N \in Nat /\ 0 \in 0 .. N /\ N \in 0 .. N
  BY MultiplayerGameAssumption
<1>1. PICK G : G = [n \in 0 .. N |-> {h \in Games : Done(h)}]
  OBVIOUS
<1>2. g \in G[0]
  <2>1. Done(g)
    BY DEF SameLife
  <2> HIDE DEF Done
  <2> QED BY <1>0, <1>1, <2>1
<1>3. ASSUME NEW n \in Clients, NEW h \in Games, h \in G[n]
      PROVE  ReviewOf(h, n) \in G[n + 1]
  <2>1. n \in 0 .. N /\ n + 1 \in 0 .. N
    BY <1>0 DEF Clients
  <2>2. Done(h)
    <3> HIDE DEF Done
    <3> QED BY <1>1, <1>3, <2>1
  <2>3. PICK k \in Games : k = ReviewOf(h, n)
    BY ReviewOfIs DEF Alters
  <2>4. PICK p \in Players : p = [h.player[n] EXCEPT !.forced = FALSE] /\ SameLife(h.player[n], p)
    <3>1. PICK o \in Players : o = h.player[n]
      BY DEF Games
    <3> DEFINE q == [o EXCEPT !.forced = FALSE]
    <3>2. q \in Players /\ SameLife(o, q)
      BY DEF Players, SameLife
    <3>3. q = [h.player[n] EXCEPT !.forced = FALSE]
      BY <3>1
    <3> HIDE DEF q
    <3> QED BY <3>1, <3>2, <3>3
  <2>5. PICK a \in Games : /\ a = With(h, n, p) /\ a.player[n] = p
                           /\ \A d \in Clients : d # n => a.player[d] = h.player[d]
    BY WithIs
  <2>6. PICK b : b = ServerSpectate(a, n, TRUE) /\ Touches(a, b, n)
    BY SpectateIs
  <2>7. SameLife(a.player[n], b.player[n])
    BY <2>6, SpectateLife
  <2>8. k = IF h.player[n].there THEN b ELSE h
    BY <2>3, <2>4, <2>5, <2>6 DEF ReviewOf, Review
  <2>9. ASSUME NEW d \in Clients
        PROVE  SameLife(h.player[d], k.player[d])
    <3>1. SameLife(h.player[d], b.player[d])
      <4>1. CASE d = n
        BY <2>4, <2>5, <2>7, <4>1, SameLifeTrans
      <4>2. CASE d # n
        BY <2>5, <2>6, <4>2 DEF Touches, SameLife
      <4> QED BY <4>1, <4>2
    <3>2. SameLife(h.player[d], h.player[d])
      BY DEF SameLife
    <3> QED BY <2>8, <3>1, <3>2
  <2>10. Done(k)
    BY <2>2, <2>9, SameLifeTrans
  <2> HIDE DEF Done
  <2> QED BY <1>1, <2>1, <2>3, <2>10
<1>4. ForEach(Review, g) \in G[N]
  BY <1>2, <1>3, ReviewRuns
<1>5. Done(ForEach(Review, g))
  <2> HIDE DEF Done
  <2> QED BY <1>0, <1>1, <1>4
<1> QED BY <1>5

\* One player when the match starts.
Begins(p, q) ==
  IF p.there THEN /\ ~p.over => ~q.over
                  /\ q.want \/ ~q.spec
                  /\ LastMan => q.frags = FragLimit
             ELSE q = p

LEMMA StartOfLife ==
  ASSUME NEW g \in Games, NEW c \in Clients, bound \in Bounds
  PROVE  /\ \A d \in Clients : d # c => StartOf(g, c).player[d] = g.player[d]
         /\ Begins(g.player[c], StartOf(g, c).player[c])
<1>1. PICK o \in Players : o = g.player[c]
  BY DEF Games
<1>2. PICK m \in Int : m = IF LastMan THEN FragLimit ELSE 0
  BY MultiplayerGameAssumption DEF FragLimit
<1>3. PICK p \in Players : /\ p = [o EXCEPT !.leader = FALSE, !.frags = m]
                           /\ p.frags = m /\ p.over = o.over /\ Same(o, p)
  <2> DEFINE r == [o EXCEPT !.leader = FALSE, !.frags = m]
  <2>1. r \in Players /\ r.frags = m /\ r.over = o.over /\ Same(o, r)
    BY DEF Players, Same
  <2> HIDE DEF r
  <2>2. r = [o EXCEPT !.leader = FALSE, !.frags = m]
    BY DEF r
  <2> QED BY <2>1, <2>2
<1>4. PICK w \in Players : /\ w = IntoWorld(p) /\ ~w.over /\ ~w.spec /\ Same(p, w)
                           /\ LastMan => w.frags = m
  BY <1>3, IntoWorldIs, IntoWorldLife DEF Enters
<1>5. PICK q \in Players : /\ q = IF p.want THEN p ELSE w
                           /\ Same(p, q) /\ (q.want \/ ~q.spec) /\ (LastMan => q.frags = m)
                           /\ ~p.over => ~q.over
  BY <1>3, <1>4 DEF Same
<1>6. PICK b \in BOOLEAN : b = CanPlay(q)
  BY DEF CanPlay, Players
<1>7. PICK r \in Players : /\ r = [q EXCEPT !.present = b] /\ Same(q, r)
                           /\ r.over = q.over /\ r.spec = q.spec /\ r.frags = q.frags
  <2> DEFINE t == [q EXCEPT !.present = b]
  <2>1. t \in Players /\ Same(q, t) /\ t.over = q.over /\ t.spec = q.spec /\ t.frags = q.frags
    BY DEF Players, Same
  <2> HIDE DEF t
  <2>2. t = [q EXCEPT !.present = b]
    BY DEF t
  <2> QED BY <2>1, <2>2
<1>8. PICK h : /\ h = With(g, c, r) /\ h.player[c] = r
               /\ \A d \in Clients : d # c => h.player[d] = g.player[d]
  BY WithIs
<1>9. StartOf(g, c) = IF o.there THEN h ELSE g
  BY <1>1, <1>2, <1>3, <1>4, <1>5, <1>6, <1>7, <1>8 DEF StartOf, Starts
<1>10. o.there => Begins(o, r)
  BY <1>2, <1>3, <1>5, <1>7 DEF Begins, Same
<1>11. CASE o.there
  <2>1. StartOf(g, c) = h
    BY <1>9, <1>11
  <2> QED BY <1>1, <1>8, <1>10, <1>11, <2>1
<1>12. CASE ~o.there
  <2>1. StartOf(g, c) = g
    BY <1>9, <1>12
  <2>2. Begins(o, o)
    BY <1>12 DEF Begins
  <2> QED BY <1>1, <2>1, <2>2
<1> QED BY <1>11, <1>12

LEMMA StartLife ==
  ASSUME NEW g \in Games, NEW c \in Clients, bound \in Bounds
  PROVE  Begins(g.player[c], ForEach(Starts, g).player[c])
<1> DEFINE Done(h, n) == \A d \in Clients : IF d < n THEN Begins(g.player[d], h.player[d])
                                            ELSE h.player[d] = g.player[d]
<1>0. N \in Nat /\ 0 \in 0 .. N /\ N \in 0 .. N
  BY MultiplayerGameAssumption
<1>1. PICK G : G = [n \in 0 .. N |-> {h \in Games : Done(h, n)}]
  OBVIOUS
<1>2. g \in G[0]
  <2>1. Done(g, 0)
    BY DEF Clients
  <2> HIDE DEF Done
  <2> QED BY <1>0, <1>1, <2>1
<1>3. ASSUME NEW n \in Clients, NEW h \in Games, h \in G[n]
      PROVE  StartOf(h, n) \in G[n + 1]
  <2>1. n \in 0 .. N /\ n + 1 \in 0 .. N
    BY <1>0 DEF Clients
  <2>2. Done(h, n)
    <3> HIDE DEF Done
    <3> QED BY <1>1, <1>3, <2>1
  <2>3. PICK k \in Games : k = StartOf(h, n)
    BY StartOfIs DEF Alters
  <2>4. ASSUME NEW d \in Clients
        PROVE  IF d < n + 1 THEN Begins(g.player[d], k.player[d])
               ELSE k.player[d] = g.player[d]
    <3>1. CASE d = n
      <4>1. h.player[n] = g.player[n] /\ n < n + 1
        BY <1>0, <2>2 DEF Clients
      <4> QED BY <2>3, <3>1, <4>1, StartOfLife
    <3>2. CASE d # n
      <4>1. k.player[d] = h.player[d]
        BY <2>3, <3>2, StartOfLife
      <4>2. d < n + 1 <=> d < n
        BY <1>0, <3>2 DEF Clients
      <4> QED BY <2>2, <4>1, <4>2
    <3> QED BY <3>1, <3>2
  <2>5. Done(k, n + 1)
    BY <2>4
  <2> HIDE DEF Done
  <2> QED BY <1>1, <2>1, <2>3, <2>5
<1>4. ForEach(Starts, g) \in G[N]
  BY <1>2, <1>3, StartRuns
<1>5. Done(ForEach(Starts, g), N)
  <2> HIDE DEF Done
  <2> QED BY <1>0, <1>1, <1>4
<1>6. c < N
  BY <1>0 DEF Clients
<1> QED BY <1>5, <1>6

\* In the match from its start.
Begun(p, q) ==
  IF p.there THEN ~q.over /\ (q.want \/ ~q.spec) /\ (LastMan => q.frags = FragLimit) ELSE q = p

LEMMA NewStateLife ==
  ASSUME NEW g \in Games, NEW news \in States, bound \in Bounds, NEW c \in Clients
  PROVE  /\ news = "GAMEON" => Begun(g.player[c], NewState(g, news).player[c])
         /\ news = "GAMEREVIEW" => SameLife(g.player[c], NewState(g, news).player[c])
         /\ news \notin {"GAMEON", "GAMEREVIEW"} =>
              NewState(g, news).player[c] = g.player[c] /\ NewState(g, news).limit = g.limit
<1>1. CASE news = "GAMEON"
  <2>1. PICK a : a = [g EXCEPT !.limit = FALSE] /\ a \in Games /\ a.player = g.player
    <3>1. [g EXCEPT !.limit = FALSE].player = g.player
      BY DEF Games
    <3> QED BY <3>1, LimitIs
  <2>2. PICK h : h = LocalMapRestart(a) /\ Alters(a, h) /\ Anew(a, h)
    BY <2>1, MapRestartLoop, MapRestartLife
  <2>3. PICK k : k = ForEach(Starts, h) /\ k \in Games /\ Begins(h.player[c], k.player[c])
    BY <2>2, StartLoop, StartLife DEF Alters
  <2>4. NewState(g, news) = [k EXCEPT !.state = news]
    BY <1>1, <2>1, <2>2, <2>3 DEF NewState
  <2>5. [k EXCEPT !.state = news].player = k.player
    BY <2>3 DEF Games
  <2>6. h.player[c].there = g.player[c].there
    BY <2>1, <2>2 DEF Alters, Like, Same
  <2>7. Begun(g.player[c], k.player[c])
    BY <2>1, <2>2, <2>3, <2>6 DEF Anew, Begins, Begun
  <2> QED BY <1>1, <2>4, <2>5, <2>7
<1>2. CASE news = "GAMEREVIEW"
  <2>1. PICK h : h = ForEach(Review, g) /\ h \in Games /\ SameLife(g.player[c], h.player[c])
    BY ReviewLoop, ReviewLife DEF Alters
  <2>2. NewState(g, news) = [h EXCEPT !.next = "INACTIVE", !.state = news]
    BY <1>2, <2>1 DEF NewState
  <2>3. [h EXCEPT !.next = "INACTIVE", !.state = news].player = h.player
    BY <2>1 DEF Games
  <2> QED BY <1>2, <2>1, <2>2, <2>3
<1>3. CASE news \notin {"GAMEON", "GAMEREVIEW"}
  <2>1. NewState(g, news) = [g EXCEPT !.state = news]
    BY <1>3 DEF NewState
  <2>2. [g EXCEPT !.state = news].player = g.player /\ [g EXCEPT !.state = news].limit = g.limit
    BY DEF Games
  <2> QED BY <1>3, <2>1, <2>2
<1> QED BY <1>1, <1>2, <1>3

\* The match is broken off in h, where all keep what they have.
Breaks(g, h) ==
  /\ InMatch(g) /\ h.state = "GAMEREVIEW" /\ Goes(g, h)
  /\ \A c \in Clients : SameLife(g.player[c], h.player[c])

LEMMA CheckAbortLife ==
  ASSUME NEW g \in Games, bound \in Bounds
  PROVE  CheckAbortGame(g) = g \/ Breaks(g, CheckAbortGame(g))
<1>1. CASE InMatch(g) /\ ~EnoughClientsToPlay(g)
  <2>1. "GAMEREVIEW" \in States
    BY DEF States
  <2>2. PICK h : h = NewState(g, "GAMEREVIEW")
    OBVIOUS
  <2>3. h.state = "GAMEREVIEW" /\ \A c \in Clients : SameLife(g.player[c], h.player[c])
    BY <2>1, <2>2, NewStateIs, NewStateLife
  <2>4. CheckAbortGame(g) = h
    BY <1>1, <2>2 DEF CheckAbortGame
  <2>5. Goes(g, h)
    BY <2>4, CheckAbortIs
  <2> QED BY <1>1, <2>3, <2>4, <2>5 DEF Breaks
<1>2. CASE ~(InMatch(g) /\ ~EnoughClientsToPlay(g))
  BY <1>2 DEF CheckAbortGame
<1> QED BY <1>1, <1>2

-----------------------------------------------------------------------------
(* One player's turn *)

Fights(g) == g.state \in {"GAMEON", "SUDDENDEATH"}
WarmsUp(g) == g.state \in {"WARMUP", "COUNTDOWN"}

\* Has a life to come back with.
Returns(g, p) ==
  \/ WarmsUp(g)
  \/ g.state = "GAMEON" /\ p.frags > 0 /\ p.present
  \/ Fights(g) /\ p.again /\ p.present

OthersOut(g, c) == \A other \in Playing(g) \ {c} : g.player[other].over

\* The last life is gone: out, unless it is for the others to be out already.
Fallen(g, c, p) ==
  LET q == g.player[c]
  IN  /\ q.frags <= 0 /\ q.present = p.present /\ Spent(q)
      /\ \/ q.over /\ q.spec /\ \E other \in Playing(g) : ~g.player[other].over
         \/ ~q.over /\ ~q.spec /\ OthersOut(g, c)

LEMMA LosesLastLifeLife ==
  ASSUME NEW g \in Games, NEW c \in Clients, LastMan,
         ~(g.player[c].again /\ g.player[c].present)
  PROVE  Touches(g, LosesLastLife(g, c), c) /\ Fallen(LosesLastLife(g, c), c, g.player[c])
<1>1. PICK o : o = g.player[c] /\ o \in Players
  BY DEF Games
<1>2. PICK p : /\ p = [o EXCEPT !.over = TRUE, !.frags = NOLIVES] /\ p \in Players
               /\ p.over /\ p.frags <= 0 /\ p.again = o.again /\ p.present = o.present
  <2>1. PICK n \in Int : n = NOLIVES /\ n <= 0
    BY DEF NOLIVES
  <2> DEFINE r == [o EXCEPT !.over = TRUE, !.frags = n]
  <2>2. r \in Players /\ r.over /\ r.frags = n /\ r.again = o.again /\ r.present = o.present
    BY <1>1 DEF Players
  <2> HIDE DEF r
  <2>3. r = [o EXCEPT !.over = TRUE, !.frags = NOLIVES]
    BY <2>1 DEF r
  <2> QED BY <2>1, <2>2, <2>3
<1>3. PICK a : a = With(g, c, p) /\ a \in Games /\ a.player[c] = p
  BY <1>2, WithIs
<1>4. PICK h : /\ h = ServerSpectate(a, c, TRUE) /\ Touches(a, h, c) /\ h \in Games
               /\ h.player[c].spec /\ SameLife(p, h.player[c])
  <2>1. Touches(a, ServerSpectate(a, c, TRUE), c) /\ ServerSpectate(a, c, TRUE).player[c].spec
    BY <1>3, SpectateIs
  <2>2. SameLife(p, ServerSpectate(a, c, TRUE).player[c])
    BY <1>3, SpectateLife
  <2> QED BY <2>1, <2>2 DEF Touches, Alters
<1>5. PICK k : /\ k = ServerSpectate(h, c, FALSE) /\ Touches(h, k, c)
               /\ Enters(h.player[c], k.player[c])
  <2>1. Touches(h, ServerSpectate(h, c, FALSE), c)
    BY <1>4, SpectateIs
  <2> QED BY <1>4, <2>1, SpectateLife
<1>6. LosesLastLife(g, c) = IF \A other \in Playing(h) : h.player[other].over THEN k ELSE h
  BY <1>1, <1>2, <1>3, <1>4, <1>5 DEF LosesLastLife
<1>7. Touches(g, LosesLastLife(g, c), c)
  BY LosesLastLifeIs
<1>8. CASE \A other \in Playing(h) : h.player[other].over
  <2>1. LosesLastLife(g, c) = k
    BY <1>6, <1>8
  <2>2. Playing(k) = Playing(h) /\ Playing(h) \subseteq Clients
    <3>1. Like(h, k)
      BY <1>5 DEF Touches, Alters
    <3>2. Playing(h) \subseteq Clients
      BY DEF Playing, There
    <3> QED BY <3>1, <3>2, LikePlaying
  <2>3. OthersOut(k, c)
    BY <1>5, <1>8, <2>2 DEF OthersOut, Touches
  <2> QED BY <1>1, <1>2, <1>4, <1>5, <1>7, <2>1, <2>3 DEF Fallen, Enters, SameLife, Spent
<1>9. CASE \E other \in Playing(h) : ~h.player[other].over
  <2>1. LosesLastLife(g, c) = h
    BY <1>6, <1>9
  <2> QED BY <1>1, <1>2, <1>4, <1>7, <1>9, <2>1 DEF Fallen, SameLife, Spent
<1> QED BY <1>8, <1>9

\* What the turn of c may come to: nothing, with nothing to come back for,
Passes(g, h, c, called) ==
  h = g /\ (called /\ g.player[c].there => ~WarmsUp(g) /\ (Fights(g) => g.limit \/ g.player[c].over))

\* back into the world,
Comes(g, h, c) ==
  /\ Touches(g, h, c) /\ g.player[c].there
  /\ Returns(g, g.player[c]) /\ Enters(g.player[c], h.player[c])

\* the end of the last life,
Falls(g, h, c) ==
  /\ Touches(g, h, c) /\ g.player[c].there
  /\ Fights(g) /\ ~Returns(g, g.player[c]) /\ ~g.limit /\ ~g.player[c].over
  /\ Fallen(h, c, g.player[c])

\* to the spectators by choice,
Quits(g, h, c) ==
  LET p == g.player[c]
      q == h.player[c]
  IN  /\ Touches(g, h, c) /\ p.there /\ p.want
      /\ q.spec /\ q.over = p.over /\ q.again = p.again /\ q.present = p.present /\ q.frags = 0

\* which may be the end of the match.
Ends(g, h) ==
  /\ Goes(g, h) /\ InMatch(g) /\ h.state = "GAMEREVIEW"
  /\ \A d \in Clients : LET p == g.player[d]
                            q == h.player[d]
                        IN  /\ q.over = p.over /\ q.again = p.again /\ q.present = p.present
                            /\ q.frags \in {p.frags, 0}

LEMMA RespawnsTurn ==
  ASSUME NEW g \in Games, NEW c \in Clients, bound \in Bounds, LastMan, g.player[c].there,
         NEW h, h = Respawns(g, c)
  PROVE  Passes(g, h, c, TRUE) \/ Comes(g, h, c) \/ Falls(g, h, c)
<1>1. PICK p \in Players : p = g.player[c]
  BY DEF Games
<1>2. h = IF Returns(g, p) THEN ServerSpectate(g, c, FALSE)
          ELSE IF Fights(g) /\ ~g.limit /\ ~p.over THEN LosesLastLife(g, c)
          ELSE g
  BY <1>1 DEF Respawns, RespawnsAsLastMan, Returns, Fights, WarmsUp
<1>3. CASE Returns(g, p)
  <2>1. h = ServerSpectate(g, c, FALSE)
    BY <1>2, <1>3
  <2>2. Touches(g, h, c)
    BY <2>1, SpectateIs
  <2>3. Enters(p, h.player[c])
    BY <1>1, <2>1, SpectateLife
  <2> QED BY <1>1, <1>3, <2>2, <2>3 DEF Comes
<1>4. CASE ~Returns(g, p) /\ Fights(g) /\ ~g.limit /\ ~p.over
  <2>1. h = LosesLastLife(g, c)
    BY <1>2, <1>4
  <2>2. ~(p.again /\ p.present)
    BY <1>4 DEF Returns
  <2>3. Touches(g, h, c) /\ Fallen(h, c, p)
    BY <1>1, <2>1, <2>2, LosesLastLifeLife
  <2> QED BY <1>1, <1>4, <2>3 DEF Falls
<1>5. CASE ~Returns(g, p) /\ ~(Fights(g) /\ ~g.limit /\ ~p.over)
  <2>1. h = g
    BY <1>2, <1>5
  <2> QED BY <1>1, <1>5, <2>1 DEF Passes, Returns
<1> QED BY <1>3, <1>4, <1>5

LEMMA RetiresTurn ==
  ASSUME NEW g \in Games, NEW c \in Clients, bound \in Bounds, g.player[c].there,
         g.player[c].want, NEW k, k = Retires(g, c)
  PROVE  Quits(g, k, c) \/ Ends(g, k)
<1>1. PICK o : o = g.player[c] /\ o \in Players
  BY DEF Games
<1>2. PICK p : /\ p = [o EXCEPT !.frags = 0] /\ p \in Players /\ Same(o, p) /\ p.frags = 0
               /\ p.over = o.over /\ p.again = o.again /\ p.present = o.present
  <2> DEFINE r == [o EXCEPT !.frags = 0]
  <2>1. /\ r \in Players /\ Same(o, r) /\ r.frags = 0
        /\ r.over = o.over /\ r.again = o.again /\ r.present = o.present
    BY <1>1 DEF Players, Same
  <2> HIDE DEF r
  <2>2. r = [o EXCEPT !.frags = 0]
    BY DEF r
  <2> QED BY <2>1, <2>2
<1>3. PICK a : /\ a = With(g, c, p) /\ Touches(g, a, c) /\ a \in Games /\ a.player[c] = p
  BY <1>1, <1>2, WithIs DEF Touches, Alters
<1>4. PICK h : /\ h = ServerSpectate(a, c, TRUE) /\ Touches(a, h, c) /\ h.player[c].spec
               /\ SameLife(p, h.player[c])
  <2>1. Touches(a, ServerSpectate(a, c, TRUE), c) /\ ServerSpectate(a, c, TRUE).player[c].spec
    BY <1>3, SpectateIs
  <2>2. SameLife(p, ServerSpectate(a, c, TRUE).player[c])
    BY <1>3, SpectateLife
  <2> QED BY <2>1, <2>2
<1>5. Touches(g, h, c) /\ h \in Games
  BY <1>3, <1>4, AltersTrans DEF Touches, Alters
<1>6. k = CheckAbortGame(h)
  BY <1>1, <1>2, <1>3, <1>4 DEF Retires
<1>7. Quits(g, h, c)
  BY <1>1, <1>2, <1>4, <1>5 DEF Quits, SameLife
<1>8. CASE k = h
  BY <1>7, <1>8
<1>9. CASE Breaks(h, k)
  <2>1. Goes(g, k)
    BY <1>5, <1>9, TouchesGoes, GoesTrans DEF Breaks
  <2>2. InMatch(g) /\ k.state = "GAMEREVIEW"
    BY <1>5, <1>9 DEF Breaks, InMatch, Touches, Alters, Steady
  <2>3. ASSUME NEW d \in Clients
        PROVE  /\ k.player[d].over = g.player[d].over /\ k.player[d].again = g.player[d].again
               /\ k.player[d].present = g.player[d].present
               /\ k.player[d].frags \in {g.player[d].frags, 0}
    <3>1. SameLife(h.player[d], k.player[d])
      BY <1>9 DEF Breaks
    <3>2. CASE d = c
      BY <1>7, <3>1, <3>2 DEF Quits, SameLife
    <3>3. CASE d # c
      BY <1>5, <3>1, <3>3 DEF Touches, SameLife
    <3> QED BY <3>2, <3>3
  <2> QED BY <2>1, <2>2, <2>3 DEF Ends
<1> QED BY <1>5, <1>6, <1>8, <1>9, CheckAbortLife

LEMMA Turn ==
  ASSUME NEW g \in Games, NEW c \in Clients, NEW spectator, bound \in Bounds, LastMan,
         NEW h, h = CheckOf(g, c, spectator)
  PROVE  LET called == WantRespawn(g.player[c]) \/ c = spectator
         IN  \/ Passes(g, h, c, called)
             \/ (Comes(g, h, c) \/ Falls(g, h, c)) /\ called
             \/ Quits(g, h, c) \/ Ends(g, h)
<1> DEFINE called == WantRespawn(g.player[c]) \/ c = spectator
<1>1. CASE ~g.player[c].there
  BY <1>1 DEF CheckOf, Passes
<1>2. CASE g.player[c].there /\ called
  <2>1. h = Respawns(g, c)
    BY <1>2 DEF CheckOf
  <2>2. Passes(g, h, c, TRUE) \/ Comes(g, h, c) \/ Falls(g, h, c)
    BY <1>2, <2>1, RespawnsTurn
  <2> QED BY <1>2, <2>2 DEF Passes
<1>3. CASE g.player[c].there /\ ~called /\ g.player[c].want /\ ~g.player[c].spec
  <2>1. h = Retires(g, c)
    BY <1>3 DEF CheckOf
  <2> QED BY <1>3, <2>1, RetiresTurn
<1>4. CASE g.player[c].there /\ ~called /\ ~(g.player[c].want /\ ~g.player[c].spec)
  BY <1>4 DEF CheckOf, Passes
<1> QED BY <1>1, <1>2, <1>3, <1>4

\* Who loses a last life has no lives left, before sudden death.
Fell(g, p) ==
  LastMan /\ Fights(g) /\ p.there /\ (g.state = "GAMEON" /\ p.present => p.frags <= 0)

AllSpent(g) == \A c \in Clients : Spent(g.player[c])

\* There is somebody to go on with.
Somebody(g) == \E c \in There(g) : g.player[c].ingame /\ ~g.player[c].over

\* What c's turn may change in a match that goes on.
Went(g, h, c) ==
  LET p == g.player[c]
      q == h.player[c]
  IN  /\ q.present = p.present
      /\ q.frags = p.frags \/ Fell(g, p) \/ (q.want /\ q.spec)
      /\ Fights(g) /\ p.over => q.over
      /\ Fights(g) /\ p.spec /\ ~p.present /\ q.there /\ ~q.spec => OthersOut(h, c)
      /\ Fights(g) /\ p.there /\ WantRespawn(p) /\ p.spec /\ ~p.over /\ ~g.limit => ~q.spec \/ q.over
      /\ Eager(p) => Eager(q)

OnlyTurn(g, h, c) ==
  /\ Goes(g, h) /\ AllSpent(h)
  /\ \A d \in Clients : h.player[d].over => g.player[d].over \/ (d = c /\ Fell(g, g.player[c]))
  /\ h.state # "GAMEREVIEW" =>
       /\ h.limit = g.limit /\ Went(g, h, c)
       /\ \A d \in Clients : d # c => h.player[d] = g.player[d]
       /\ Fights(g) /\ Somebody(g) => Somebody(h)

LEMMA PassesTurn ==
  ASSUME NEW g \in Games, NEW h, NEW c \in Clients, AllSpent(g),
         Passes(g, h, c, WantRespawn(g.player[c]))
  PROVE  OnlyTurn(g, h, c)
<1>1. h = g /\ Goes(g, h)
  BY GoesSelf DEF Passes
<1>2. Went(g, h, c)
  BY DEF Passes, Went
<1> QED BY <1>1, <1>2 DEF OnlyTurn

LEMMA ComesTurn ==
  ASSUME NEW g \in Games, NEW h, NEW c \in Clients, AllSpent(g), Comes(g, h, c)
  PROVE  OnlyTurn(g, h, c)
<1>1. PICK p \in Players : p = g.player[c] /\ Spent(p) /\ Returns(g, p) /\ p.there
  BY DEF Games, AllSpent, Comes
<1>2. PICK q \in Players : q = h.player[c] /\ Enters(p, q) /\ q.there
  BY <1>1 DEF Comes, Touches, Alters, Games, Like, Same
<1>3. Goes(g, h) /\ h.limit = g.limit /\ \A d \in Clients : d # c => h.player[d] = g.player[d]
  <2>1. Touches(g, h, c)
    BY DEF Comes
  <2>2. Goes(g, h)
    BY <2>1, TouchesGoes
  <2> QED BY <2>1, <2>2 DEF Touches, Alters
<1>4. Spent(q) /\ Eager(q) /\ ~q.over
  BY <1>2 DEF Enters, Spent, Eager
<1>5. AllSpent(h)
  BY <1>2, <1>3, <1>4 DEF AllSpent
<1>6. Fights(g) => ~p.over /\ p.present
  BY <1>1 DEF Spent, Returns, Fights, WarmsUp, Players
<1>7. Went(g, h, c)
  BY <1>1, <1>2, <1>4, <1>6 DEF Went, Enters
<1>8. Somebody(g) => Somebody(h)
  <2>1. Like(g, h)
    BY DEF Comes, Touches, Alters
  <2>2. ASSUME NEW e \in There(g), g.player[e].ingame, ~g.player[e].over
        PROVE  e \in There(h) /\ h.player[e].ingame /\ ~h.player[e].over
    BY <1>2, <1>3, <1>4, <2>1, <2>2 DEF There, Like, Same
  <2> QED BY <2>2 DEF Somebody
<1>9. \A d \in Clients : h.player[d].over => g.player[d].over
  BY <1>2, <1>3, <1>4
<1> QED BY <1>3, <1>5, <1>7, <1>8, <1>9 DEF OnlyTurn

LEMMA FallsTurn ==
  ASSUME NEW g \in Games, NEW h, NEW c \in Clients, AllSpent(g), LastMan, Falls(g, h, c),
         WantRespawn(g.player[c])
  PROVE  OnlyTurn(g, h, c)
<1>1. PICK p \in Players : p = g.player[c] /\ p.there /\ ~Returns(g, p) /\ ~p.over /\ WantRespawn(p)
  BY DEF Games, Falls
<1>2. PICK q \in Players : q = h.player[c] /\ q.there /\ q.ingame
  BY <1>1 DEF Falls, Touches, Alters, Games, Like, Same, WantRespawn
<1>3. Goes(g, h) /\ h.limit = g.limit /\ \A d \in Clients : d # c => h.player[d] = g.player[d]
  <2>1. Touches(g, h, c)
    BY DEF Falls
  <2>2. Goes(g, h)
    BY <2>1, TouchesGoes
  <2> QED BY <2>1, <2>2 DEF Touches, Alters
<1>4. Fallen(h, c, p) /\ Fights(g)
  BY <1>1 DEF Falls
<1>5. Spent(q) /\ Eager(q) /\ q.present = p.present
  BY <1>2, <1>4 DEF Fallen, Eager
<1>6. AllSpent(h)
  BY <1>2, <1>3, <1>5 DEF AllSpent
<1>7. Fell(g, p)
  <2>1. g.state = "GAMEON" /\ p.present => p.frags <= 0
    BY <1>1 DEF Returns, Players
  <2> QED BY <1>1, <1>4, <2>1 DEF Fell
<1>8. Went(g, h, c)
  <2>1. ~q.spec => OthersOut(h, c)
    BY <1>2, <1>4 DEF Fallen
  <2>2. ~q.spec \/ q.over
    BY <1>2, <1>4 DEF Fallen
  <2> QED BY <1>1, <1>2, <1>5, <1>7, <2>1, <2>2 DEF Went
<1>9. Somebody(h)
  <2>1. CASE q.over
    <3>1. PICK other \in Playing(h) : ~h.player[other].over
      BY <1>2, <1>4, <2>1 DEF Fallen
    <3> QED BY <3>1 DEF Playing, CanPlay, Somebody
  <2>2. CASE ~q.over
    BY <1>2, <2>2 DEF Somebody, There
  <2> QED BY <2>1, <2>2
<1>10. \A d \in Clients : h.player[d].over => g.player[d].over \/ d = c
  BY <1>3
<1> QED BY <1>1, <1>3, <1>6, <1>7, <1>8, <1>9, <1>10 DEF OnlyTurn

LEMMA QuitsTurn ==
  ASSUME NEW g \in Games, NEW h, NEW c \in Clients, AllSpent(g), Quits(g, h, c)
  PROVE  OnlyTurn(g, h, c)
<1>1. PICK p \in Players : p = g.player[c] /\ p.there /\ p.want /\ Spent(p)
  BY DEF Games, Quits, AllSpent
<1>2. PICK q : /\ q = h.player[c] /\ q.want /\ q.spec /\ q.over = p.over
               /\ q.again = p.again /\ q.present = p.present /\ q.frags = 0
  BY <1>1 DEF Quits, Touches, Alters, Like, Same
<1>3. Goes(g, h) /\ h.limit = g.limit /\ \A d \in Clients : d # c => h.player[d] = g.player[d]
  <2>1. Touches(g, h, c)
    BY DEF Quits
  <2>2. Goes(g, h)
    BY <2>1, TouchesGoes
  <2> QED BY <2>1, <2>2 DEF Touches, Alters
<1>4. AllSpent(h)
  BY <1>1, <1>2, <1>3 DEF AllSpent, Spent
<1>5. Went(g, h, c)
  BY <1>1, <1>2 DEF Went, Eager, WantRespawn
<1>6. Somebody(g) => Somebody(h)
  <2>1. Like(g, h)
    BY DEF Quits, Touches, Alters
  <2>2. ASSUME NEW e \in There(g), g.player[e].ingame, ~g.player[e].over
        PROVE  e \in There(h) /\ h.player[e].ingame /\ ~h.player[e].over
    BY <1>1, <1>2, <1>3, <2>1, <2>2 DEF There, Like, Same
  <2> QED BY <2>2 DEF Somebody
<1>7. \A d \in Clients : h.player[d].over => g.player[d].over
  BY <1>1, <1>2, <1>3
<1> QED BY <1>3, <1>4, <1>5, <1>6, <1>7 DEF OnlyTurn

LEMMA EndsTurn ==
  ASSUME NEW g \in Games, NEW h, NEW c \in Clients, AllSpent(g), Ends(g, h)
  PROVE  OnlyTurn(g, h, c)
<1>1. AllSpent(h)
  BY DEF Ends, AllSpent, Spent
<1> QED BY <1>1 DEF Ends, OnlyTurn

LEMMA CheckOfTurn ==
  ASSUME NEW g \in Games, NEW c \in Clients, bound \in Bounds, LastMan, AllSpent(g)
  PROVE  OnlyTurn(g, CheckOf(g, c, None), c)
<1>1. c # None
  BY DEF Clients, None
<1>2. PICK s : s = None
  OBVIOUS
<1>3. PICK h : h = CheckOf(g, c, s)
  OBVIOUS
<1>4. PICK called : called = (WantRespawn(g.player[c]) \/ c = s)
  OBVIOUS
<1>5. \/ Passes(g, h, c, called)
      \/ (Comes(g, h, c) \/ Falls(g, h, c)) /\ called
      \/ Quits(g, h, c) \/ Ends(g, h)
  BY <1>3, <1>4, Turn
<1>6. called = WantRespawn(g.player[c])
  BY <1>1, <1>2, <1>4 DEF WantRespawn
<1>7. OnlyTurn(g, h, c)
  BY <1>5, <1>6, PassesTurn, ComesTurn, FallsTurn, QuitsTurn, EndsTurn
<1> QED BY <1>2, <1>3, <1>7

-----------------------------------------------------------------------------
(* Everybody's turns *)

\* A match goes on, after the turns of all below n.
Kept(g, h, n) ==
  /\ h.limit = g.limit
  /\ \A c \in Clients : IF c < n THEN Went(g, h, c) ELSE h.player[c] = g.player[c]
  /\ Fights(g) /\ Somebody(g) => Somebody(h)

Took(g, h, n) ==
  /\ Goes(g, h) /\ AllSpent(h)
  /\ \A c \in Clients : h.player[c].over => g.player[c].over \/ Fell(g, g.player[c])
  /\ h.state # "GAMEREVIEW" => Kept(g, h, n)

\* The turn of m after that of c.
LEMMA WentNext ==
  ASSUME NEW g \in Games, NEW h \in Games, NEW k, NEW c \in Clients, NEW m \in Clients, c # m,
         Goes(g, h), Steady(g, h), OnlyTurn(h, k, m), k.state # "GAMEREVIEW", Went(g, h, c)
  PROVE  Went(g, k, c)
<1>1. k.player[c] = h.player[c] /\ Went(h, k, m) /\ Like(h, k)
  BY DEF OnlyTurn, Goes
<1>2. Fights(g) <=> Fights(h)
  BY DEF Fights, Steady
<1>3. ASSUME Fights(g), OthersOut(h, c)
      PROVE  OthersOut(k, c)
  <2>1. Playing(k) = Playing(h)
    BY <1>1, LikePlaying
  <2>2. Playing(h) \subseteq Clients
    BY DEF Playing, There
  <2>3. ASSUME NEW e \in Playing(k) \ {c}
        PROVE  k.player[e].over
    <3>1. h.player[e].over /\ e \in Clients
      BY <1>3, <2>1, <2>2 DEF OthersOut
    <3>2. CASE e = m
      BY <1>1, <1>2, <1>3, <3>1, <3>2 DEF Went
    <3>3. CASE e # m
      BY <3>1, <3>3 DEF OnlyTurn
    <3> QED BY <3>2, <3>3
  <2> QED BY <2>3 DEF OthersOut
<1> QED BY <1>1, <1>3 DEF Went

LEMMA TookNext ==
  ASSUME NEW g \in Games, NEW h \in Games, NEW m \in Clients, bound \in Bounds, LastMan,
         Took(g, h, m)
  PROVE  Took(g, CheckOf(h, m, None), m + 1)
<1>1. PICK k : k = CheckOf(h, m, None) /\ OnlyTurn(h, k, m)
  BY CheckOfTurn DEF Took
<1>2. Goes(g, k) /\ AllSpent(k)
  BY <1>1, GoesTrans DEF Took, OnlyTurn
<1>3. h.state # "GAMEREVIEW" => /\ Steady(g, h) /\ h.limit = g.limit
                               /\ h.player[m] = g.player[m]
  BY DEF Took, Goes, Kept, Clients
<1>4. k.state # "GAMEREVIEW" => h.state # "GAMEREVIEW"
  BY <1>1 DEF OnlyTurn, Goes, Steady
<1>5. ASSUME NEW c \in Clients, k.player[c].over
      PROVE  g.player[c].over \/ Fell(g, g.player[c])
  <2>1. h.player[c].over \/ (c = m /\ Fell(h, h.player[m]))
    BY <1>1, <1>5 DEF OnlyTurn
  <2>2. ASSUME Fell(h, h.player[m])
        PROVE  Fell(g, g.player[m])
    <3>1. h.state # "GAMEREVIEW"
      BY <2>2 DEF Fell, Fights
    <3> QED BY <1>3, <2>2, <3>1 DEF Fell, Fights, Steady
  <2> QED BY <2>1, <2>2 DEF Took
<1>6. ASSUME k.state # "GAMEREVIEW"
      PROVE  Kept(g, k, m + 1)
  <2>1. Kept(g, h, m) /\ Steady(g, h) /\ h.limit = g.limit /\ h.player[m] = g.player[m]
    BY <1>3, <1>4, <1>6 DEF Took
  <2>2. /\ k.limit = h.limit /\ Went(h, k, m) /\ Goes(g, h)
        /\ \A d \in Clients : d # m => k.player[d] = h.player[d]
        /\ Fights(h) /\ Somebody(h) => Somebody(k)
    BY <1>1, <1>6 DEF OnlyTurn, Took
  <2>3. Fights(h) <=> Fights(g)
    BY <2>1 DEF Fights, Steady
  <2>4. Went(g, k, m)
    <3>1. Fell(h, h.player[m]) => Fell(g, g.player[m])
      BY <2>1, <2>3 DEF Fell, Steady
    <3> QED BY <2>1, <2>2, <2>3, <3>1 DEF Went
  <2>5. ASSUME NEW c \in Clients
        PROVE  IF c < m + 1 THEN Went(g, k, c) ELSE k.player[c] = g.player[c]
    <3>1. CASE c = m
      <4>1. c < m + 1
        BY <3>1 DEF Clients
      <4> QED BY <2>4, <3>1, <4>1
    <3>2. CASE c # m
      <4>1. c < m + 1 <=> c < m
        BY <3>2 DEF Clients
      <4>2. k.player[c] = h.player[c]
        BY <2>2, <3>2
      <4>3. c < m => Went(g, h, c)
        BY <2>1 DEF Kept
      <4>4. c < m => Went(g, k, c)
        BY <1>1, <1>6, <2>1, <2>2, <3>2, <4>3, WentNext
      <4>5. ~(c < m) => k.player[c] = g.player[c]
        BY <2>1, <4>2 DEF Kept
      <4> QED BY <4>1, <4>4, <4>5
    <3> QED BY <3>1, <3>2
  <2>6. Fights(g) /\ Somebody(g) => Somebody(k)
    BY <2>1, <2>2, <2>3 DEF Kept
  <2> QED BY <2>1, <2>2, <2>5, <2>6 DEF Kept
<1> QED BY <1>1, <1>2, <1>5, <1>6 DEF Took

LEMMA CheckRespawnsLife ==
  ASSUME NEW g \in Games, bound \in Bounds, LastMan, AllSpent(g)
  PROVE  Took(g, CheckRespawns(g), N)
<1>0. N \in Nat /\ 0 \in 0 .. N /\ N \in 0 .. N
  BY MultiplayerGameAssumption
<1>1. PICK G : G = [n \in 0 .. N |-> {h \in Games : Took(g, h, n)}]
  OBVIOUS
<1>2. g \in G[0]
  <2>1. Kept(g, g, 0)
    BY DEF Kept, Clients
  <2>2. Took(g, g, 0)
    BY <2>1, GoesSelf DEF Took
  <2> QED BY <1>0, <1>1, <2>2
<1>3. ASSUME NEW n \in Clients, NEW h \in Games, h \in G[n]
      PROVE  CheckOf(h, n, None) \in G[n + 1]
  <2>1. n \in 0 .. N /\ n + 1 \in 0 .. N
    BY <1>0 DEF Clients
  <2>2. Took(g, h, n)
    BY <1>1, <1>3, <2>1
  <2>3. PICK k : k = CheckOf(h, n, None) /\ Took(g, k, n + 1)
    BY <2>2, TookNext
  <2> QED BY <1>1, <2>1, <2>3 DEF Took, Goes
<1>4. CheckRespawnsAnd(g, None) \in G[N]
  BY <1>2, <1>3, CheckRuns
<1> QED BY <1>0, <1>1, <1>4 DEF CheckRespawns

-----------------------------------------------------------------------------
(* Who is out, in any game *)

Fewer(g, h) == \A c \in Clients : h.player[c].over => g.player[c].over

LEMMA FewerTrans ==
  ASSUME NEW g, NEW h, NEW k, Fewer(g, h), Fewer(h, k)
  PROVE  Fewer(g, k)
BY DEF Fewer

LEMMA SpectateFewer ==
  ASSUME NEW g \in Games, NEW c \in Clients, NEW spectate \in BOOLEAN
  PROVE  Fewer(g, ServerSpectate(g, c, spectate))
<1>1. PICK h : h = ServerSpectate(g, c, spectate) /\ Touches(g, h, c)
  BY SpectateIs
<1>2. h.player[c].over => g.player[c].over
  <2>1. CASE spectate
    <3>1. SameLife(g.player[c], h.player[c])
      BY <1>1, <2>1, SpectateLife
    <3> QED BY <3>1 DEF SameLife
  <2>2. CASE ~spectate
    <3>1. ~h.player[c].over
      BY <1>1, <2>2, SpectateLife
    <3> QED BY <3>1
  <2> QED BY <2>1, <2>2
<1> QED BY <1>1, <1>2 DEF Fewer, Touches

LEMMA CheckOfFewer ==
  ASSUME NEW g \in Games, NEW c \in Clients, NEW spectator, bound \in Bounds, ~LastMan
  PROVE  Fewer(g, CheckOf(g, c, spectator))
<1>1. PICK in : in = ServerSpectate(g, c, FALSE) /\ Fewer(g, in)
  BY SpectateFewer
<1>2. PICK out : out = ServerSpectate(g, c, TRUE) /\ Fewer(g, out) /\ out \in Games
  BY SpectateFewer, SpectateIs DEF Touches, Alters
<1>3. PICK k : k = CheckAbortGame(out) /\ Fewer(g, k)
  <2>1. CheckAbortGame(out) = out \/ Breaks(out, CheckAbortGame(out))
    BY <1>2, CheckAbortLife
  <2>2. Fewer(out, CheckAbortGame(out))
    BY <2>1 DEF Breaks, SameLife, Fewer
  <2> QED BY <1>2, <2>2, FewerTrans
<1>4. Respawns(g, c) \in {g, in, k}
  BY <1>1, <1>2, <1>3 DEF Respawns, RespawnsInSuddenDeath
<1>5. Fewer(g, Respawns(g, c))
  BY <1>1, <1>3, <1>4 DEF Fewer
<1>6. ASSUME g.player[c].there, g.player[c].want
      PROVE  Fewer(g, Retires(g, c))
  <2>1. PICK h : h = Retires(g, c) /\ (Quits(g, h, c) \/ Ends(g, h))
    BY <1>6, RetiresTurn
  <2>2. CASE Quits(g, h, c)
    BY <2>1, <2>2 DEF Quits, Touches, Fewer
  <2>3. CASE Ends(g, h)
    BY <2>1, <2>3 DEF Ends, Fewer
  <2> QED BY <2>1, <2>2, <2>3
<1>7. Fewer(g, g)
  BY DEF Fewer
<1> QED BY <1>5, <1>6, <1>7 DEF CheckOf

LEMMA CheckRespawnsFewer ==
  ASSUME NEW g \in Games, NEW spectator, bound \in Bounds, ~LastMan
  PROVE  Fewer(g, CheckRespawnsAnd(g, spectator))
<1>0. N \in Nat /\ 0 \in 0 .. N /\ N \in 0 .. N
  BY MultiplayerGameAssumption
<1>1. PICK G : G = [n \in 0 .. N |-> {h \in Games : Fewer(g, h)}]
  OBVIOUS
<1>2. g \in G[0]
  BY <1>0, <1>1 DEF Fewer
<1>3. ASSUME NEW n \in Clients, NEW h \in Games, h \in G[n]
      PROVE  CheckOf(h, n, spectator) \in G[n + 1]
  <2>1. n \in 0 .. N /\ n + 1 \in 0 .. N
    BY <1>0 DEF Clients
  <2>2. Fewer(g, h)
    BY <1>1, <1>3, <2>1
  <2>3. PICK k \in Games : k = CheckOf(h, n, spectator) /\ Fewer(h, k)
    BY CheckOfGoes, CheckOfFewer DEF Goes
  <2>4. Fewer(g, k)
    BY <2>2, <2>3, FewerTrans
  <2> QED BY <1>1, <2>1, <2>3, <2>4
<1>4. CheckRespawnsAnd(g, spectator) \in G[N]
  BY <1>2, <1>3, CheckRuns
<1> QED BY <1>0, <1>1, <1>4

-----------------------------------------------------------------------------
(* In the warmup *)

\* Everybody comes back who waits to; the one called comes back anyway.
Warmed(g, h) ==
  /\ Goes(g, h) /\ h.state = "WARMUP" /\ Fewer(g, h)
  /\ AllSpent(g) => AllSpent(h)
  /\ \A c \in Clients : Eager(g.player[c]) => Eager(h.player[c])

LEMMA WarmedTrans ==
  ASSUME NEW g, NEW h, NEW k, Warmed(g, h), Warmed(h, k)
  PROVE  Warmed(g, k)
<1>1. Goes(g, k) /\ Fewer(g, k)
  BY GoesTrans, FewerTrans DEF Warmed
<1> QED BY <1>1 DEF Warmed

LEMMA WarmedSelf ==
  ASSUME NEW g \in Games, g.state = "WARMUP"
  PROVE  Warmed(g, g)
BY GoesSelf DEF Warmed, Fewer

LEMMA WarmTurn ==
  ASSUME NEW g \in Games, NEW c \in Clients, NEW spectator, bound \in Bounds,
         g.state = "WARMUP", NEW h, h = CheckOf(g, c, spectator)
  PROVE  /\ Warmed(g, h)
         /\ c = spectator /\ g.player[c].there => Eager(h.player[c])
<1>1. CASE g.player[c].there /\ (WantRespawn(g.player[c]) \/ c = spectator)
  <2>1. Respawns(g, c) = ServerSpectate(g, c, FALSE)
    BY DEF Respawns, RespawnsAsLastMan
  <2>2. h = ServerSpectate(g, c, FALSE)
    BY <1>1, <2>1 DEF CheckOf
  <2>3. Touches(g, h, c) /\ ~h.player[c].spec
    BY <2>2, SpectateIs
  <2>4. Fewer(g, h) /\ ~h.player[c].over
    BY <2>2, SpectateFewer, SpectateLife
  <2>5. Goes(g, h) /\ h.state = "WARMUP"
    <3>1. Goes(g, h)
      BY <2>3, TouchesGoes
    <3> QED BY <2>3, <3>1 DEF Touches, Alters, Steady
  <2>6. Eager(h.player[c]) /\ Spent(h.player[c])
    BY <2>3, <2>4 DEF Eager, Spent
  <2>7. \A d \in Clients : d # c => h.player[d] = g.player[d]
    BY <2>3 DEF Touches
  <2>8. AllSpent(g) => AllSpent(h)
    BY <2>6, <2>7 DEF AllSpent
  <2>9. \A d \in Clients : Eager(g.player[d]) => Eager(h.player[d])
    BY <2>6, <2>7
  <2> QED BY <2>4, <2>5, <2>6, <2>8, <2>9 DEF Warmed
<1>2. CASE /\ g.player[c].there /\ ~(WantRespawn(g.player[c]) \/ c = spectator)
           /\ g.player[c].want /\ ~g.player[c].spec
  <2>1. h = Retires(g, c)
    BY <1>2 DEF CheckOf
  <2>2. Quits(g, h, c)
    BY <1>2, <2>1, RetiresTurn DEF Ends, InMatch
  <2>3. Touches(g, h, c) /\ h.player[c].want
    BY <2>2 DEF Quits, Touches, Alters, Like, Same
  <2>4. Goes(g, h) /\ h.state = "WARMUP"
    <3>1. Goes(g, h)
      BY <2>3, TouchesGoes
    <3> QED BY <2>3, <3>1 DEF Touches, Alters, Steady
  <2>5. \A d \in Clients : d # c => h.player[d] = g.player[d]
    BY <2>3 DEF Touches
  <2>6. Fewer(g, h)
    BY <2>2, <2>5 DEF Quits, Fewer
  <2>7. Eager(h.player[c]) /\ (Spent(g.player[c]) => Spent(h.player[c]))
    BY <2>2, <2>3 DEF Eager, Spent, Quits
  <2>8. AllSpent(g) => AllSpent(h)
    BY <2>5, <2>7 DEF AllSpent
  <2>9. \A d \in Clients : Eager(g.player[d]) => Eager(h.player[d])
    BY <2>5, <2>7
  <2> QED BY <2>4, <2>6, <2>7, <2>8, <2>9 DEF Warmed
<1>3. CASE ~g.player[c].there \/ ~(\/ WantRespawn(g.player[c]) \/ c = spectator
                                   \/ g.player[c].want /\ ~g.player[c].spec)
  <2>1. h = g
    BY <1>3 DEF CheckOf
  <2> QED BY <1>3, <2>1, WarmedSelf
<1> QED BY <1>1, <1>2, <1>3

LEMMA WarmLoop ==
  ASSUME NEW g \in Games, NEW spectator, bound \in Bounds, g.state = "WARMUP"
  PROVE  LET h == CheckRespawnsAnd(g, spectator)
         IN  /\ Warmed(g, h)
             /\ \A c \in Clients : c = spectator /\ g.player[c].there => Eager(h.player[c])
<1> DEFINE Done(h, n) ==
      /\ Warmed(g, h)
      /\ \A c \in Clients : c < n /\ c = spectator /\ g.player[c].there => Eager(h.player[c])
<1>0. N \in Nat /\ 0 \in 0 .. N /\ N \in 0 .. N
  BY MultiplayerGameAssumption
<1>1. PICK G : G = [n \in 0 .. N |-> {h \in Games : Done(h, n)}]
  OBVIOUS
<1>2. g \in G[0]
  <2>1. Done(g, 0)
    BY WarmedSelf DEF Clients
  <2> HIDE DEF Done
  <2> QED BY <1>0, <1>1, <2>1
<1>3. ASSUME NEW n \in Clients, NEW h \in Games, h \in G[n]
      PROVE  CheckOf(h, n, spectator) \in G[n + 1]
  <2>1. n \in 0 .. N /\ n + 1 \in 0 .. N
    BY <1>0 DEF Clients
  <2>2. Done(h, n)
    <3> HIDE DEF Done
    <3> QED BY <1>1, <1>3, <2>1
  <2>3. PICK k : /\ k = CheckOf(h, n, spectator) /\ Warmed(h, k)
                 /\ n = spectator /\ h.player[n].there => Eager(k.player[n])
    <3>1. h.state = "WARMUP"
      BY <2>2 DEF Warmed
    <3> QED BY <3>1, WarmTurn
  <2>4. Warmed(g, k) /\ k \in Games
    BY <2>2, <2>3, WarmedTrans DEF Warmed, Goes
  <2>5. ASSUME NEW c \in Clients, c < n + 1, c = spectator, g.player[c].there
        PROVE  Eager(k.player[c])
    <3>1. h.player[c].there
      BY <2>2, <2>5 DEF Warmed, Goes, Like, Same
    <3>2. CASE c = n
      BY <2>3, <2>5, <3>1, <3>2
    <3>3. CASE c # n
      <4>1. c < n
        BY <2>5, <3>3 DEF Clients
      <4>2. Eager(h.player[c])
        BY <2>2, <2>5, <4>1
      <4>3. k.player[c] = h.player[c] \/ Eager(k.player[c])
        BY <2>3, <4>2 DEF Warmed
      <4> QED BY <4>2, <4>3
    <3> QED BY <3>2, <3>3
  <2>6. Done(k, n + 1)
    BY <2>4, <2>5
  <2> HIDE DEF Done
  <2> QED BY <1>1, <2>1, <2>3, <2>4, <2>6
<1>4. CheckRespawnsAnd(g, spectator) \in G[N]
  BY <1>2, <1>3, CheckRuns
<1>5. Done(CheckRespawnsAnd(g, spectator), N)
  <2> HIDE DEF Done
  <2> QED BY <1>0, <1>1, <1>4
<1> QED BY <1>0, <1>5 DEF Clients

\* The review over, everybody is in or waits to be put in.
LEMMA BackLife ==
  ASSUME NEW g \in Games, bound \in Bounds, g.state = "WARMUP"
  PROVE  LET h == PutEveryoneBack(g)
         IN  /\ Warmed(g, h)
             /\ \A c \in Clients : g.player[c].there => Eager(h.player[c])
<1> DEFINE Done(h, n) ==
      /\ Warmed(g, h)
      /\ \A c \in Clients : c < n /\ g.player[c].there => Eager(h.player[c])
<1>0. N \in Nat /\ 0 \in 0 .. N /\ N \in 0 .. N
  BY MultiplayerGameAssumption
<1>1. PICK G : G = [n \in 0 .. N |-> {h \in Games : Done(h, n)}]
  OBVIOUS
<1>2. g \in G[0]
  <2>1. Done(g, 0)
    BY WarmedSelf DEF Clients
  <2> HIDE DEF Done
  <2> QED BY <1>0, <1>1, <2>1
<1>3. ASSUME NEW n \in Clients, NEW h \in Games, h \in G[n]
      PROVE  BackOf(h, n) \in G[n + 1]
  <2>1. n \in 0 .. N /\ n + 1 \in 0 .. N
    BY <1>0 DEF Clients
  <2>2. Done(h, n)
    <3> HIDE DEF Done
    <3> QED BY <1>1, <1>3, <2>1
  <2>3. PICK k : k = BackOf(h, n)
    OBVIOUS
  <2>4. Warmed(h, k) /\ (h.player[n].there => Eager(k.player[n]))
    <3>1. h.state = "WARMUP"
      BY <2>2 DEF Warmed
    <3>2. CASE h.player[n].there /\ ~h.player[n].want
      <4>1. k = CheckRespawnsAnd(h, n)
        BY <2>3, <3>2 DEF BackOf
      <4> QED BY <3>1, <3>2, <4>1, WarmLoop
    <3>3. CASE ~(h.player[n].there /\ ~h.player[n].want)
      <4>1. k = h
        BY <2>3, <3>3 DEF BackOf
      <4> QED BY <3>1, <3>3, <4>1, WarmedSelf DEF Eager
    <3> QED BY <3>2, <3>3
  <2>5. Warmed(g, k) /\ k \in Games
    BY <2>2, <2>4, WarmedTrans DEF Warmed, Goes
  <2>6. ASSUME NEW c \in Clients, c < n + 1, g.player[c].there
        PROVE  Eager(k.player[c])
    <3>1. h.player[c].there
      BY <2>2, <2>6 DEF Warmed, Goes, Like, Same
    <3>2. CASE c = n
      BY <2>4, <3>1, <3>2
    <3>3. CASE c # n
      <4>1. c < n
        BY <2>6, <3>3 DEF Clients
      <4>2. Eager(h.player[c])
        BY <2>2, <2>6, <4>1
      <4> QED BY <2>4, <4>2 DEF Warmed
    <3> QED BY <3>2, <3>3
  <2>7. Done(k, n + 1)
    BY <2>5, <2>6
  <2> HIDE DEF Done
  <2> QED BY <1>1, <2>1, <2>3, <2>5, <2>7
<1>4. PutEveryoneBack(g) \in G[N]
  BY <1>2, <1>3, BackRuns
<1>5. Done(PutEveryoneBack(g), N)
  <2> HIDE DEF Done
  <2> QED BY <1>0, <1>1, <1>4
<1> QED BY <1>0, <1>5 DEF Clients

-----------------------------------------------------------------------------
(* A frame, in last man standing *)

\* What a vote may come to: who is gone is gone, a map that begins anew, the end.
Polled(g, h) ==
  /\ Fewer(g, h) /\ (AllSpent(g) => AllSpent(h))
  /\ \/ h.state = g.state /\ \A c \in Clients : h.player[c].there => h.player[c] = g.player[c]
     \/ h.state = "WARMUP" /\ \A c \in Clients : h.player[c].there => Eager(h.player[c])
     \/ h.state = "GAMEREVIEW"

LEMMA PolledSame ==
  ASSUME NEW g, NEW h, NEW a, NEW k, Polled(h, a), h.player = g.player, h.state = g.state,
         k.player = a.player, k.state = a.state
  PROVE  Polled(g, k)
BY DEF Polled, Fewer, AllSpent

LEMMA PolledSelf ==
  ASSUME NEW g
  PROVE  Polled(g, g)
BY DEF Polled, Fewer

LEMMA DisconnectLife ==
  ASSUME NEW g \in Games, NEW c \in Clients, bound \in Bounds
  PROVE  Polled(g, ServerClientDisconnect(g, c))
<1>1. PICK p \in Players : p = Deleted(g.player[c]) /\ ~p.there /\ ~p.over
  <2>1. PICK o \in Players : o = g.player[c]
    BY DEF Games
  <2>2. PICK b \in BOOLEAN, n \in Int, v \in Ballots : b = o.ingame /\ n = o.frags /\ v = o.vote
    BY DEF Players
  <2>3. PICK q \in Players : q = NoPlayer /\ ~q.there /\ ~q.over
    <3>1. NoPlayer \in Players /\ ~NoPlayer.there /\ ~NoPlayer.over
      BY DEF NoPlayer, Players, Ballots
    <3> QED BY <3>1
  <2> DEFINE r == [q EXCEPT !.ingame = b, !.frags = n, !.vote = v]
  <2>4. r \in Players /\ ~r.there /\ ~r.over
    <3>1. r \in Players
      BY ZenonT(60) DEF Players
    <3>2. r.there = q.there /\ r.over = q.over
      BY ZenonT(60) DEF Players
    <3> QED BY <2>3, <3>1, <3>2
  <2> HIDE DEF r
  <2>5. r = Deleted(o)
    BY <2>2, <2>3 DEF r, Deleted
  <2> QED BY <2>1, <2>4, <2>5
<1>2. PICK a : /\ a = With(g, c, p) /\ a \in Games /\ a.state = g.state /\ a.player[c] = p
               /\ \A d \in Clients : d # c => a.player[d] = g.player[d]
  BY WithIs DEF Steady
<1>3. PICK k : k = [a EXCEPT !.inbox[c] = <<>>] /\ k.player = a.player /\ k.state = a.state
  <2>1. PICK k : k = [a EXCEPT !.inbox[c] = <<>>]
    OBVIOUS
  <2>2. k.player = a.player /\ k.state = a.state
    BY <1>2, <2>1 DEF Games
  <2> QED BY <2>1, <2>2
<1>4. k \in Games
  <2>1. PICK i : i = a.inbox /\ i \in [Clients -> Seq(Messages)]
    BY <1>2 DEF Games
  <2>2. PICK none \in Seq(Messages) : none = <<>>
    BY EmptySeq
  <2>3. PICK j : j = [i EXCEPT ![c] = none] /\ j \in [Clients -> Seq(Messages)]
    <3>1. [i EXCEPT ![c] = none] \in [Clients -> Seq(Messages)]
      BY <2>1
    <3> QED BY <3>1
  <2>4. [a EXCEPT !.inbox = j] \in Games
    BY <1>2, <2>3 DEF Games
  <2>5. k = [a EXCEPT !.inbox = j]
    BY <1>2, <1>3, <2>1, <2>2, <2>3
  <2> QED BY <2>4, <2>5
<1>5. PICK h : h = CheckAbortGame(k) /\ (h = k \/ Breaks(k, h))
  BY <1>4, CheckAbortLife
<1>6. ServerClientDisconnect(g, c) = h
  BY <1>1, <1>2, <1>3, <1>5 DEF ServerClientDisconnect
<1>7. Polled(g, k)
  BY <1>1, <1>2, <1>3 DEF Polled, Fewer, AllSpent, Spent
<1>8. ASSUME Breaks(k, h)
      PROVE  Polled(g, h)
  <2>1. \A d \in Clients : SameLife(k.player[d], h.player[d])
    BY <1>8 DEF Breaks
  <2>2. Fewer(g, h) /\ (AllSpent(g) => AllSpent(h))
    BY <1>7, <2>1 DEF Polled, Fewer, AllSpent, Spent, SameLife
  <2> QED BY <1>8, <2>2 DEF Polled, Breaks
<1> QED BY <1>5, <1>6, <1>7, <1>8

LEMMA MapRestartPolled ==
  ASSUME NEW g \in Games, bound \in Bounds
  PROVE  Polled(g, MapRestart(g))
<1>1. PICK h : h = LocalMapRestart(g) /\ Alters(g, h) /\ Anew(g, h) /\ h \in Games
  BY MapRestartLoop, MapRestartLife DEF Alters
<1>2. PICK k : /\ k = MapRestart(g) /\ k.state = "WARMUP"
               /\ \A c \in Clients : k.player[c] = h.player[c]
  <2>0. PICK k : k = MapRestart(g) /\ k.state = "WARMUP"
    BY MapRestartIs
  <2>1. CASE h.state = "WARMUP"
    <3>1. k = h
      BY <1>1, <2>0, <2>1 DEF MapRestart
    <3> QED BY <2>0, <3>1
  <2>2. CASE h.state # "WARMUP"
    <3>1. "WARMUP" \in States
      BY DEF States
    <3>2. PICK a : a = NewState(h, "WARMUP")
      OBVIOUS
    <3>3. a \in Games /\ \A c \in Clients : a.player[c] = h.player[c]
      BY <1>1, <3>1, <3>2, NewStateIs, NewStateLife
    <3>4. k = [a EXCEPT !.next = "INACTIVE"]
      BY <1>1, <2>0, <2>2, <3>2 DEF MapRestart
    <3>5. k.player = a.player
      BY <3>3, <3>4 DEF Games
    <3>6. \A c \in Clients : k.player[c] = h.player[c]
      BY <3>3, <3>5
    <3> QED BY <2>0, <3>6
  <2> QED BY <2>1, <2>2
<1>3. ASSUME NEW c \in Clients
      PROVE  /\ k.player[c].over => g.player[c].over
             /\ Spent(g.player[c]) => Spent(k.player[c])
             /\ k.player[c].there => Eager(k.player[c])
  <2>1. k.player[c].there = g.player[c].there
    BY <1>1, <1>2 DEF Alters, Like, Same
  <2> QED BY <1>1, <1>2, <2>1 DEF Anew, Spent, Eager
<1> QED BY <1>2, <1>3 DEF Polled, Fewer, AllSpent

LEMMA CheckVoteLife ==
  ASSUME NEW g \in Games, NEW due, bound \in Bounds
  PROVE  Polled(g, CheckVote(g, due))
<1>1. PICK v \in Votes : v = g.vote /\ v.yes \in Nat /\ v.no \in Nat
  BY DEF Games, Votes
<1>2. ASSUME NEW status \in {"ABORTED", "FAILED", "PASSED"}
      PROVE  Tell(g, UpdateVote(status, v.yes, v.no)) \in Games
             /\ Tell(g, UpdateVote(status, v.yes, v.no)).player = g.player
             /\ Tell(g, UpdateVote(status, v.yes, v.no)).state = g.state
  <2>1. PICK m \in Messages : m = UpdateVote(status, v.yes, v.no)
    BY <1>1, UpdateVoteIs
  <2> QED BY <2>1, TellIs DEF Steady
<1>3. ASSUME NEW t \in Games, NEW new
      PROVE  [t EXCEPT !.vote = new].player = t.player /\ [t EXCEPT !.vote = new].state = t.state
  BY DEF Games
<1>4. ASSUME NEW t \in Games, NEW b \in BOOLEAN
      PROVE  /\ [t EXCEPT !.vote.exec = b] \in Games
             /\ [t EXCEPT !.vote.exec = b].player = t.player
             /\ [t EXCEPT !.vote.exec = b].state = t.state
  BY ExecIs DEF Steady
<1>5. ASSUME NEW status \in {"ABORTED", "FAILED"}
      PROVE  Polled(g, [Tell(g, UpdateVote(status, v.yes, v.no)) EXCEPT !.vote = NoVote])
  <2>1. PICK t \in Games : /\ t = Tell(g, UpdateVote(status, v.yes, v.no))
                           /\ t.player = g.player /\ t.state = g.state
    BY <1>2
  <2>2. PICK k : k = [t EXCEPT !.vote = NoVote]
    OBVIOUS
  <2>3. k.player = t.player /\ k.state = t.state
    BY <1>3, <2>2
  <2>4. Polled(g, k)
    BY <2>1, <2>3, PolledSelf, PolledSame
  <2> QED BY <2>1, <2>2, <2>4
<1>6. Polled(g, [Tell(g, UpdateVote("PASSED", v.yes, v.no)) EXCEPT !.vote.exec = TRUE])
  <2>1. PICK t \in Games : /\ t = Tell(g, UpdateVote("PASSED", v.yes, v.no))
                           /\ t.player = g.player /\ t.state = g.state
    BY <1>2
  <2>2. PICK k : k = [t EXCEPT !.vote.exec = TRUE]
    OBVIOUS
  <2>3. k.player = t.player /\ k.state = t.state
    BY <1>4, <2>2
  <2>4. Polled(g, k)
    BY <2>1, <2>3, PolledSelf, PolledSame
  <2> QED BY <2>1, <2>2, <2>4
<1>7. Polled(g, [ExecuteVote(Tell([g EXCEPT !.vote.exec = FALSE], UpdateVote("RESET", 0, 0)))
                   EXCEPT !.vote = NoVote])
  <2>1. PICK a \in Games : /\ a = [g EXCEPT !.vote.exec = FALSE]
                           /\ a.player = g.player /\ a.state = g.state
    <3>1. PICK b \in BOOLEAN : b = FALSE
      OBVIOUS
    <3>2. PICK a : a = [g EXCEPT !.vote.exec = b]
      OBVIOUS
    <3>3. a \in Games /\ a.player = g.player /\ a.state = g.state
      BY <1>4, <3>2
    <3> QED BY <3>1, <3>2, <3>3
  <2>2. PICK m \in Messages : m = UpdateVote("RESET", 0, 0)
    BY UpdateVoteIs
  <2>3. PICK t \in Games : t = Tell(a, m) /\ t.player = g.player /\ t.state = g.state
    <3>1. PICK t : t = Tell(a, m)
      OBVIOUS
    <3>2. t \in Games /\ t.player = a.player /\ t.state = a.state
      BY <3>1, TellIs DEF Steady
    <3> QED BY <2>1, <3>1, <3>2
  <2>4. PICK h \in Games : h = ExecuteVote(t)
    BY <2>3, ExecuteVoteIs DEF Thins
  <2>5. Polled(t, h)
    <3>1. CASE t.vote.kind = "RESTART"
      BY <2>3, <2>4, <3>1, MapRestartPolled DEF ExecuteVote
    <3>2. CASE t.vote.kind = "KICK" /\ t.player[t.vote.value].there
      <4>1. t.vote.value \in Clients
        BY <2>3, <3>2 DEF Games, Votes
      <4>2. h = ServerClientDisconnect(t, t.vote.value)
        BY <2>4, <3>2 DEF ExecuteVote
      <4> QED BY <2>3, <4>1, <4>2, DisconnectLife
    <3>3. CASE t.vote.kind # "RESTART" /\ ~(t.vote.kind = "KICK" /\ t.player[t.vote.value].there)
      <4>1. h = t
        BY <2>4, <3>3 DEF ExecuteVote
      <4> QED BY <4>1, PolledSelf
    <3> QED BY <3>1, <3>2, <3>3
  <2>6. PICK k : k = [h EXCEPT !.vote = NoVote] /\ k.player = h.player /\ k.state = h.state
    <3>1. PICK k : k = [h EXCEPT !.vote = NoVote]
      OBVIOUS
    <3>2. k.player = h.player /\ k.state = h.state
      BY <1>3, <3>1
    <3> QED BY <3>1, <3>2
  <2>7. Polled(g, k)
    BY <2>3, <2>5, <2>6, PolledSame
  <2> QED BY <2>1, <2>2, <2>3, <2>4, <2>6, <2>7
<1>8. CheckVote(g, due) \in {g,
        [Tell(g, UpdateVote("ABORTED", v.yes, v.no)) EXCEPT !.vote = NoVote],
        [Tell(g, UpdateVote("FAILED", v.yes, v.no)) EXCEPT !.vote = NoVote],
        [Tell(g, UpdateVote("PASSED", v.yes, v.no)) EXCEPT !.vote.exec = TRUE],
        [ExecuteVote(Tell([g EXCEPT !.vote.exec = FALSE], UpdateVote("RESET", 0, 0)))
           EXCEPT !.vote = NoVote]}
  BY <1>1 DEF CheckVote
<1> QED BY <1>5, <1>6, <1>7, <1>8, PolledSelf

\* The switch that is scheduled, if any.
LEMMA NextStateLife ==
  ASSUME NEW g \in Games, NEW due, bound \in Bounds, Matches(g), NEW h, h = NextState(g, due)
  PROVE  \/ h = g
         \/ /\ g.state = "COUNTDOWN" /\ h.state = "GAMEON"
            /\ \A c \in Clients : Begun(g.player[c], h.player[c])
         \/ /\ g.state = "GAMEREVIEW" /\ h.state = "NEXTGAME"
            /\ \A c \in Clients : h.player[c] = g.player[c]
<1>1. CASE ~(g.next # "INACTIVE" /\ due.next)
  BY <1>1 DEF NextState
<1>2. CASE g.next # "INACTIVE" /\ due.next
  <2>1. \/ g.state = "COUNTDOWN" /\ g.next = "GAMEON"
        \/ g.state = "GAMEREVIEW" /\ g.next = "NEXTGAME"
    BY <1>2 DEF Matches
  <2>2. PICK s \in States : s = g.next
    BY DEF Games
  <2>3. PICK a : a = NewState(g, s)
    OBVIOUS
  <2>4. a \in Games /\ a.state = s
    BY <2>3, NewStateIs
  <2>5. h = [a EXCEPT !.next = "INACTIVE"]
    BY <1>2, <2>2, <2>3 DEF NextState
  <2>6. h.player = a.player /\ h.state = s
    BY <2>4, <2>5 DEF Games
  <2>7. \A c \in Clients :
           /\ s = "GAMEON" => Begun(g.player[c], a.player[c])
           /\ s \notin {"GAMEON", "GAMEREVIEW"} => a.player[c] = g.player[c]
    BY <2>3, NewStateLife
  <2> QED BY <2>1, <2>2, <2>6, <2>7
<1> QED BY <1>1, <1>2

\* To whom nothing happens but to be marked as a leader or to respawn.
Level(p, q) ==
  /\ q.there = p.there /\ q.ingame = p.ingame /\ q.want = p.want /\ q.spec = p.spec
  /\ q.force = p.force /\ q.over = p.over /\ q.present = p.present /\ q.frags = p.frags
  /\ q.again => p.again \/ ~p.over

Levels(g, h) == \A c \in Clients : Level(g.player[c], h.player[c])

LEMMA LevelsTrans ==
  ASSUME NEW g, NEW h, NEW k, Levels(g, h), Levels(h, k)
  PROVE  Levels(g, k)
BY DEF Levels, Level

LEMMA LevelsSpent ==
  ASSUME NEW g, NEW h, Levels(g, h)
  PROVE  Fewer(g, h) /\ (AllSpent(g) => AllSpent(h))
BY DEF Levels, Level, Fewer, AllSpent, Spent

LEMMA LevelsEager ==
  ASSUME NEW g, NEW h, Levels(g, h), NEW c \in Clients, Eager(g.player[c])
  PROVE  Eager(h.player[c])
BY DEF Levels, Level, Eager

LEMMA SameLevels ==
  ASSUME NEW g, NEW h, \A c \in Clients : h.player[c] = g.player[c]
  PROVE  Levels(g, h)
BY DEF Levels, Level

LEMMA MarkLeadersLevel ==
  ASSUME NEW g \in Games
  PROVE  Levels(g, MarkLeaders(g))
<1> DEFINE new == [c \in Clients |-> IF g.player[c].there
                     THEN [g.player[c] EXCEPT !.leader = c \in Leaders(g)] ELSE g.player[c]]
<1>1. ASSUME NEW c \in Clients
      PROVE  Level(g.player[c], new[c])
  <2>1. PICK p : p = g.player[c] /\ p \in Players
    BY DEF Games
  <2>2. PICK b : b = (c \in Leaders(g))
    OBVIOUS
  <2>3. PICK q : q = [p EXCEPT !.leader = b]
    OBVIOUS
  <2>4. Level(p, q) /\ Level(p, p)
    BY <2>1, <2>3 DEF Players, Level
  <2>5. new[c] = IF p.there THEN q ELSE p
    BY <2>1, <2>2, <2>3
  <2> QED BY <2>1, <2>4, <2>5
<1>2. MarkLeaders(g) = [g EXCEPT !.player = new]
  BY DEF MarkLeaders, Games
<1> HIDE DEF new
<1>3. MarkLeaders(g).player = new
  BY <1>2 DEF Games
<1> QED BY <1>1, <1>3 DEF Levels

LEMMA SuddenRespawnLevel ==
  ASSUME NEW g \in Games
  PROVE  Levels(g, SuddenRespawn(g))
<1> DEFINE new == [c \in Clients |-> IF LastMan /\ c \in Contenders(g)
                     THEN [g.player[c] EXCEPT !.again = TRUE] ELSE g.player[c]]
<1>1. ASSUME NEW c \in Clients
      PROVE  Level(g.player[c], new[c])
  <2>1. PICK p : p = g.player[c] /\ p \in Players
    BY DEF Games
  <2>2. PICK q : q = [p EXCEPT !.again = TRUE]
    OBVIOUS
  <2>3. (~p.over => Level(p, q)) /\ Level(p, p)
    BY <2>1, <2>2 DEF Players, Level
  <2>4. c \in Contenders(g) => ~p.over
    BY <2>1 DEF Contenders
  <2>5. new[c] = IF LastMan /\ c \in Contenders(g) THEN q ELSE p
    BY <2>1, <2>2
  <2> QED BY <2>1, <2>3, <2>4, <2>5
<1>2. SuddenRespawn(g) = [g EXCEPT !.player = new]
  BY DEF SuddenRespawn, Games
<1> HIDE DEF new
<1>3. SuddenRespawn(g).player = new
  BY <1>2 DEF Games
<1> QED BY <1>1, <1>3 DEF Levels

\* What the rules of a match may come to: it goes on, not with a limit hit for
\* longer than its delay; sudden death; the end.
Played(g, h, due) ==
  \/ Levels(g, h) /\ h.state = g.state /\ (g.limit /\ due.limit => ~h.limit)
  \/ Levels(g, h) /\ g.state = "GAMEON" /\ h.state = "SUDDENDEATH"
  \/ h.state = "GAMEREVIEW" /\ Fewer(g, h) /\ (AllSpent(g) => AllSpent(h))

LEMMA ReviewPlayed ==
  ASSUME NEW g \in Games, NEW due, bound \in Bounds
  PROVE  Played(g, NewState(g, "GAMEREVIEW"), due)
<1>1. PICK s \in States : s = "GAMEREVIEW"
  BY DEF States
<1>2. PICK h : h = NewState(g, s)
  OBVIOUS
<1>3. h.state = s /\ \A c \in Clients : SameLife(g.player[c], h.player[c])
  BY <1>1, <1>2, NewStateIs, NewStateLife
<1>4. Fewer(g, h) /\ (AllSpent(g) => AllSpent(h))
  BY <1>3 DEF Fewer, AllSpent, Spent, SameLife
<1> QED BY <1>1, <1>2, <1>3, <1>4 DEF Played

LEMMA SuddenPlayed ==
  ASSUME NEW g \in Games, bound \in Bounds
  PROVE  NewState(g, "SUDDENDEATH").state = "SUDDENDEATH" /\ Levels(g, NewState(g, "SUDDENDEATH"))
<1>1. PICK s \in States : s = "SUDDENDEATH"
  BY DEF States
<1>2. PICK h : h = NewState(g, s)
  OBVIOUS
<1>3. h.state = s /\ \A c \in Clients : h.player[c] = g.player[c]
  BY <1>1, <1>2, NewStateIs, NewStateLife
<1> QED BY <1>1, <1>2, <1>3, SameLevels

LEMMA EndsAfterDelayPlayed ==
  ASSUME NEW g \in Games, NEW due, bound \in Bounds
  PROVE  Played(g, EndsAfterDelay(g, due), due)
<1>1. CASE ~g.limit
  <2>1. PICK h : h = [g EXCEPT !.limit = TRUE]
    OBVIOUS
  <2>2. h.player = g.player /\ h.state = g.state
    BY <2>1 DEF Games
  <2>3. Levels(g, h)
    BY <2>2, SameLevels
  <2>4. EndsAfterDelay(g, due) = h
    BY <1>1, <2>1 DEF EndsAfterDelay
  <2> QED BY <1>1, <2>2, <2>3, <2>4 DEF Played
<1>2. CASE g.limit /\ due.limit
  BY <1>2, ReviewPlayed DEF EndsAfterDelay
<1>3. CASE g.limit /\ ~due.limit
  <2>1. EndsAfterDelay(g, due) = g
    BY <1>3 DEF EndsAfterDelay
  <2> QED BY <1>3, <2>1, SameLevels DEF Played
<1> QED BY <1>1, <1>2, <1>3

LEMMA EvenPlayed ==
  ASSUME NEW g \in Games
  PROVE  /\ Even(g) \in Games /\ Even(g).state = g.state
         /\ Levels(g, Even(g)) /\ ~Even(g).limit
<1>1. PICK h : h = SuddenRespawn(g) /\ h \in Games /\ Levels(g, h)
  BY SuddenRespawnIs, SuddenRespawnLevel DEF Alters
<1>2. PICK k : k = [h EXCEPT !.limit = FALSE]
  OBVIOUS
<1>3. k.player = h.player /\ ~k.limit
  BY <1>1, <1>2 DEF Games
<1>4. Levels(g, k)
  BY <1>1, <1>3 DEF Levels
<1>5. Even(g) = k
  BY <1>1, <1>2 DEF Even
<1> QED BY <1>3, <1>4, <1>5, EvenIs DEF Goes

LEMMA GameOnPlayed ==
  ASSUME NEW g \in Games, NEW due, g.state = "GAMEON", bound \in Bounds
  PROVE  Played(g, GameOn(g, due), due)
<1>1. PICK k : k = Even(g) /\ k \in Games /\ Levels(g, k)
  BY EvenPlayed
<1>2. PICK s : s = NewState(k, "SUDDENDEATH")
  OBVIOUS
<1>3. s.state = "SUDDENDEATH" /\ Levels(g, s)
  BY <1>1, <1>2, SuddenPlayed, LevelsTrans
<1>4. Played(g, s, due)
  BY <1>3 DEF Played
<1>5. Played(g, NewState(g, "SUDDENDEATH"), due)
  BY SuddenPlayed DEF Played
<1>6. Played(g, NewState(g, "GAMEREVIEW"), due) /\ Played(g, EndsAfterDelay(g, due), due)
  BY ReviewPlayed, EndsAfterDelayPlayed
<1>7. ~g.limit => Played(g, g, due)
  BY SameLevels DEF Played
<1>8. \/ GameOn(g, due) \in {EndsAfterDelay(g, due), s, NewState(g, "SUDDENDEATH"),
                             NewState(g, "GAMEREVIEW")}
      \/ GameOn(g, due) = g /\ ~g.limit
  BY <1>1, <1>2 DEF GameOn
<1> QED BY <1>4, <1>5, <1>6, <1>7, <1>8

LEMMA SuddenDeathPlayed ==
  ASSUME NEW g \in Games, NEW due, bound \in Bounds
  PROVE  Played(g, SuddenDeath(g, due), due)
<1>1. Played(g, EndsAfterDelay(g, due), due)
  BY EndsAfterDelayPlayed
<1>2. Played(g, Even(g), due)
  BY EvenPlayed DEF Played
<1>3. ~g.limit => Played(g, g, due)
  BY SameLevels DEF Played
<1>4. \/ SuddenDeath(g, due) \in {EndsAfterDelay(g, due), Even(g)}
      \/ SuddenDeath(g, due) = g /\ ~g.limit
  BY DEF SuddenDeath
<1> QED BY <1>1, <1>2, <1>3, <1>4

\* What a frame's rules may come to, in any state.
Ruled(g, h, due) ==
  \/ Fights(g) /\ Played(g, h, due)
  \/ ~Fights(g) /\ h.state = g.state /\ Levels(g, h)
  \/ /\ g.state = "WARMUP" /\ h.state = "COUNTDOWN"
     /\ Levels(g, h) /\ EnoughClientsToPlay(h)
  \/ /\ h.state = "WARMUP" /\ Fewer(g, h) /\ (AllSpent(g) => AllSpent(h))
     /\ \A c \in Clients : h.player[c].there => Eager(h.player[c])

LEMMA RulesLife ==
  ASSUME NEW g \in Games, NEW due, bound \in Bounds
  PROVE  Ruled(g, Rules(g, due), due)
<1>1. CASE g.state = "GAMEREVIEW" /\ g.next = "INACTIVE"
  <2>1. Rules(g, due) = [g EXCEPT !.next = "NEXTGAME"]
    BY <1>1 DEF Rules
  <2>2. PICK h : h = [g EXCEPT !.next = "NEXTGAME"]
    OBVIOUS
  <2>3. h.player = g.player /\ h.state = g.state
    BY <2>2 DEF Games
  <2>4. Levels(g, h)
    BY <2>3, SameLevels
  <2> QED BY <1>1, <2>1, <2>2, <2>3, <2>4 DEF Ruled, Fights
<1>2. CASE g.state = "NEXTGAME" /\ g.next = "INACTIVE"
  <2>1. Rules(g, due) = PutEveryoneBack(NewState(g, "WARMUP"))
    BY <1>2 DEF Rules
  <2>2. PICK s \in States : s = "WARMUP"
    BY DEF States
  <2>3. PICK a : a = NewState(g, s)
    OBVIOUS
  <2>4. a \in Games /\ a.state = s /\ \A c \in Clients : a.player[c] = g.player[c]
    BY <2>2, <2>3, NewStateIs, NewStateLife
  <2>5. PICK h : h = PutEveryoneBack(a)
    OBVIOUS
  <2>6. Warmed(a, h) /\ \A c \in Clients : a.player[c].there => Eager(h.player[c])
    BY <2>2, <2>4, <2>5, BackLife
  <2>7. \A c \in Clients : h.player[c].there => Eager(h.player[c])
    BY <2>6 DEF Warmed, Goes, Like, Same
  <2>8. Fewer(g, h) /\ (AllSpent(g) => AllSpent(h)) /\ h.state = "WARMUP"
    BY <2>4, <2>6 DEF Warmed, Fewer, AllSpent
  <2>9. Rules(g, due) = h
    BY <2>1, <2>2, <2>3, <2>5
  <2> QED BY <2>7, <2>8, <2>9 DEF Ruled
<1>3. CASE g.state = "WARMUP" /\ AllPlayersReady(g)
  <2>1. Rules(g, due) = [NewState(g, "COUNTDOWN") EXCEPT !.next = "GAMEON"]
    BY <1>3 DEF Rules
  <2>2. PICK s \in States : s = "COUNTDOWN"
    BY DEF States
  <2>3. PICK a : a = NewState(g, s)
    OBVIOUS
  <2>4. a \in Games /\ Like(g, a) /\ a.state = s /\ \A c \in Clients : a.player[c] = g.player[c]
    BY <2>2, <2>3, NewStateIs, NewStateLife
  <2>5. PICK h : h = [a EXCEPT !.next = "GAMEON"]
    OBVIOUS
  <2>6. h.player = a.player /\ h.state = a.state
    BY <2>4, <2>5 DEF Games
  <2>7. Levels(g, h)
    BY <2>4, <2>6, SameLevels
  <2>8. EnoughClientsToPlay(a)
    BY <1>3, <2>4, LikePlaying DEF AllPlayersReady
  <2>9. EnoughClientsToPlay(h)
    BY <2>6, <2>8 DEF EnoughClientsToPlay, Playing, There
  <2>10. Rules(g, due) = h
    BY <2>1, <2>2, <2>3, <2>5
  <2> QED BY <1>3, <2>2, <2>4, <2>6, <2>7, <2>9, <2>10 DEF Ruled
<1>4. CASE Fights(g)
  <2>1. PICK h : /\ h = MarkLeaders(g) /\ h \in Games /\ h.state = g.state /\ h.limit = g.limit
                 /\ Levels(g, h)
    BY MarkLeadersIs, MarkLeadersLevel DEF Alters, Steady
  <2>2. PICK k : k = Rules(g, due) /\ Played(h, k, due)
    <3>1. CASE g.state = "GAMEON"
      BY <2>1, <3>1, GameOnPlayed DEF Rules
    <3>2. CASE g.state = "SUDDENDEATH"
      BY <2>1, <3>2, SuddenDeathPlayed DEF Rules
    <3> QED BY <1>4, <3>1, <3>2 DEF Fights
  <2>3. Levels(h, k) => Levels(g, k)
    BY <2>1, LevelsTrans
  <2>4. Fewer(g, h) /\ (AllSpent(g) => AllSpent(h))
    BY <2>1, LevelsSpent
  <2>5. Fewer(h, k) => Fewer(g, k)
    BY <2>4, FewerTrans
  <2>6. Played(g, k, due)
    BY <2>1, <2>2, <2>3, <2>4, <2>5 DEF Played
  <2> QED BY <1>4, <2>2, <2>6 DEF Ruled
<1>5. CASE /\ ~(g.state = "GAMEREVIEW" /\ g.next = "INACTIVE")
           /\ ~(g.state = "NEXTGAME" /\ g.next = "INACTIVE")
           /\ ~(g.state = "WARMUP" /\ AllPlayersReady(g))
           /\ ~Fights(g)
  <2>1. Rules(g, due) = g
    BY <1>5 DEF Rules, Fights
  <2> QED BY <1>5, <2>1, SameLevels DEF Ruled
<1> QED BY <1>1, <1>2, <1>3, <1>4, <1>5

LEMMA RuledSpent ==
  ASSUME NEW g, NEW h, NEW due, Ruled(g, h, due)
  PROVE  Fewer(g, h) /\ (AllSpent(g) => AllSpent(h))
BY LevelsSpent DEF Ruled, Played

LEMMA ActivatedLife ==
  ASSUME NEW g \in Games, bound \in Bounds, NEW h, h = Activated(g)
  PROVE  /\ \A c \in Clients : h.player[c] = g.player[c]
         /\ h = g \/ (g.state = "INACTIVE" /\ h.state = "WARMUP")
<1>1. PICK s \in States : s = "WARMUP"
  BY DEF States
<1>2. PICK a : a = NewState(g, s)
  OBVIOUS
<1>3. a.state = s /\ \A c \in Clients : a.player[c] = g.player[c]
  BY <1>1, <1>2, NewStateIs, NewStateLife
<1> QED BY <1>1, <1>2, <1>3 DEF Activated

\* The stages of a frame: f comes of g by way of a, b, d and e.
Stages(g, a, b, d, e, f, due) ==
  /\ {a, b, d, e} \subseteq Games /\ a = Activated(g)
  /\ b = CheckVote(a, due) /\ Polled(a, b)
  /\ d = CheckRespawns(b) /\ Goes(b, d) /\ Matches(d)
  /\ e = NextState(d, due)
  /\ f = Rules(e, due) /\ Ruled(e, f, due)

LEMMA FrameStages ==
  ASSUME NEW g \in Games, NEW due, bound \in Bounds, Matches(g), NEW f, f = Frame(g, due)
  PROVE  \E a, b, d, e : Stages(g, a, b, d, e, f, due)
<1>1. PICK a : a = Activated(g) /\ a \in Games /\ Matches(a)
  BY ActivatedIs DEF Voted
<1>2. PICK b : b = CheckVote(a, due) /\ Polled(a, b) /\ b \in Games /\ Matches(b)
  BY <1>1, CheckVoteIs, CheckVoteLife DEF Voted
<1>3. PICK d : d = CheckRespawns(b) /\ Goes(b, d) /\ d \in Games /\ Matches(d)
  <2>1. \A c \in Clients : c = None => ~b.player[c].want
    BY DEF Clients, None
  <2>2. Goes(b, CheckRespawnsAnd(b, None))
    BY <1>2, <2>1, CheckRespawnsIs
  <2>3. Goes(b, CheckRespawns(b))
    BY <2>2 DEF CheckRespawns
  <2> QED BY <1>2, <2>3, GoesMatches DEF Goes
<1>4. PICK e : e = NextState(d, due) /\ e \in Games
  BY <1>3, NextStateIs DEF Advances
<1>5. f = Rules(e, due)
  BY <1>1, <1>2, <1>3, <1>4 DEF Frame
<1>6. Ruled(e, f, due)
  BY <1>4, <1>5, RulesLife
<1> QED BY <1>1, <1>2, <1>3, <1>4, <1>5, <1>6 DEF Stages

\* In a match the first stages change nothing, but for who is gone.
LEMMA StagesMatch ==
  ASSUME NEW g \in Games, NEW a, NEW b, NEW d, NEW e, NEW f, NEW due, bound \in Bounds,
         Stages(g, a, b, d, e, f, due), InMatch(b)
  PROVE  b.state = g.state /\ \A c \in Clients : b.player[c].there => b.player[c] = g.player[c]
<1>1. /\ \A c \in Clients : a.player[c] = g.player[c]
      /\ a = g \/ (g.state = "INACTIVE" /\ a.state = "WARMUP")
  BY ActivatedLife DEF Stages
<1>2. b.state = a.state /\ \A c \in Clients : b.player[c].there => b.player[c] = a.player[c]
  BY DEF Stages, Polled, InMatch
<1> QED BY <1>1, <1>2 DEF InMatch

\* Nobody is out by a frame who has lives left.
LEMMA FrameOver ==
  ASSUME NEW g \in Games, NEW due, bound \in Bounds, Matches(g), LastMan => AllSpent(g),
         NEW f, f = Frame(g, due), NEW c \in Clients, f.player[c].over
  PROVE  g.player[c].over \/ Fell(g, g.player[c])
<1>1. PICK a, b, d, e : Stages(g, a, b, d, e, f, due)
  BY FrameStages
<1>2. /\ {a, b, d, e} \subseteq Games /\ a = Activated(g) /\ Polled(a, b)
      /\ d = CheckRespawns(b) /\ e = NextState(d, due) /\ Matches(d) /\ Ruled(e, f, due)
  BY <1>1 DEF Stages
<1>3. Fewer(e, f)
  BY <1>2, RuledSpent
<1>4. Fewer(d, e)
  <2>1. \A x \in Clients : e.player[x] = d.player[x] \/ Begun(d.player[x], e.player[x])
    BY <1>2, NextStateLife
  <2> QED BY <2>1 DEF Begun, Fewer
<1>5. \A x \in Clients : a.player[x] = g.player[x]
  BY <1>2, ActivatedLife
<1>6. AllSpent(g) => AllSpent(b)
  BY <1>2, <1>5 DEF Polled, AllSpent
<1>7. d.player[c].over => b.player[c].over \/ Fell(b, b.player[c])
  <2>1. CASE LastMan
    BY <1>2, <1>6, <2>1, CheckRespawnsLife DEF Took
  <2>2. CASE ~LastMan
    <3>1. Fewer(b, d)
      BY <1>2, <2>2, CheckRespawnsFewer DEF CheckRespawns
    <3> QED BY <3>1 DEF Fewer
  <2> QED BY <2>1, <2>2
<1>8. b.player[c].over => g.player[c].over
  BY <1>2, <1>5 DEF Polled, Fewer
<1>9. ASSUME Fell(b, b.player[c])
      PROVE  Fell(g, g.player[c])
  <2>1. InMatch(b)
    BY <1>9 DEF Fell, Fights, InMatch
  <2> QED BY <1>1, <1>9, <2>1, StagesMatch DEF Fell, Fights
<1> QED BY <1>3, <1>4, <1>7, <1>8, <1>9 DEF Fewer

\* What the state of a player owes to the state of the match.
Sound(g) ==
  /\ AllSpent(g)
  /\ g.state \notin {"GAMEREVIEW", "NEXTGAME"} =>
       \A c \in Clients : g.player[c].there => Eager(g.player[c])

LEMMA FrameSound ==
  ASSUME NEW g \in Games, NEW due, bound \in Bounds, Matches(g), LastMan, Sound(g),
         NEW f, f = Frame(g, due)
  PROVE  Sound(f)
<1>1. PICK a, b, d, e : Stages(g, a, b, d, e, f, due)
  BY FrameStages
<1>2. /\ {a, b, d, e} \subseteq Games /\ a = Activated(g) /\ Polled(a, b)
      /\ d = CheckRespawns(b) /\ e = NextState(d, due) /\ Matches(d) /\ Ruled(e, f, due)
  BY <1>1 DEF Stages
<1>3. /\ \A c \in Clients : a.player[c] = g.player[c]
      /\ a = g \/ (g.state = "INACTIVE" /\ a.state = "WARMUP")
  BY <1>2, ActivatedLife
<1>4. Sound(a)
  BY <1>3 DEF Sound, AllSpent
<1>5. Sound(b)
  BY <1>2, <1>4 DEF Sound, Polled
<1>6. Took(b, d, N)
  BY <1>2, <1>5, CheckRespawnsLife DEF Sound
<1>7. Sound(d)
  <2>1. AllSpent(d) /\ Goes(b, d)
    BY <1>6 DEF Took
  <2>2. ASSUME d.state \notin {"GAMEREVIEW", "NEXTGAME"}, NEW c \in Clients, d.player[c].there
        PROVE  Eager(d.player[c])
    <3>1. b.state = d.state /\ b.player[c].there
      BY <2>1, <2>2 DEF Goes, Steady, Like, Same
    <3>2. Eager(b.player[c])
      BY <1>5, <2>2, <3>1 DEF Sound
    <3>3. Went(b, d, c)
      BY <1>6, <2>2, MultiplayerGameAssumption DEF Took, Kept, Clients
    <3> QED BY <3>2, <3>3 DEF Went
  <2> QED BY <2>1, <2>2 DEF Sound
<1>8. Sound(e)
  <2>1. CASE e = d
    BY <1>7, <2>1
  <2>2. CASE \A c \in Clients : Begun(d.player[c], e.player[c])
    <3>1. ASSUME NEW c \in Clients
          PROVE  Spent(e.player[c]) /\ (e.player[c].there => Eager(e.player[c]))
      <4>1. Spent(d.player[c])
        BY <1>7 DEF Sound, AllSpent
      <4> QED BY <2>2, <4>1 DEF Begun, Spent, Eager
    <3> QED BY <3>1 DEF Sound, AllSpent
  <2>3. CASE e.state = "NEXTGAME" /\ \A c \in Clients : e.player[c] = d.player[c]
    BY <1>7, <2>3 DEF Sound, AllSpent
  <2> QED BY <1>2, <2>1, <2>2, <2>3, NextStateLife
<1>9. AllSpent(f)
  BY <1>2, <1>8, RuledSpent DEF Sound
<1>10. ASSUME f.state \notin {"GAMEREVIEW", "NEXTGAME"}, NEW c \in Clients, f.player[c].there
       PROVE  Eager(f.player[c])
  <2>1. CASE Levels(e, f) /\ e.state \notin {"GAMEREVIEW", "NEXTGAME"}
    <3>1. e.player[c].there
      BY <1>10, <2>1 DEF Levels, Level
    <3>2. Eager(e.player[c])
      BY <1>8, <2>1, <3>1 DEF Sound
    <3> QED BY <2>1, <3>2, LevelsEager
  <2>2. CASE f.state = "WARMUP" /\ \A x \in Clients : f.player[x].there => Eager(f.player[x])
    BY <1>10, <2>2
  <2> QED BY <1>2, <1>10, <2>1, <2>2 DEF Ruled, Played, Fights
<1> QED BY <1>9, <1>10 DEF Sound

\* A frame of a match that goes on,
Fought(g, b, d, f, due) ==
  /\ {b, d} \subseteq Games /\ Fights(g) /\ b.state = g.state
  /\ f.state = g.state \/ (g.state = "GAMEON" /\ f.state = "SUDDENDEATH")
  /\ \A c \in Clients : b.player[c].there => b.player[c] = g.player[c]
  /\ Goes(b, d) /\ Kept(b, d, N) /\ Levels(d, f)
  /\ g.vote.kind = "NONE" => b = g
  /\ b.limit /\ due.limit /\ f.state = g.state => ~f.limit

\* and the one in which it starts.
Started(g, f) ==
  /\ g.state = "COUNTDOWN"
  /\ \A c \in Clients : f.player[c].there =>
       ~f.player[c].over /\ f.player[c].frags = FragLimit /\ f.player[c].ingame = g.player[c].ingame

LEMMA FrameFights ==
  ASSUME NEW g \in Games, NEW due, bound \in Bounds, Matches(g), LastMan, AllSpent(g),
         NEW f, f = Frame(g, due), Fights(f)
  PROVE  (\E b, d : Fought(g, b, d, f, due)) \/ Started(g, f)
<1>1. PICK a, b, d, e : Stages(g, a, b, d, e, f, due)
  BY FrameStages
<1>2. /\ {a, b, d, e} \subseteq Games /\ a = Activated(g) /\ b = CheckVote(a, due) /\ Polled(a, b)
      /\ d = CheckRespawns(b) /\ e = NextState(d, due) /\ Goes(b, d) /\ Matches(d)
      /\ Ruled(e, f, due)
  BY <1>1 DEF Stages
<1>3. /\ \A c \in Clients : a.player[c] = g.player[c]
      /\ a = g \/ g.state = "INACTIVE"
  BY <1>2, ActivatedLife
<1>4. /\ Fights(e) /\ Levels(e, f)
      /\ f.state = e.state \/ (e.state = "GAMEON" /\ f.state = "SUDDENDEATH")
      /\ f.state = e.state /\ e.limit /\ due.limit => ~f.limit
  BY <1>2 DEF Ruled, Played, Fights
<1>5. CASE e = d
  <2>1. AllSpent(b)
    BY <1>2, <1>3 DEF Polled, AllSpent
  <2>2. Kept(b, d, N)
    BY <1>2, <1>4, <1>5, <2>1, CheckRespawnsLife DEF Took, Fights
  <2>3. b.state = d.state
    BY <1>2, <1>4, <1>5 DEF Goes, Steady, Fights
  <2>4. b.state = g.state /\ \A c \in Clients : b.player[c].there => b.player[c] = g.player[c]
    BY <1>1, <1>4, <1>5, <2>3, StagesMatch DEF Fights, InMatch
  <2>5. a = g
    BY <1>3, <1>4, <1>5, <2>3, <2>4 DEF Fights
  <2>6. g.vote.kind = "NONE" => b = g
    BY <1>2, <2>5 DEF CheckVote
  <2>7. d.limit = b.limit
    BY <2>2 DEF Kept
  <2>8. Fought(g, b, d, f, due)
    BY <1>2, <1>4, <1>5, <2>2, <2>3, <2>4, <2>6, <2>7 DEF Fought, Fights
  <2> QED BY <2>8
<1>6. CASE d.state = "COUNTDOWN" /\ \A c \in Clients : Begun(d.player[c], e.player[c])
  <2>1. b.state = d.state
    BY <1>2, <1>6 DEF Goes, Steady
  <2>2. b.state = g.state /\ \A c \in Clients : b.player[c].there => b.player[c] = g.player[c]
    BY <1>1, <1>6, <2>1, StagesMatch DEF InMatch
  <2>3. Like(d, e) /\ Like(b, d)
    BY <1>2, NextStateIs DEF Advances, Goes
  <2>4. ASSUME NEW c \in Clients, f.player[c].there
        PROVE  /\ ~f.player[c].over /\ f.player[c].frags = FragLimit
               /\ f.player[c].ingame = g.player[c].ingame
    <3>1. Level(e.player[c], f.player[c])
      BY <1>4 DEF Levels
    <3>2. Same(d.player[c], e.player[c]) /\ Same(b.player[c], d.player[c])
      BY <2>3 DEF Like
    <3>3. Begun(d.player[c], e.player[c])
      BY <1>6
    <3>4. d.player[c].there /\ b.player[c].there
      BY <2>4, <3>1, <3>2 DEF Level, Same
    <3>5. f.player[c].ingame = b.player[c].ingame
      BY <3>1, <3>2 DEF Level, Same
    <3> QED BY <2>2, <3>1, <3>3, <3>4, <3>5 DEF Level, Begun
  <2> QED BY <1>6, <2>1, <2>2, <2>4 DEF Started
<1>7. e = d \/ (d.state = "COUNTDOWN" /\ \A c \in Clients : Begun(d.player[c], e.player[c]))
  BY <1>2, <1>4, NextStateLife DEF Fights
<1> QED BY <1>5, <1>6, <1>7

LEMMA FrameCounts ==
  ASSUME NEW g \in Games, NEW due, bound \in Bounds, Matches(g),
         NEW f, f = Frame(g, due), f.state = "COUNTDOWN", There(g) \subseteq There(f),
         g.state = "COUNTDOWN" => \E c \in There(g) : g.player[c].ingame
  PROVE  \E c \in There(f) : f.player[c].ingame
<1>1. PICK a, b, d, e : Stages(g, a, b, d, e, f, due)
  BY FrameStages
<1>2. /\ {a, b, d, e} \subseteq Games /\ e = NextState(d, due) /\ Goes(b, d) /\ Matches(d)
      /\ Ruled(e, f, due)
  BY <1>1 DEF Stages
<1>3. CASE EnoughClientsToPlay(f)
  <2>1. \E c \in Clients : c \in Playing(f)
    <3>1. Playing(f) # {}
      <4>1. Playing(f) = {} => FALSE
        BY <1>3, FS_EmptySet DEF EnoughClientsToPlay
      <4> QED BY <4>1
    <3> QED BY <3>1 DEF Playing, There
  <2> QED BY <2>1 DEF Playing, CanPlay
<1>4. CASE e.state = "COUNTDOWN" /\ Levels(e, f)
  <2>1. e = d
    BY <1>2, <1>4, NextStateLife
  <2>2. b.state = "COUNTDOWN" /\ Like(b, d)
    BY <1>2, <1>4, <2>1 DEF Goes, Steady
  <2>3. g.state = "COUNTDOWN" /\ \A c \in Clients : b.player[c].there => b.player[c] = g.player[c]
    BY <1>1, <2>2, StagesMatch DEF InMatch
  <2>4. PICK c \in There(g) : g.player[c].ingame
    BY <2>3
  <2>5. c \in Clients /\ c \in There(f)
    BY DEF There
  <2>6. Level(d.player[c], f.player[c]) /\ Same(b.player[c], d.player[c])
    BY <1>4, <2>1, <2>2, <2>5 DEF Levels, Like
  <2>7. b.player[c].there
    BY <2>5, <2>6 DEF Level, Same, There
  <2> QED BY <2>3, <2>4, <2>5, <2>6, <2>7 DEF Level, Same
<1>5. EnoughClientsToPlay(f) \/ (e.state = "COUNTDOWN" /\ Levels(e, f))
  BY <1>2 DEF Ruled, Played, Fights
<1> QED BY <1>3, <1>4, <1>5

-----------------------------------------------------------------------------
(* Lives decide, and no match stalls by itself *)

\* Who was there at the start has lost as many lives as are missing.
Lives(g, died) ==
  g.state = "GAMEON" =>
    \A c \in Clients : g.player[c].there /\ g.player[c].present =>
      died[c] >= FragLimit \/ g.player[c].frags + died[c] >= FragLimit

\* While nobody has left, there is somebody to begin with and to go on with.
Someone(g, h) ==
  h.leaves = 0 /\ ~h.kicked =>
    /\ g.state = "COUNTDOWN" => \E c \in There(g) : g.player[c].ingame
    /\ Fights(g) => Somebody(g)

LInv == LastMan => Sound(mp) /\ Lives(mp, hist.died) /\ Someone(mp, hist)

\* Nobody is put out, or into a match that goes on.
Meek(g, h) ==
  \A c \in Clients :
    /\ h.player[c].over => g.player[c].over
    /\ Fights(g) /\ Fights(h) /\ g.player[c].spec /\ h.player[c].there => h.player[c].spec

LEMMA LevelsMeek ==
  ASSUME NEW g, NEW h, Levels(g, h)
  PROVE  Meek(g, h)
BY DEF Levels, Level, Meek

LEMMA LevelsKeep ==
  ASSUME LInv, UNCHANGED bound, mp'.state = mp.state, Levels(mp, mp'),
         hist'.died = hist.died, hist'.leaves = hist.leaves, hist'.kicked = hist.kicked
  PROVE  LInv'
<1>1. SUFFICES ASSUME LastMan
               PROVE  Sound(mp') /\ Lives(mp', hist'.died) /\ Someone(mp', hist')
  <2>1. LastMan' = LastMan /\ FragLimit' = FragLimit
    BY DEF LastMan, FragLimit
  <2> QED BY <2>1 DEF LInv, Lives
<1>2. Sound(mp) /\ Lives(mp, hist.died) /\ Someone(mp, hist)
  BY <1>1 DEF LInv
<1>3. Sound(mp')
  <2>1. AllSpent(mp')
    BY <1>2, LevelsSpent DEF Sound
  <2>2. \A c \in Clients : mp'.player[c].there => mp.player[c].there
    BY DEF Levels, Level
  <2> QED BY <1>2, <2>1, <2>2, LevelsEager DEF Sound
<1>4. Lives(mp', hist'.died)
  BY <1>2 DEF Lives, Levels, Level
<1>5. Someone(mp', hist')
  <2>1. There(mp') = There(mp) /\ There(mp) \subseteq Clients
    BY DEF There, Levels, Level
  <2>2. \A c \in There(mp) : /\ mp'.player[c].ingame = mp.player[c].ingame
                             /\ mp'.player[c].over = mp.player[c].over
    BY <2>1 DEF Levels, Level
  <2> QED BY <1>2, <2>1, <2>2 DEF Someone, Somebody, Fights
<1> QED BY <1>3, <1>4, <1>5

LEMMA RunLives ==
  ASSUME IInv, LInv, NEW due \in Due, RunDue(due)
  PROVE  LInv'
<1>1. SUFFICES ASSUME LastMan
               PROVE  Sound(mp') /\ Lives(mp', hist'.died) /\ Someone(mp', hist')
  <2>1. LastMan' = LastMan /\ FragLimit' = FragLimit
    BY DEF LastMan, FragLimit, RunDue
  <2> QED BY <2>1 DEF LInv, Lives
<1>2. Sound(mp) /\ Lives(mp, hist.died) /\ Someone(mp, hist)
  BY <1>1 DEF LInv
<1>3. PICK f : f = mp' /\ f = Frame(mp, due)
  BY DEF RunDue
<1>4. mp \in Games /\ bound \in Bounds /\ Matches(mp) /\ hist \in Histories /\ FragLimit \in Nat
  BY MultiplayerGameAssumption DEF IInv, Types, FragLimit
<1>5. f \in Games
  BY <1>3, <1>4, FrameIs
<1>6. Sound(f)
  BY <1>1, <1>2, <1>3, <1>4, FrameSound
<1>7. /\ hist'.died = [c \in Clients |-> Lost(f, c)]
      /\ hist'.leaves = hist.leaves /\ hist'.kicked = (hist.kicked \/ There(f) # There(mp))
  BY <1>3, <1>4 DEF RunDue, Histories
<1>8. Fights(f) => (\E b, d : Fought(mp, b, d, f, due)) \/ Started(mp, f)
  BY <1>1, <1>2, <1>3, <1>4, FrameFights DEF Sound
<1>9. Lives(f, hist'.died)
  <2>1. SUFFICES ASSUME f.state = "GAMEON", NEW c \in Clients,
                        f.player[c].there, f.player[c].present
                 PROVE  Lost(f, c) >= FragLimit \/ f.player[c].frags + Lost(f, c) >= FragLimit
    BY <1>7 DEF Lives
  <2>2. CASE Started(mp, f)
    <3>1. Lost(f, c) = 0 /\ f.player[c].frags = FragLimit
      BY <2>1, <2>2 DEF Lost, Started
    <3> QED BY <1>4, <3>1
  <2>3. CASE \E b, d : Fought(mp, b, d, f, due)
    <3>1. PICK b, d : Fought(mp, b, d, f, due)
      BY <2>3
    <3>2. mp.state = "GAMEON" /\ b.state = "GAMEON"
      BY <2>1, <3>1 DEF Fought
    <3>3. Level(d.player[c], f.player[c]) /\ Same(b.player[c], d.player[c]) /\ Went(b, d, c)
      BY <3>1, MultiplayerGameAssumption DEF Fought, Levels, Goes, Like, Kept, Clients
    <3>4. b.player[c] = mp.player[c] /\ mp.player[c].there /\ mp.player[c].present
      BY <2>1, <3>1, <3>3 DEF Fought, Level, Same, Went
    <3>5. PICK m \in Nat : m = hist.died[c]
      BY <1>4 DEF Histories
    <3>6. m >= FragLimit \/ mp.player[c].frags + m >= FragLimit
      BY <1>2, <3>2, <3>4, <3>5 DEF Lives
    <3>7. mp.player[c].frags \in Int
      BY <1>4 DEF Games, Players
    <3>8. Lost(f, c) = IF f.player[c].want /\ f.player[c].spec THEN FragLimit ELSE m
      BY <2>1, <3>2, <3>5 DEF Lost
    <3>9. CASE f.player[c].want /\ f.player[c].spec
      BY <1>4, <3>8, <3>9
    <3>10. CASE ~(f.player[c].want /\ f.player[c].spec)
      <4>1. f.player[c].frags = mp.player[c].frags \/ Fell(b, b.player[c])
        BY <3>3, <3>4, <3>10 DEF Level, Went
      <4>2. Fell(b, b.player[c]) => mp.player[c].frags <= 0
        BY <3>2, <3>4 DEF Fell
      <4>3. Lost(f, c) = m
        BY <3>8, <3>10
      <4>4. CASE f.player[c].frags = mp.player[c].frags
        BY <3>6, <4>3, <4>4
      <4>5. CASE mp.player[c].frags <= 0
        BY <1>4, <3>5, <3>6, <3>7, <4>3, <4>5
      <4> QED BY <4>1, <4>2, <4>4, <4>5
    <3> QED BY <3>9, <3>10
  <2>4. Fights(f)
    BY <2>1 DEF Fights
  <2> QED BY <1>8, <2>2, <2>3, <2>4
<1>10. Someone(f, hist')
  <2>1. SUFFICES ASSUME hist.leaves = 0, ~hist.kicked, There(f) = There(mp)
                 PROVE  /\ f.state = "COUNTDOWN" => \E c \in There(f) : f.player[c].ingame
                        /\ Fights(f) => Somebody(f)
    BY <1>7 DEF Someone
  <2>2. /\ mp.state = "COUNTDOWN" => \E c \in There(mp) : mp.player[c].ingame
        /\ Fights(mp) => Somebody(mp)
    BY <1>2, <2>1 DEF Someone
  <2>3. f.state = "COUNTDOWN" => \E c \in There(f) : f.player[c].ingame
    BY <1>3, <1>4, <2>1, <2>2, FrameCounts
  <2>4. CASE Started(mp, f)
    <3>1. PICK c \in There(mp) : mp.player[c].ingame
      BY <2>2, <2>4 DEF Started
    <3>2. c \in Clients /\ f.player[c].there
      BY <2>1 DEF There
    <3> QED BY <2>1, <2>3, <2>4, <3>1, <3>2 DEF Started, Somebody
  <2>5. CASE \E b, d : Fought(mp, b, d, f, due)
    <3>1. PICK b, d : Fought(mp, b, d, f, due)
      BY <2>5
    <3>2. \A c \in Clients : Level(d.player[c], f.player[c]) /\ Same(b.player[c], d.player[c])
      BY <3>1 DEF Fought, Levels, Goes, Like
    <3>3. Somebody(mp) /\ Fights(mp)
      BY <2>2, <3>1 DEF Fought
    <3>4. PICK c \in There(mp) : mp.player[c].ingame /\ ~mp.player[c].over
      BY <3>3 DEF Somebody
    <3>5. c \in Clients /\ f.player[c].there
      BY <2>1 DEF There
    <3>6. b.player[c].there
      BY <3>2, <3>5 DEF Level, Same
    <3>7. b.player[c] = mp.player[c]
      BY <3>1, <3>5, <3>6 DEF Fought
    <3>8. Somebody(b)
      BY <3>4, <3>5, <3>6, <3>7 DEF Somebody, There
    <3>9. Fights(b)
      BY <3>1 DEF Fought, Fights
    <3>10. Somebody(d)
      BY <3>1, <3>8, <3>9 DEF Fought, Kept
    <3>11. Somebody(f)
      BY <3>2, <3>10 DEF Somebody, There, Level
    <3> QED BY <2>3, <3>11
  <2> QED BY <1>8, <2>3, <2>4, <2>5
<1> QED BY <1>3, <1>6, <1>9, <1>10

\* What one player's own action may change of what counts in the match.
Own(p, q, n, m) ==
  /\ p.there => q.there /\ (p.ingame => q.ingame)
  /\ (q.over => p.over) /\ (p.spec => q.spec)
  /\ Spent(p) => Spent(q)
  /\ (p.there => Eager(p)) => Eager(q)
  /\ q.there /\ q.present => p.there /\ p.present /\ q.frags + m = p.frags + n /\ m >= n

LEMMA OwnMeek ==
  ASSUME NEW c \in Clients, NEW g, NEW h, NEW n, NEW m, Own(g.player[c], h.player[c], n, m),
         \A d \in Clients : d # c => h.player[d] = g.player[d]
  PROVE  Meek(g, h)
BY DEF Own, Meek

LEMMA OwnKeeps ==
  ASSUME LInv, UNCHANGED bound, NEW c \in Clients, mp'.state = mp.state,
         \A d \in Clients : d # c => /\ mp'.player[d] = mp.player[d]
                                    /\ hist'.died[d] = hist.died[d],
         hist'.leaves = hist.leaves, hist'.kicked = hist.kicked,
         NEW n \in Nat, NEW m \in Nat, n = hist.died[c], m = hist'.died[c], bound \in Bounds,
         LastMan => Own(mp.player[c], mp'.player[c], n, m)
  PROVE  LInv'
<1>1. SUFFICES ASSUME LastMan
               PROVE  Sound(mp') /\ Lives(mp', hist'.died) /\ Someone(mp', hist')
  <2>1. LastMan' = LastMan /\ FragLimit' = FragLimit
    BY DEF LastMan, FragLimit
  <2> QED BY <2>1 DEF LInv, Lives
<1>2. Sound(mp) /\ Lives(mp, hist.died) /\ Someone(mp, hist)
  BY <1>1 DEF LInv
<1>3. Own(mp.player[c], mp'.player[c], n, m)
  BY <1>1
<1>4. Sound(mp')
  <2>1. AllSpent(mp')
    BY <1>2, <1>3 DEF Sound, AllSpent, Own
  <2>2. ASSUME mp'.state \notin {"GAMEREVIEW", "NEXTGAME"}, NEW d \in Clients, mp'.player[d].there
        PROVE  Eager(mp'.player[d])
    <3>1. \A x \in Clients : mp.player[x].there => Eager(mp.player[x])
      BY <1>2, <2>2 DEF Sound
    <3>2. CASE d = c
      BY <1>3, <3>1, <3>2 DEF Own
    <3>3. CASE d # c
      <4>1. mp'.player[d] = mp.player[d]
        BY <3>3
      <4> QED BY <2>2, <3>1, <4>1
    <3> QED BY <3>2, <3>3
  <2> QED BY <2>1, <2>2 DEF Sound
<1>5. Lives(mp', hist'.died)
  <2>1. SUFFICES ASSUME mp.state = "GAMEON", NEW d \in Clients,
                        mp'.player[d].there, mp'.player[d].present
                 PROVE  \/ hist'.died[d] >= FragLimit
                        \/ mp'.player[d].frags + hist'.died[d] >= FragLimit
    BY DEF Lives
  <2>2. \A x \in Clients : mp.player[x].there /\ mp.player[x].present =>
           hist.died[x] >= FragLimit \/ mp.player[x].frags + hist.died[x] >= FragLimit
    BY <1>2, <2>1 DEF Lives
  <2>3. CASE d = c
    <3>1. /\ mp'.player[c].frags + m = mp.player[c].frags + n /\ m >= n
          /\ n >= FragLimit \/ mp.player[c].frags + n >= FragLimit
      BY <1>3, <2>1, <2>2, <2>3 DEF Own
    <3>2. FragLimit \in Nat
      BY MultiplayerGameAssumption DEF FragLimit
    <3>3. n >= FragLimit => m >= FragLimit
      BY <3>1, <3>2
    <3> QED BY <2>3, <3>1, <3>3
  <2>4. CASE d # c
    <3>1. mp'.player[d] = mp.player[d] /\ hist'.died[d] = hist.died[d]
      BY <2>4
    <3> QED BY <2>1, <2>2, <3>1
  <2> QED BY <2>3, <2>4
<1>6. Someone(mp', hist')
  <2>1. \A d \in Clients :
           /\ mp.player[d].there =>
                mp'.player[d].there /\ (mp.player[d].ingame => mp'.player[d].ingame)
           /\ mp'.player[d].over => mp.player[d].over
    <3>1. TAKE d \in Clients
    <3>2. CASE d = c
      BY <1>3, <3>2 DEF Own
    <3>3. CASE d # c
      <4>1. mp'.player[d] = mp.player[d]
        BY <3>3
      <4> QED BY <4>1
    <3> QED BY <3>2, <3>3
  <2>2. ASSUME NEW d \in There(mp), mp.player[d].ingame
        PROVE  d \in There(mp') /\ mp'.player[d].ingame /\ (mp'.player[d].over => mp.player[d].over)
    BY <2>1, <2>2 DEF There
  <2> QED BY <1>2, <2>2 DEF Someone, Somebody, Fights
<1> QED BY <1>4, <1>5, <1>6

LEMMA LeaveLives ==
  ASSUME IInv, LInv, NEW c \in Clients, Leave(c)
  PROVE  LInv'
<1>1. SUFFICES ASSUME LastMan
               PROVE  Sound(mp') /\ Lives(mp', hist'.died) /\ Someone(mp', hist')
  <2>1. LastMan' = LastMan /\ FragLimit' = FragLimit
    BY DEF LastMan, FragLimit, Leave
  <2> QED BY <2>1 DEF LInv, Lives
<1>2. Sound(mp) /\ Lives(mp, hist.died) /\ mp \in Games /\ bound \in Bounds
  BY <1>1 DEF LInv, IInv, Types
<1>3. PICK h \in Histories : h = hist
  BY DEF IInv, Types
<1>4. hist' = [h EXCEPT !.leaves = h.leaves + 1, !.died[c] = 0]
  BY <1>3 DEF Leave
<1>5. /\ hist'.leaves # 0
      /\ \A d \in Clients : d # c => hist'.died[d] = hist.died[d]
  BY <1>3, <1>4 DEF Histories
<1>6. PICK k : k = mp' /\ k = ServerClientDisconnect(mp, c)
  BY DEF Leave
<1>7. Polled(mp, k) /\ ~k.player[c].there
  BY <1>2, <1>6, DisconnectLife, DisconnectIs
<1>8. Sound(k)
  BY <1>2, <1>7 DEF Sound, Polled
<1>9. Lives(k, hist'.died)
  <2>1. SUFFICES ASSUME k.state = "GAMEON", NEW d \in Clients,
                        k.player[d].there, k.player[d].present
                 PROVE  hist'.died[d] >= FragLimit \/ k.player[d].frags + hist'.died[d] >= FragLimit
    BY DEF Lives
  <2>2. d # c /\ mp.state = "GAMEON" /\ k.player[d] = mp.player[d]
    BY <1>7, <2>1 DEF Polled
  <2>3. hist'.died[d] = hist.died[d]
    BY <1>5, <2>2
  <2> QED BY <1>2, <2>1, <2>2, <2>3 DEF Lives
<1>10. Someone(k, hist')
  BY <1>5 DEF Someone
<1> QED BY <1>6, <1>8, <1>9, <1>10

LEMMA LeaveMeek ==
  ASSUME IInv, NEW c \in Clients, Leave(c)
  PROVE  Meek(mp, mp')
<1>1. mp \in Games /\ bound \in Bounds
  BY DEF IInv, Types
<1>2. PICK k : k = mp' /\ k = ServerClientDisconnect(mp, c)
  BY DEF Leave
<1>3. Polled(mp, k)
  BY <1>1, <1>2, DisconnectLife
<1> QED BY <1>2, <1>3 DEF Polled, Fewer, Meek, Fights

LEMMA ForceReadyLives ==
  ASSUME IInv, LInv, ForceReady
  PROVE  LInv' /\ Meek(mp, mp')
<1>1. mp \in Games /\ hist' = hist /\ bound' = bound
  BY DEF IInv, Types, ForceReady
<1> DEFINE new == [c \in Clients |-> IF c \in There(mp) /\ ~IsReady(mp.player[c])
                     THEN [mp.player[c] EXCEPT !.forced = TRUE] ELSE mp.player[c]]
<1>2. ASSUME NEW c \in Clients
      PROVE  Level(mp.player[c], new[c])
  <2>1. PICK p : p = mp.player[c] /\ p \in Players
    BY <1>1 DEF Games
  <2>2. PICK q : q = [p EXCEPT !.forced = TRUE] /\ Level(p, q)
    <3>1. Level(p, [p EXCEPT !.forced = TRUE])
      BY <2>1 DEF Players, Level
    <3> QED BY <3>1
  <2>3. new[c] \in {p, q}
    BY <2>1, <2>2
  <2> QED BY <2>1, <2>2, <2>3 DEF Level
<1>3. mp' = [mp EXCEPT !.player = new]
  BY <1>1 DEF ForceReady, Games
<1> HIDE DEF new
<1>4. mp'.player = new /\ mp'.state = mp.state
  BY <1>1, <1>3 DEF Games
<1>5. Levels(mp, mp')
  BY <1>2, <1>4 DEF Levels
<1> QED BY <1>1, <1>4, <1>5, LevelsKeep, LevelsMeek

LEMMA ServerCallVoteLives ==
  ASSUME IInv, LInv, NEW c \in Clients, NEW kind, NEW value, ServerCallVote(c, kind, value)
  PROVE  LInv' /\ Meek(mp, mp')
<1>1. mp \in Games /\ bound' = bound
  BY DEF IInv, Types, ServerCallVote
<1> DEFINE new == [i \in Clients |-> [mp.player[i] EXCEPT !.vote =
                     IF ~mp.player[i].there THEN "NONE" ELSE IF i = c THEN "YES" ELSE "WAIT"]]
<1>2. ASSUME NEW i \in Clients
      PROVE  Level(mp.player[i], new[i])
  <2>1. PICK p : p = mp.player[i] /\ p \in Players
    BY <1>1 DEF Games
  <2>2. PICK b \in Ballots : b = IF ~p.there THEN "NONE" ELSE IF i = c THEN "YES" ELSE "WAIT"
    BY DEF Ballots
  <2>3. PICK q : q = [p EXCEPT !.vote = b]
    OBVIOUS
  <2>4. Level(p, q)
    BY <2>1, <2>3 DEF Players, Level
  <2>5. new[i] = q
    BY <2>1, <2>2, <2>3
  <2> QED BY <2>1, <2>4, <2>5
<1> DEFINE v == [kind |-> kind, yes |-> 1, no |-> 0, exec |-> FALSE, value |-> value]
<1>3. mp' = Tell([mp EXCEPT !.vote = v, !.player = new], StartVote)
  BY <1>1 DEF ServerCallVote, ServerStartVote, Games
<1> HIDE DEF new, v
<1>4. mp'.player = new /\ mp'.state = mp.state
  BY <1>1, <1>3 DEF Tell, Games
<1>5. hist'.died = hist.died /\ hist'.leaves = hist.leaves /\ hist'.kicked = hist.kicked
  BY DEF ServerCallVote, IInv, Types, Histories
<1>6. Levels(mp, mp')
  BY <1>2, <1>4 DEF Levels
<1> QED BY <1>1, <1>4, <1>5, <1>6, LevelsKeep, LevelsMeek

LEMMA ServerCastVoteLives ==
  ASSUME IInv, LInv, NEW c \in Clients, NEW yes \in BOOLEAN, ServerCastVote(c, yes)
  PROVE  LInv' /\ Meek(mp, mp')
<1>1. mp \in Games /\ bound' = bound
  BY DEF IInv, Types, ServerCastVote
<1>2. PICK p : p = mp.player[c] /\ p \in Players
  BY <1>1 DEF Games
<1>3. PICK q : q = [p EXCEPT !.vote = IF yes THEN "YES" ELSE "NO"]
  OBVIOUS
<1>4. Level(p, q)
  BY <1>2, <1>3 DEF Players, Level
<1>5. PICK players : players = [mp.player EXCEPT ![c] = q]
  OBVIOUS
<1> DEFINE v == IF yes THEN [mp.vote EXCEPT !.yes = mp.vote.yes + 1]
                ELSE [mp.vote EXCEPT !.no = mp.vote.no + 1]
           m == UpdateVote("UPDATE", v.yes, v.no)
<1>6. mp' = Tell([mp EXCEPT !.vote = v, !.player[c].vote = IF yes THEN "YES" ELSE "NO"], m)
  BY DEF ServerCastVote, CastVote
<1> HIDE DEF v, m
<1>7. mp' = Tell([mp EXCEPT !.vote = v, !.player = players], m)
  <2>1. [mp EXCEPT !.vote = v, !.player[c].vote = IF yes THEN "YES" ELSE "NO"]
          = [mp EXCEPT !.vote = v, !.player = players]
    BY <1>1, <1>2, <1>3, <1>5
  <2> QED BY <1>6, <2>1
<1>8. mp'.player = players /\ mp'.state = mp.state
  BY <1>1, <1>7 DEF Tell, Games
<1>9. ASSUME NEW i \in Clients
      PROVE  Level(mp.player[i], players[i])
  <2>1. mp.player \in [Clients -> Players]
    BY <1>1 DEF Games
  <2>2. CASE i = c
    BY <1>2, <1>4, <1>5, <2>1, <2>2
  <2>3. CASE i # c
    <3>1. players[i] = mp.player[i]
      BY <1>5, <2>1, <2>3
    <3> QED BY <3>1 DEF Level
  <2> QED BY <2>2, <2>3
<1>10. hist'.died = hist.died /\ hist'.leaves = hist.leaves /\ hist'.kicked = hist.kicked
  BY DEF ServerCastVote, IInv, Types, Histories
<1>11. Levels(mp, mp')
  BY <1>8, <1>9 DEF Levels
<1> QED BY <1>1, <1>8, <1>10, <1>11, LevelsKeep, LevelsMeek

LEMMA ReceiveLives ==
  ASSUME IInv, LInv, NEW c \in Clients, Receive(c)
  PROVE  LInv' /\ Meek(mp, mp')
<1>1. /\ mp \in Games /\ hist' = hist /\ bound' = bound
      /\ mp' = [mp EXCEPT !.inbox[c] = Tail(mp.inbox[c])]
  BY DEF IInv, Types, Receive
<1>2. mp'.player = mp.player /\ mp'.state = mp.state
  BY <1>1 DEF Games
<1>3. Levels(mp, mp')
  BY <1>2, SameLevels
<1> QED BY <1>1, <1>2, <1>3, LevelsKeep, LevelsMeek

LEMMA JoinLives ==
  ASSUME IInv, LInv, NEW c \in Clients, Join(c)
  PROVE  LInv' /\ Meek(mp, mp')
<1>1. /\ mp \in Games /\ bound' = bound /\ bound \in Bounds /\ ~mp.player[c].there
      /\ hist'.died = hist.died /\ hist'.leaves = hist.leaves /\ hist'.kicked = hist.kicked
  BY DEF IInv, Types, Join, Histories
<1>2. PICK n \in Nat : n = hist.died[c]
  BY DEF IInv, Types, Histories
<1>3. PICK p : p = [NoPlayer EXCEPT !.there = TRUE, !.spec = TRUE, !.force = TRUE]
  OBVIOUS
<1>4. p \in Players /\ p.there /\ p.spec /\ ~p.over /\ p.force /\ ~p.present
  <2>1. PICK none : none = NoPlayer
    OBVIOUS
  <2>2. none \in Players /\ ~none.over /\ ~none.present
    BY <2>1 DEF NoPlayer, Players, Ballots
  <2> QED BY <1>3, <2>1, <2>2 DEF Players
<1>5. /\ mp'.state = mp.state /\ mp'.player[c] = p
      /\ \A d \in Clients : d # c => mp'.player[d] = mp.player[d]
  <2>1. mp' = With(mp, c, p)
    BY <1>3 DEF Join
  <2> QED BY <1>1, <1>4, <2>1, WithIs DEF Steady
<1>6. Own(mp.player[c], p, n, n)
  BY <1>1, <1>4 DEF Own, Spent, Eager
<1>7. LInv'
  BY <1>1, <1>2, <1>5, <1>6, OwnKeeps
<1>8. Meek(mp, mp')
  BY <1>5, <1>6, OwnMeek
<1> QED BY <1>7, <1>8

LEMMA EvaluateControlsLives ==
  ASSUME IInv, LInv, NEW c \in Clients, EvaluateControls(c)
  PROVE  LInv' /\ Meek(mp, mp')
<1>1. mp \in Games /\ hist' = hist /\ bound' = bound /\ bound \in Bounds
  BY DEF IInv, Types, EvaluateControls
<1>2. PICK n \in Nat : n = hist.died[c]
  BY DEF IInv, Types, Histories
<1>3. PICK p : p = mp.player[c] /\ p \in Players
  BY <1>1 DEF Games
<1>4. PICK q : q = [p EXCEPT !.force = TRUE]
  OBVIOUS
<1>5. q \in Players /\ Own(p, q, n, n)
  <2>1. q \in Players /\ q.there = p.there /\ q.ingame = p.ingame /\ q.force /\ q.spec = p.spec /\ SameLife(p, q)
    BY <1>3, <1>4 DEF Players, SameLife
  <2> QED BY <1>2, <2>1 DEF SameLife, Own, Spent, Eager
<1>6. /\ mp'.state = mp.state /\ mp'.player[c] = q
      /\ \A d \in Clients : d # c => mp'.player[d] = mp.player[d]
  <2>1. mp' = With(mp, c, q)
    BY <1>3, <1>4 DEF EvaluateControls, With
  <2> QED BY <1>1, <1>5, <2>1, WithIs DEF Steady
<1>7. LInv'
  BY <1>1, <1>2, <1>3, <1>5, <1>6, OwnKeeps
<1>8. Meek(mp, mp')
  BY <1>3, <1>5, <1>6, OwnMeek
<1> QED BY <1>7, <1>8

LEMMA UserInfoLives ==
  ASSUME IInv, LInv, NEW c \in Clients, NEW want \in BOOLEAN, NEW ready \in BOOLEAN,
         UserInfo(c, want, ready)
  PROVE  LInv' /\ Meek(mp, mp')
<1>1. /\ mp \in Games /\ bound' = bound /\ bound \in Bounds
      /\ hist'.died = hist.died /\ hist'.leaves = hist.leaves /\ hist'.kicked = hist.kicked
  BY DEF IInv, Types, UserInfo, Histories
<1>2. PICK n \in Nat : n = hist.died[c]
  BY DEF IInv, Types, Histories
<1>3. PICK p : p = mp.player[c] /\ p \in Players
  BY <1>1 DEF Games
<1>4. PICK b \in BOOLEAN : b = (p.force \/ (p.want /\ ~want))
  <2>1. (p.force \/ (p.want /\ ~want)) \in BOOLEAN
    OBVIOUS
  <2> QED BY <2>1
<1>5. PICK a : a = [p EXCEPT !.want = want, !.force = b]
  OBVIOUS
<1>6. /\ a \in Players /\ a.want = want /\ a.force = b
      /\ a.there = p.there /\ a.ingame = p.ingame /\ a.spec = p.spec /\ SameLife(p, a)
  BY <1>3, <1>5, ZenonT(60) DEF Players, SameLife
<1>7. PICK q : q = IF mp.state = "SUDDENDEATH" /\ p.want THEN p ELSE a
  OBVIOUS
<1>8. /\ q \in Players /\ q.there = p.there /\ q.ingame = p.ingame /\ q.spec = p.spec
      /\ SameLife(p, q) /\ (Eager(p) => Eager(q))
  <2>1. CASE q = p
    BY <1>3, <2>1 DEF SameLife
  <2>2. CASE q = a
    BY <1>3, <1>4, <1>6, <2>2 DEF SameLife, Eager
  <2> QED BY <1>7, <2>1, <2>2
<1>9. PICK o : o = [q EXCEPT !.ready = ready, !.ingame = TRUE]
  OBVIOUS
<1>10. /\ o \in Players /\ o.ingame /\ o.there = q.there /\ o.spec = q.spec
       /\ o.want = q.want /\ o.force = q.force /\ SameLife(q, o)
  BY <1>8, <1>9 DEF Players, SameLife
<1>11. /\ mp'.state = mp.state /\ mp'.player[c] = o
       /\ \A d \in Clients : d # c => mp'.player[d] = mp.player[d]
  <2>1. a = [p EXCEPT !.want = want, !.force = @ \/ (p.want /\ ~want)]
    BY <1>3, <1>4, <1>5 DEF Players
  <2>2. mp' = With(mp, c, o)
    BY <1>3, <1>7, <1>9, <2>1 DEF UserInfo
  <2> QED BY <1>1, <1>10, <2>2, WithIs DEF Steady
<1>12. p.there
  BY <1>3 DEF UserInfo
<1>13. Own(p, o, n, n)
  <2>1. o.there /\ o.spec = p.spec /\ o.over = p.over /\ o.frags = p.frags /\ o.again = p.again /\ o.present = p.present
    BY <1>8, <1>10, <1>12 DEF SameLife
  <2>2. Eager(p) => Eager(o)
    BY <1>8, <1>10 DEF Eager, SameLife
  <2>3. Spent(p) => Spent(o)
    BY <2>1 DEF Spent
  <2> QED BY <1>2, <1>10, <1>12, <2>1, <2>2, <2>3 DEF Own
<1>14. LInv'
  BY <1>1, <1>2, <1>3, <1>11, <1>13, OwnKeeps
<1>15. Meek(mp, mp')
  BY <1>3, <1>11, <1>13, OwnMeek
<1> QED BY <1>14, <1>15

LEMMA DieSame ==
  ASSUME IInv, NEW c \in Clients, NEW killer, Die(c, killer)
  PROVE  \A d \in Clients : /\ mp'.player[d].over = mp.player[d].over
                            /\ mp'.player[d].spec = mp.player[d].spec
<1>1. PICK p : p = mp.player[c] /\ p \in Players /\ mp \in Games
  BY DEF IInv, Types, Games
<1>2. PICK a : a = [p EXCEPT !.dead = TRUE]
  OBVIOUS
<1>3. a \in Players /\ a.over = p.over /\ a.spec = p.spec
  BY <1>1, <1>2 DEF Players
<1>4. PICK g : g = With(mp, c, a) /\ g \in Games /\ g.player[c] = a
               /\ \A d \in Clients : d # c => g.player[d] = mp.player[d]
  BY <1>1, <1>3, WithIs
<1>5. PICK x, k : mp' = [g EXCEPT !.player[x].frags = k]
  <2>1. \/ mp' = [g EXCEPT !.player[c].frags = g.player[c].frags - 1]
        \/ mp' = [g EXCEPT !.player[killer].frags = g.player[killer].frags + 1]
    BY <1>1, <1>2, <1>4 DEF Die
  <2> QED BY <2>1
<1>6. ASSUME NEW d \in Clients
      PROVE  mp'.player[d].over = g.player[d].over /\ mp'.player[d].spec = g.player[d].spec
  <2>1. PICK o : o = g.player[d] /\ o \in Players
    BY <1>4 DEF Games
  <2>2. mp'.player[d] = IF d = x THEN [o EXCEPT !.frags = k] ELSE o
    BY <1>4, <1>5, <2>1 DEF Games
  <2> QED BY <2>1, <2>2 DEF Players
<1> QED BY <1>1, <1>3, <1>4, <1>6

LEMMA DieLives ==
  ASSUME IInv, LInv, NEW c \in Clients, NEW killer, Die(c, killer)
  PROVE  LInv' /\ Meek(mp, mp')
<1>1. mp \in Games /\ bound' = bound /\ bound \in Bounds
  BY DEF IInv, Types, Die
<1>2. CASE ~LastMan
  <2>1. LastMan' = LastMan
    BY <1>1 DEF LastMan
  <2>2. \A d \in Clients : /\ mp'.player[d].over = mp.player[d].over
                           /\ mp'.player[d].spec = mp.player[d].spec
    BY DieSame
  <2> QED BY <1>2, <2>1, <2>2 DEF LInv, Meek
<1>3. CASE LastMan
  <2>1. PICK h \in Histories : h = hist
    BY DEF IInv, Types
  <2>2. PICK n \in Nat, m \in Nat : n = h.died[c] /\ m = n + 1
    BY <2>1 DEF Histories
  <2>3. hist' = [h EXCEPT !.deaths = h.deaths + 1, !.died[c] = m]
    BY <2>1, <2>2 DEF Die
  <2>4. /\ hist'.died[c] = m /\ hist'.leaves = hist.leaves /\ hist'.kicked = hist.kicked
        /\ \A d \in Clients : d # c => hist'.died[d] = hist.died[d]
    BY <2>1, <2>3 DEF Histories
  <2>5. PICK p : p = mp.player[c] /\ p \in Players
    BY <1>1 DEF Games
  <2>6. PICK k \in Int : k = p.frags - 1
    BY <2>5 DEF Players
  <2>7. PICK a : a = [p EXCEPT !.dead = TRUE]
    OBVIOUS
  <2>8. /\ a \in Players /\ a.there = p.there /\ a.ingame = p.ingame /\ a.spec = p.spec
        /\ a.want = p.want /\ a.force = p.force /\ SameLife(p, a)
    BY <2>5, <2>7 DEF Players, SameLife
  <2>9. PICK q : q = [a EXCEPT !.frags = k]
    OBVIOUS
  <2>10. /\ q \in Players /\ q.there = p.there /\ q.ingame = p.ingame /\ q.spec = p.spec
         /\ q.want = p.want /\ q.force = p.force /\ q.frags = k
         /\ q.over = p.over /\ q.again = p.again /\ q.present = p.present
    BY <2>8, <2>9 DEF Players, SameLife
  <2>11. /\ mp'.state = mp.state /\ mp'.player[c] = q
         /\ \A d \in Clients : d # c => mp'.player[d] = mp.player[d]
    <3>1. mp' = [With(mp, c, a) EXCEPT !.player[c].frags = @ - 1]
      BY <1>3, <2>5, <2>7 DEF Die
    <3>2. PICK g : g = With(mp, c, a) /\ g \in Games /\ g.state = mp.state /\ g.player[c] = a
                   /\ \A d \in Clients : d # c => g.player[d] = mp.player[d]
      BY <1>1, <2>8, WithIs DEF Steady
    <3>3. mp' = With(g, c, q)
      BY <2>6, <2>8, <2>9, <3>1, <3>2 DEF With, SameLife
    <3> QED BY <2>10, <3>2, <3>3, WithIs DEF Steady
  <2>12. p.there
    BY <2>5 DEF Die
  <2>13. Own(p, q, n, m)
    <3>1. q.frags + m = p.frags + n /\ m >= n
      BY <2>2, <2>5, <2>6, <2>10 DEF Players
    <3>2. Spent(p) => Spent(q)
      BY <2>5, <2>6, <2>10 DEF Players, Spent
    <3> QED BY <2>10, <2>12, <3>1, <3>2 DEF Own, Eager
  <2>14. LInv'
    BY <1>1, <2>1, <2>2, <2>4, <2>5, <2>11, <2>13, OwnKeeps
  <2>15. Meek(mp, mp')
    <3>1. Own(mp.player[c], mp'.player[c], n, m)
      BY <2>5, <2>11, <2>13
    <3> QED BY <2>11, <3>1, OwnMeek
  <2> QED BY <2>14, <2>15
<1> QED BY <1>2, <1>3

LEMMA LInit ==
  ASSUME Init
  PROVE  LInv
<1>1. PICK p : p = NoPlayer /\ ~p.there /\ ~p.over
  <2>1. ~NoPlayer.there /\ ~NoPlayer.over
    BY DEF NoPlayer
  <2> QED BY <2>1
<1>2. mp.state = "INACTIVE" /\ \A c \in Clients : mp.player[c] = p
  BY <1>1 DEF Init
<1>3. Sound(mp)
  BY <1>1, <1>2 DEF Sound, AllSpent, Spent
<1>4. Lives(mp, hist.died) /\ Someone(mp, hist)
  BY <1>2 DEF Lives, Someone, Fights
<1> QED BY <1>3, <1>4 DEF LInv

LEMMA LStep ==
  ASSUME IInv, LInv, [Next]_vars
  PROVE  LInv' /\ (Meek(mp, mp') \/ Run)
<1>1. CASE Run
  <2>1. PICK due \in Due : RunDue(due)
    BY <1>1 DEF Run
  <2> QED BY <1>1, <2>1, RunLives
<1>2. CASE ForceReady
  BY <1>2, ForceReadyLives
<1>3. ASSUME NEW c \in Clients, Join(c)
      PROVE  LInv' /\ Meek(mp, mp')
  BY <1>3, JoinLives
<1>4. ASSUME NEW c \in Clients, Leave(c)
      PROVE  LInv' /\ Meek(mp, mp')
  BY <1>4, LeaveLives, LeaveMeek
<1>5. ASSUME NEW c \in Clients, NEW want \in BOOLEAN, NEW ready \in BOOLEAN,
             UserInfo(c, want, ready)
      PROVE  LInv' /\ Meek(mp, mp')
  BY <1>5, UserInfoLives
<1>6. ASSUME NEW c \in Clients, NEW killer, Die(c, killer)
      PROVE  LInv' /\ Meek(mp, mp')
  BY <1>6, DieLives
<1>7. ASSUME NEW c \in Clients, EvaluateControls(c)
      PROVE  LInv' /\ Meek(mp, mp')
  BY <1>7, EvaluateControlsLives
<1>8. ASSUME NEW c \in Clients, NEW kind, NEW value, ServerCallVote(c, kind, value)
      PROVE  LInv' /\ Meek(mp, mp')
  BY <1>8, ServerCallVoteLives
<1>9. ASSUME NEW c \in Clients, NEW yes \in BOOLEAN, ServerCastVote(c, yes)
      PROVE  LInv' /\ Meek(mp, mp')
  BY <1>9, ServerCastVoteLives
<1>10. ASSUME NEW c \in Clients, Receive(c)
       PROVE  LInv' /\ Meek(mp, mp')
  BY <1>10, ReceiveLives
<1>11. CASE UNCHANGED vars
  <2>1. mp' = mp /\ hist' = hist /\ bound' = bound
    BY <1>11 DEF vars
  <2>2. Levels(mp, mp')
    BY <2>1, SameLevels
  <2> QED BY <2>1, <2>2, LevelsKeep, LevelsMeek
<1> QED BY <1>1, <1>2, <1>3, <1>4, <1>5, <1>6, <1>7, <1>8, <1>9, <1>10, <1>11 DEF Next

\* What a player of last man standing has left, whether and when the player is
\* put in again, and who there is to go on with, belong together in every state
\* of any match, whoever comes, goes, dies and votes when (CheckRespawns).
THEOREM LivesInvariant == Spec => []LInv
<1>1. Init => LInv
  BY LInit
<1>2. IInv /\ LInv /\ [Next]_vars => LInv'
  BY LStep
<1> QED BY <1>1, <1>2, Invariant, PTL DEF Spec

LEMMA LivesSpentStep ==
  ASSUME IInv, LInv, [Next]_vars, NEW c \in Clients, mp.state = "GAMEON",
         mp.player[c].present, ~mp.player[c].over, mp'.player[c].over
  PROVE  hist.died[c] >= FragLimit
<1>1. Run
  BY LStep DEF Meek
<1>2. PICK due : mp' = Frame(mp, due)
  BY <1>1 DEF Run, RunDue
<1>3. PICK f : f = mp' /\ f = Frame(mp, due)
  BY <1>2
<1>4. mp \in Games /\ bound \in Bounds /\ Matches(mp) /\ hist \in Histories /\ FragLimit \in Nat
  BY MultiplayerGameAssumption DEF IInv, Types, FragLimit
<1>5. Fell(mp, mp.player[c])
  <2>1. LastMan => AllSpent(mp)
    BY DEF LInv, Sound
  <2> QED BY <1>3, <1>4, <2>1, FrameOver
<1>6. LastMan /\ mp.player[c].there /\ mp.player[c].frags <= 0
  BY <1>5 DEF Fell
<1>7. hist.died[c] >= FragLimit \/ mp.player[c].frags + hist.died[c] >= FragLimit
  BY <1>6 DEF LInv, Lives
<1>8. hist.died[c] \in Nat /\ mp.player[c].frags \in Int
  BY <1>4 DEF Histories, Games, Players
<1> QED BY <1>4, <1>6, <1>7, <1>8

LEMMA LateComersOutStep ==
  ASSUME IInv, LInv, [Next]_vars, NEW c \in Clients, LastMan, Fights(mp), Fights(mp'),
         mp.player[c].spec, ~mp.player[c].present, mp'.player[c].there, ~mp'.player[c].spec
  PROVE  \A other \in Playing(mp') \ {c} : mp'.player[other].over
<1>1. Run
  BY LStep DEF Meek
<1>2. PICK due : mp' = Frame(mp, due)
  BY <1>1 DEF Run, RunDue
<1>3. PICK f : f = mp' /\ f = Frame(mp, due)
  BY <1>2
<1>4. mp \in Games /\ bound \in Bounds /\ Matches(mp) /\ AllSpent(mp)
  BY DEF IInv, Types, LInv, Sound
<1>5. (\E b, d : Fought(mp, b, d, f, due)) \/ Started(mp, f)
  BY <1>3, <1>4, FrameFights
<1>6. PICK b, d : Fought(mp, b, d, f, due)
  BY <1>5 DEF Started, Fights
<1>7. \A x \in Clients : Level(d.player[x], f.player[x]) /\ Same(b.player[x], d.player[x])
  BY <1>6 DEF Fought, Levels, Goes, Like
<1>8. Went(b, d, c) /\ Fights(b)
  <2>1. Went(b, d, c)
    BY <1>6, MultiplayerGameAssumption DEF Fought, Kept, Clients
  <2> QED BY <1>6, <2>1 DEF Fought, Fights
<1>9. d.player[c].there /\ ~d.player[c].spec /\ b.player[c].there
  BY <1>3, <1>7 DEF Level, Same
<1>10. b.player[c] = mp.player[c]
  BY <1>6, <1>9 DEF Fought
<1>11. OthersOut(d, c)
  BY <1>8, <1>9, <1>10 DEF Went
<1>12. SUFFICES ASSUME NEW other \in Playing(f) \ {c}
                PROVE  f.player[other].over
  BY <1>3
<1>13. other \in Clients /\ Level(d.player[other], f.player[other])
  BY <1>7, <1>12 DEF Playing, There
<1>14. other \in Playing(d) \ {c}
  BY <1>12, <1>13 DEF Playing, There, CanPlay, Level
<1> QED BY <1>11, <1>13, <1>14 DEF OthersOut, Level

\* In last man standing lives decide who is in and who is out.  Who was there
\* at the start is out, until sudden death, only with as many lives lost as the
\* match gave; who comes late stays out until all the others are (CheckRespawns).
THEOREM LivesDecideAlways == Spec => LivesDecide
<1>1. IInv /\ LInv /\ [Next]_vars =>
        [\A c \in Clients :
           (/\ mp.state = "GAMEON" /\ mp.player[c].present
            /\ ~mp.player[c].over /\ mp'.player[c].over)
           => hist.died[c] >= FragLimit]_vars
  BY LivesSpentStep
<1>2. IInv /\ LInv /\ [Next]_vars =>
        [\A c \in Clients :
           (/\ LastMan /\ {mp.state, mp'.state} \subseteq {"GAMEON", "SUDDENDEATH"}
            /\ mp.player[c].spec /\ ~mp.player[c].present
            /\ mp'.player[c].there /\ ~mp'.player[c].spec)
           => \A other \in Playing(mp') \ {c} : mp'.player[other].over]_vars
  BY LateComersOutStep DEF Fights
<1>3. Spec => LivesSpent
  BY <1>1, Invariant, LivesInvariant, PTL DEF Spec, LivesSpent
<1>4. Spec => LateComersOut
  BY <1>2, Invariant, LivesInvariant, PTL DEF Spec, LateComersOut
<1> QED BY <1>3, <1>4 DEF LivesDecide

\* A match of last man standing comes to an end: as long as nobody leaves or is
\* kicked there is somebody to put in again, and the next frame does so, or finds
\* the one who is left (CheckRespawns, LosesLastLife).
THEOREM NotStalledAlways == Spec => []NotStalled
<1>1. ASSUME IInv, LInv
      PROVE  NotStalled
  <2>1. SUFFICES ASSUME LastMan, NobodyGaveUp, Stalled
                 PROVE  FALSE
    BY DEF NotStalled
  <2>2. PICK due : /\ due = [vote |-> TRUE, next |-> TRUE, limit |-> TRUE, time |-> FALSE]
                   /\ Frame(mp, due) = mp /\ due.limit
    BY <2>1 DEF Stalled
  <2>3. /\ mp \in Games /\ bound \in Bounds /\ Matches(mp)
        /\ Sound(mp) /\ Someone(mp, hist) /\ Fights(mp)
    BY <1>1, <2>1 DEF IInv, Types, LInv, Stalled, Fights
  <2>4. mp = Frame(mp, due)
    BY <2>2
  <2>5. (\E b, d : Fought(mp, b, d, mp, due)) \/ Started(mp, mp)
    <3>1. AllSpent(mp) /\ Fights(mp) /\ LastMan
      BY <2>1, <2>3 DEF Sound
    <3> QED BY <2>3, <2>4, <3>1, FrameFights
  <2>6. PICK b, d : Fought(mp, b, d, mp, due)
    BY <2>3, <2>5 DEF Started, Fights
  <2>7. b = mp /\ ~mp.limit
    BY <2>1, <2>2, <2>6 DEF Fought, Stalled
  <2>8. PICK c \in There(mp) : mp.player[c].ingame /\ ~mp.player[c].over
    BY <2>1, <2>3 DEF Someone, Somebody, NobodyGaveUp
  <2>9. c \in Clients /\ mp.player[c].there /\ mp.player[c].spec /\ ~mp.player[c].want
    BY <2>1, <2>8 DEF There, Stalled, NobodyGaveUp
  <2>10. mp.player[c].force
    <3>1. mp.state \notin {"GAMEREVIEW", "NEXTGAME"}
      BY <2>3 DEF Fights
    <3> QED BY <2>3, <2>8, <2>9, <3>1 DEF Sound, Eager
  <2>11. Went(mp, d, c)
    BY <2>6, <2>7, <2>9, MultiplayerGameAssumption DEF Fought, Kept, Clients
  <2>12. ~d.player[c].spec \/ d.player[c].over
    BY <2>3, <2>7, <2>8, <2>9, <2>10, <2>11 DEF Went, WantRespawn
  <2>13. Level(d.player[c], mp.player[c])
    BY <2>6, <2>9 DEF Fought, Levels
  <2> QED BY <2>8, <2>9, <2>12, <2>13 DEF Level
<1>2. IInv /\ LInv => NotStalled
  BY <1>1
<1> QED BY <1>2, Invariant, LivesInvariant, PTL
=============================================================================
