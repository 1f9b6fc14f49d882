--------------------------- MODULE MultiplayerGame ---------------------------
(***************************************************************************)
(* The rules of a multiplayer match on a dedicated server                  *)
(* (d3xp/MultiplayerGame.cpp, with what d3xp/Player.cpp keeps for them):   *)
(* the states of a match, who is in it, and the votes of its players, with *)
(* what each client shows of them.  Deathmatch and last man standing; the  *)
(* warmup waits for everybody to be ready, spectators are allowed, and no  *)
(* map cycle is set.                                                       *)
(*                                                                         *)
(* Run is a frame of the rules; what players do, and what arrives from     *)
(* their clients, happens in between.  A timer that is set may run out in  *)
(* any later frame.                                                        *)
(***************************************************************************)
EXTENDS Integers, Sequences, FiniteSets

CONSTANTS
  N,           \* client numbers are 0 .. N - 1
  Bounds       \* the matches looked at, one of which is chosen: its game type and
               \* si_fragLimit, and as bounds how many joins, leaves, infos, deaths
               \* and votes there are and if the console may force players ready

ASSUME MultiplayerGameAssumption ==
  /\ N \in Nat
  /\ Bounds \subseteq [type : {"DM", "LASTMAN"}, frags : Nat, joins : Nat, leaves : Nat,
                       infos : Nat, deaths : Nat, votes : Nat, forces : BOOLEAN]

VARIABLES
  mp,          \* idMultiplayerGame, and of each slot its player and state
  client,      \* what each client shows of a vote
  hist,        \* history
  bound

vars == <<mp, client, hist, bound>>

Clients == 0 .. N - 1
NOLIVES == -20
None == -1

LastMan == bound.type = "LASTMAN"
FragLimit == bound.frags

\* The memset of a playerState, with an entity that is not there.
NoPlayer == [there |-> FALSE, ingame |-> FALSE, want |-> FALSE, spec |-> FALSE,
             force |-> FALSE, ready |-> FALSE, forced |-> FALSE, dead |-> FALSE,
             leader |-> FALSE, over |-> FALSE, again |-> FALSE, present |-> FALSE,
             frags |-> 0, vote |-> "NONE"]

\* What is left of a slot when its player's entity is deleted: the state.
Deleted(p) ==
  [NoPlayer EXCEPT !.ingame = p.ingame, !.frags = p.frags, !.vote = p.vote]

\* g is idMultiplayerGame, c a client number, p a player and its state.
There(g) == {c \in Clients : g.player[c].there}
With(g, c, p) == [g EXCEPT !.player[c] = p]

\* A loop over the players that are there.
ForEach(Do(_, _), g) ==
  LET Step(h, c) == IF h.player[c].there THEN Do(h, c) ELSE h
      upto[n \in 0 .. N] == IF n = 0 THEN g ELSE Step(upto[n - 1], n - 1)
  IN  upto[N]

CanPlay(p) == ~p.want /\ p.ingame
WantRespawn(p) == p.force /\ ~p.want /\ p.ingame
IsReady(p) == p.ready \/ p.forced
Playing(g) == {c \in There(g) : CanPlay(g.player[c])}
EnoughClientsToPlay(g) == Cardinality(Playing(g)) >= 2
AllPlayersReady(g) ==
  EnoughClientsToPlay(g) /\ \A c \in Playing(g) : IsReady(g.player[c])

-----------------------------------------------------------------------------
(* Into the world and out of it *)

\* idPlayer::Init
Fresh(p) == [p EXCEPT !.dead = FALSE, !.forced = FALSE, !.leader = FALSE]

SpawnToPoint(p) ==
  [Fresh(p) EXCEPT !.force = p.force /\ p.spec, !.over = FALSE, !.again = FALSE]

ToSpectators(p) == IF p.spec THEN p ELSE [Fresh(p) EXCEPT !.spec = TRUE]

\* In a deathmatch whoever comes back from the spectators starts over.
IntoWorld(p) ==
  SpawnToPoint([p EXCEPT !.spec = FALSE, !.frags = IF p.spec /\ ~LastMan THEN 0 ELSE @])

ServerSpectate(g, c, spectate) ==
  With(g, c, IF spectate THEN ToSpectators(g.player[c]) ELSE IntoWorld(g.player[c]))

\* PrepareForRestart, and Restart, of everybody.
LocalMapRestart(g) ==
  LET Restarted(h, c) ==
        With(h, c, SpawnToPoint([ToSpectators(h.player[c]) EXCEPT !.force = TRUE]))
  IN  ForEach(Restarted, g)

-----------------------------------------------------------------------------
(* NewState *)

\* Case GAMEON for one player.
Starts(g, c) ==
  LET p == [g.player[c] EXCEPT !.leader = FALSE, !.frags = IF LastMan THEN FragLimit ELSE 0]
      q == IF p.want THEN p ELSE IntoWorld(p)
  IN  With(g, c, [q EXCEPT !.present = CanPlay(q)])

Review(g, c) ==
  ServerSpectate(With(g, c, [g.player[c] EXCEPT !.forced = FALSE]), c, TRUE)

NewState(g, news) ==
  CASE news = "GAMEON" ->
         [ForEach(Starts, LocalMapRestart([g EXCEPT !.limit = FALSE])) EXCEPT !.state = news]
    [] news = "GAMEREVIEW" ->
         [ForEach(Review, g) EXCEPT !.next = "INACTIVE", !.state = news]
    [] OTHER -> [g EXCEPT !.state = news]

InMatch(g) == g.state \in {"COUNTDOWN", "GAMEON", "SUDDENDEATH"}

CheckAbortGame(g) ==
  IF InMatch(g) /\ ~EnoughClientsToPlay(g) THEN NewState(g, "GAMEREVIEW") ELSE g

\* A mutated form: what was scheduled stays so.
MapRestartAsScheduled(g) ==
  LET h == LocalMapRestart(g)
  IN  IF h.state = "WARMUP" THEN h ELSE NewState(h, "WARMUP")

\* MapRestart of the game, then of its rules.
MapRestart(g) ==
  LET h == LocalMapRestart(g)
  IN  IF h.state = "WARMUP" THEN h
      ELSE [NewState(h, "WARMUP") EXCEPT !.next = "INACTIVE"]

-----------------------------------------------------------------------------
(* Leaders *)

\* Who FragLeader looks at: spectators too, for the most frags.
Contenders(g) == {c \in Playing(g) : ~g.player[c].over}
Leaders(g) ==
  LET all == Contenders(g)
  IN  {c \in all : /\ ~g.player[c].spec
                   /\ \A other \in all : g.player[c].frags >= g.player[other].frags}

MarkLeaders(g) ==
  LET leaders == Leaders(g)
  IN  [g EXCEPT !.player = [c \in Clients |->
         IF @[c].there THEN [@[c] EXCEPT !.leader = c \in leaders] ELSE @[c]]]

FragLeader(g) ==
  LET leaders == Leaders(g)
  IN  IF Cardinality(leaders) = 1 THEN CHOOSE c \in leaders : TRUE ELSE None

FragLimitHit(g) ==
  LET lead == FragLeader(g)
  IN  /\ lead # None
      /\ IF LastMan THEN \A c \in Playing(g) \ {lead} : g.player[c].frags <= 0
         ELSE g.player[lead].frags >= FragLimit

SuddenRespawn(g) ==
  [g EXCEPT !.player = [c \in Clients |->
     IF LastMan /\ c \in Contenders(g) THEN [@[c] EXCEPT !.again = TRUE] ELSE @[c]]]

-----------------------------------------------------------------------------
(* CheckRespawns *)

\* A mutated form: also when nobody is left.
LosesLastLifeAlways(g, c) ==
  ServerSpectate(With(g, c, [g.player[c] EXCEPT !.over = TRUE, !.frags = NOLIVES]), c, TRUE)

\* The last life is gone, unless nobody would be left.
LosesLastLife(g, c) ==
  LET h == ServerSpectate(
             With(g, c, [g.player[c] EXCEPT !.over = TRUE, !.frags = NOLIVES]), c, TRUE)
  IN  IF \A other \in Playing(h) : h.player[other].over
      THEN ServerSpectate(h, c, FALSE) ELSE h

RespawnsInSuddenDeath(g, c) ==
  IF g.limit THEN g
  ELSE IF g.player[c].leader THEN ServerSpectate(g, c, FALSE)
  ELSE CheckAbortGame(ServerSpectate(g, c, TRUE))

\* A mutated form: a warmup respawn counts for who was not there.
RespawnsWhoeverCame(g, c) ==
  LET p == g.player[c]
  IN  IF \/ g.state \in {"WARMUP", "COUNTDOWN"}
         \/ (g.state = "GAMEON" /\ p.frags > 0 /\ p.present)
         \/ (g.state \in {"GAMEON", "SUDDENDEATH"} /\ p.again)
      THEN ServerSpectate(g, c, FALSE)
      ELSE IF g.state \in {"GAMEON", "SUDDENDEATH"} /\ ~g.limit /\ ~p.over
      THEN LosesLastLife(g, c)
      ELSE g

RespawnsAsLastMan(g, c) ==
  LET p == g.player[c]
  IN  IF \/ g.state \in {"WARMUP", "COUNTDOWN"}
         \/ (g.state = "GAMEON" /\ p.frags > 0 /\ p.present)
         \/ (g.state \in {"GAMEON", "SUDDENDEATH"} /\ p.again /\ p.present)
      THEN ServerSpectate(g, c, FALSE)
      ELSE IF g.state \in {"GAMEON", "SUDDENDEATH"} /\ ~g.limit /\ ~p.over
      THEN LosesLastLife(g, c)
      ELSE g

Respawns(g, c) ==
  IF LastMan THEN RespawnsAsLastMan(g, c)
  ELSE IF g.state = "SUDDENDEATH" THEN RespawnsInSuddenDeath(g, c)
  ELSE IF g.state \in {"WARMUP", "COUNTDOWN", "GAMEON"} THEN ServerSpectate(g, c, FALSE)
  ELSE g

\* A mutated form: nobody looks if the others are enough.
RetiresUnseen(g, c) ==
  ServerSpectate(With(g, c, [g.player[c] EXCEPT !.frags = 0]), c, TRUE)

Retires(g, c) ==
  CheckAbortGame(ServerSpectate(With(g, c, [g.player[c] EXCEPT !.frags = 0]), c, TRUE))

CheckRespawnsAnd(g, spectator) ==
  LET Check(h, c) ==
        IF WantRespawn(h.player[c]) \/ c = spectator THEN Respawns(h, c)
        ELSE IF h.player[c].want /\ ~h.player[c].spec THEN Retires(h, c)
        ELSE h
  IN  ForEach(Check, g)

CheckRespawns(g) == CheckRespawnsAnd(g, None)

\* Everybody back in from the spectators of the review.
PutEveryoneBack(g) ==
  LET Back(h, c) == IF h.player[c].want THEN h ELSE CheckRespawnsAnd(h, c)
  IN  ForEach(Back, g)

-----------------------------------------------------------------------------
(* Votes *)

NoVote == [kind |-> "NONE", yes |-> 0, no |-> 0, exec |-> FALSE, value |-> None]

\* Reliable messages to the clients in the game.
Tell(g, msg) ==
  [g EXCEPT !.inbox = [c \in Clients |-> IF g.player[c].there THEN Append(@[c], msg) ELSE @[c]]]

StartVote == [id |-> "STARTVOTE", yes |-> 1, no |-> 0]
UpdateVote(status, yes, no) == [id |-> status, yes |-> yes, no |-> no]

\* ServerStartVote, and ClientStartVote on the server.
ServerStartVote(g, c, kind, value) ==
  Tell([g EXCEPT !.vote = [kind |-> kind, yes |-> 1, no |-> 0, exec |-> FALSE, value |-> value],
                 !.player = [i \in Clients |-> [@[i] EXCEPT !.vote =
                    IF ~g.player[i].there THEN "NONE" ELSE IF i = c THEN "YES" ELSE "WAIT"]]],
       StartVote)

\* ServerClientDisconnect, and DisconnectClient.
ServerClientDisconnect(g, c) ==
  CheckAbortGame([With(g, c, Deleted(g.player[c])) EXCEPT !.inbox[c] = <<>>])

\* The kick goes by the number of the slot.
ExecuteVote(g) ==
  CASE g.vote.kind = "RESTART" -> MapRestart(g)
    [] g.vote.kind = "KICK" /\ g.player[g.vote.value].there ->
         ServerClientDisconnect(g, g.vote.value)
    [] OTHER -> g

Voters(g) == Cardinality({c \in There(g) : g.player[c].vote # "NONE"})

\* due: the timers that have run out.
CheckVote(g, due) ==
  LET v == g.vote
      Ends(status) == [Tell(g, UpdateVote(status, v.yes, v.no)) EXCEPT !.vote = NoVote]
  IN  IF v.kind = "NONE" \/ (v.exec /\ ~due.vote) THEN g
      ELSE IF v.exec
      THEN [ExecuteVote(Tell([g EXCEPT !.vote.exec = FALSE], UpdateVote("RESET", 0, 0)))
              EXCEPT !.vote = NoVote]
      ELSE IF Voters(g) = 0 THEN Ends("ABORTED")
      ELSE IF 2 * v.yes > Voters(g)
      THEN [Tell(g, UpdateVote("PASSED", v.yes, v.no)) EXCEPT !.vote.exec = TRUE]
      ELSE IF due.vote \/ 2 * v.no >= Voters(g) THEN Ends("FAILED")
      ELSE g

CastVote(g, c, yes) ==
  LET v == IF yes THEN [g.vote EXCEPT !.yes = @ + 1] ELSE [g.vote EXCEPT !.no = @ + 1]
  IN  Tell([g EXCEPT !.vote = v, !.player[c].vote = IF yes THEN "YES" ELSE "NO"],
           UpdateVote("UPDATE", v.yes, v.no))

-----------------------------------------------------------------------------
(* Run *)

\* The delay between a leader is found and the end of the match.
EndsAfterDelay(g, due) ==
  IF ~g.limit THEN [g EXCEPT !.limit = TRUE]
  ELSE IF due.limit THEN NewState(g, "GAMEREVIEW")
  ELSE g

Even(g) == [SuddenRespawn(g) EXCEPT !.limit = FALSE]

GameOn(g, due) ==
  IF FragLimitHit(g) THEN EndsAfterDelay(g, due)
  ELSE IF g.limit THEN NewState(Even(g), "SUDDENDEATH")
  ELSE IF ~due.time THEN g
  ELSE NewState(g, IF FragLeader(g) = None THEN "SUDDENDEATH" ELSE "GAMEREVIEW")

SuddenDeath(g, due) ==
  IF FragLeader(g) # None THEN EndsAfterDelay(g, due)
  ELSE IF g.limit THEN Even(g)
  ELSE g

\* The switch on the state.
Rules(g, due) ==
  CASE g.state = "GAMEREVIEW" /\ g.next = "INACTIVE" -> [g EXCEPT !.next = "NEXTGAME"]
    [] g.state = "NEXTGAME" /\ g.next = "INACTIVE" -> PutEveryoneBack(NewState(g, "WARMUP"))
    [] g.state = "WARMUP" /\ AllPlayersReady(g) ->
         [NewState(g, "COUNTDOWN") EXCEPT !.next = "GAMEON"]
    [] g.state = "GAMEON" -> GameOn(MarkLeaders(g), due)
    [] g.state = "SUDDENDEATH" -> SuddenDeath(MarkLeaders(g), due)
    [] OTHER -> g

NextState(g, due) ==
  IF g.next # "INACTIVE" /\ due.next
  THEN [NewState(g, g.next) EXCEPT !.next = "INACTIVE"] ELSE g

Activated(g) == IF g.state = "INACTIVE" THEN NewState(g, "WARMUP") ELSE g

Frame(g, due) ==
  Rules(NextState(CheckRespawns(CheckVote(Activated(g), due)), due), due)

\* The timers that may have run out.
Due ==
  {due \in [vote : BOOLEAN, next : BOOLEAN, limit : BOOLEAN, time : BOOLEAN] :
     /\ due.vote => mp.vote.kind # "NONE"
     /\ due.next => mp.next # "INACTIVE"
     /\ due.limit => mp.limit
     /\ due.time => mp.state = "GAMEON"}

\* The lives c has lost; who goes to the spectators has none left.
Lost(g, c) ==
  IF ~g.player[c].there \/ (mp.state # "GAMEON" /\ g.state = "GAMEON") THEN 0
  ELSE IF g.player[c].want /\ g.player[c].spec THEN FragLimit
  ELSE hist.died[c]

RunDue(due) ==
  /\ mp' = Frame(mp, due)
  /\ hist' = [hist EXCEPT
       !.died = [c \in Clients |-> Lost(mp', c)],
       !.sits = @ /\ InMatch(mp'),
       !.kicked = @ \/ There(mp') # There(mp),
       !.electorate = IF mp'.vote.kind = "NONE" THEN {} ELSE @,
       !.cast = IF mp'.vote.kind = "NONE" THEN {} ELSE @]
  /\ UNCHANGED <<client, bound>>

Run == \E due \in Due : RunDue(due)

-----------------------------------------------------------------------------
(* What the clients and their players do *)

NotShown == [shown |-> FALSE, yes |-> 0, no |-> 0]

\* ServerClientConnect, and later ServerClientBegin; the rules do not look at
\* a slot in between.
Join(c) ==
  /\ ~mp.player[c].there
  /\ hist.leaves > 0 \/ 0 .. c - 1 \subseteq There(mp)
  /\ hist.joins < bound.joins
  /\ mp' = With(mp, c, [NoPlayer EXCEPT !.there = TRUE, !.spec = TRUE, !.force = TRUE])
  /\ client' = [client EXCEPT ![c] = NotShown]
  /\ hist' = [hist EXCEPT !.joins = @ + 1, !.person[c] = hist.joins + 1]
  /\ UNCHANGED bound

Leave(c) ==
  /\ mp.player[c].there
  /\ hist.leaves < bound.leaves
  /\ mp' = ServerClientDisconnect(mp, c)
  /\ hist' = [hist EXCEPT !.leaves = @ + 1, !.died[c] = 0]
  /\ UNCHANGED <<client, bound>>

\* SetUserInfo: UserInfoChanged and EnterGame.
UserInfo(c, want, ready) ==
  /\ mp.player[c].there
  /\ hist.infos < bound.infos
  /\ LET p == mp.player[c]
         q == IF mp.state = "SUDDENDEATH" /\ p.want THEN p
              ELSE [p EXCEPT !.want = want, !.force = @ \/ (p.want /\ ~want)]
     IN  mp' = With(mp, c, [q EXCEPT !.ready = ready, !.ingame = TRUE])
  /\ hist' = [hist EXCEPT !.infos = @ + 1,
                !.sits = @ \/ (InMatch(mp) /\ CanPlay(mp.player[c]) /\ mp.player[c].spec /\ want)]
  /\ UNCHANGED <<client, bound>>

\* Killed, and PlayerDeath; None kills who falls to death.
Die(c, killer) ==
  /\ mp.player[c].there /\ ~mp.player[c].spec /\ ~mp.player[c].dead
  /\ hist.deaths < bound.deaths
  /\ mp' = LET g == With(mp, c, [mp.player[c] EXCEPT !.dead = TRUE])
           IN  IF LastMan \/ killer \in {c, None}
               THEN [g EXCEPT !.player[c].frags = @ - 1]
               ELSE [g EXCEPT !.player[killer].frags = @ + 1]
  /\ hist' = [hist EXCEPT !.deaths = @ + 1, !.died[c] = @ + 1]
  /\ UNCHANGED <<client, bound>>

EvaluateControls(c) ==
  /\ mp.player[c].there /\ mp.player[c].dead /\ ~mp.player[c].force
  /\ mp' = [mp EXCEPT !.player[c].force = TRUE]
  /\ UNCHANGED <<client, hist, bound>>

\* From the server's console.
ForceReady ==
  /\ \E c \in There(mp) : ~IsReady(mp.player[c])
  /\ bound.forces
  /\ mp' = [mp EXCEPT !.player = [c \in Clients |->
              IF c \in There(mp) /\ ~IsReady(@[c]) THEN [@[c] EXCEPT !.forced = TRUE] ELSE @[c]]]
  /\ UNCHANGED <<client, hist, bound>>

ServerCallVote(c, kind, value) ==
  /\ mp.player[c].there
  /\ mp.vote.kind = "NONE"
  /\ hist.votes < bound.votes
  /\ mp' = ServerStartVote(mp, c, kind, value)
  /\ hist' = [hist EXCEPT !.votes = @ + 1,
                !.electorate = {hist.person[i] : i \in There(mp)},
                !.cast = {hist.person[c]}]
  /\ UNCHANGED <<client, bound>>

\* A mutated form: who came since, or voted no, may vote.
MayVoteToo(p) == p.vote # "YES"
MayVote(p) == p.vote = "WAIT"

ServerCastVote(c, yes) ==
  /\ mp.player[c].there
  /\ mp.vote.kind # "NONE" /\ MayVote(mp.player[c])
  /\ mp' = CastVote(mp, c, yes)
  /\ hist' = [hist EXCEPT !.cast = @ \union {hist.person[c]}]
  /\ UNCHANGED <<client, bound>>

\* A mutated form: the last count of a vote is not kept for its delay.
ShownUntilPassed(shows, msg) ==
  CASE msg.id = "STARTVOTE" -> [shown |-> TRUE, yes |-> msg.yes, no |-> msg.no]
    [] shows.shown /\ msg.id = "UPDATE" -> [shows EXCEPT !.yes = msg.yes, !.no = msg.no]
    [] OTHER -> NotShown

\* ClientStartVote, ClientUpdateVote
Shown(shows, msg) ==
  CASE msg.id = "STARTVOTE" -> [shown |-> TRUE, yes |-> msg.yes, no |-> msg.no]
    [] shows.shown /\ msg.id \in {"UPDATE", "PASSED"} ->
         [shows EXCEPT !.yes = msg.yes, !.no = msg.no]
    [] OTHER -> NotShown

Receive(c) ==
  /\ mp.inbox[c] # <<>>
  /\ client' = [client EXCEPT ![c] = Shown(@, Head(mp.inbox[c]))]
  /\ mp' = [mp EXCEPT !.inbox[c] = Tail(@)]
  /\ UNCHANGED <<hist, bound>>

Init ==
  /\ mp = [state |-> "INACTIVE", next |-> "INACTIVE", limit |-> FALSE, vote |-> NoVote,
           player |-> [c \in Clients |-> NoPlayer], inbox |-> [c \in Clients |-> <<>>]]
  /\ client = [c \in Clients |-> NotShown]
  /\ hist = [joins |-> 0, leaves |-> 0, infos |-> 0, deaths |-> 0, votes |-> 0,
             person |-> [c \in Clients |-> 0], died |-> [c \in Clients |-> 0],
             sits |-> FALSE, kicked |-> FALSE, electorate |-> {}, cast |-> {}]
  /\ bound \in Bounds

Next ==
  \/ Run
  \/ ForceReady
  \/ \E c \in Clients :
       \/ Join(c)
       \/ Leave(c)
       \/ \E want, ready \in BOOLEAN : UserInfo(c, want, ready)
       \/ \E killer \in There(mp) \union {None} : Die(c, killer)
       \/ EvaluateControls(c)
       \/ ServerCallVote(c, "RESTART", None)
       \/ \E value \in Clients : ServerCallVote(c, "KICK", value)
       \/ \E yes \in BOOLEAN : ServerCastVote(c, yes)
       \/ Receive(c)

Spec == Init /\ [][Next]_vars
-----------------------------------------------------------------------------
(* Properties *)

\* A switch that is scheduled belongs to the state the match is in: a countdown
\* that is broken off, by a player who leaves or by a vote, does not start a
\* match later.
NextMatches ==
  mp.next \in CASE mp.state = "COUNTDOWN" -> {"GAMEON"}
                [] mp.state = "GAMEREVIEW" -> {"INACTIVE", "NEXTGAME"}
                [] OTHER -> {"INACTIVE"}

\* A match goes on between two players at least, whoever leaves, is kicked or
\* goes to the spectators (CheckAbortGame).  Who wants to and is not there yet
\* goes in the next frame.  Not so when somebody who was already out of the
\* match, with no lives left or not respawned, then wants to spectate: nothing
\* looks if the others are enough.
EnoughPlayers ==
  InMatch(mp) /\ ~EnoughClientsToPlay(mp) /\ ~hist.sits =>
    \E c \in There(mp) : mp.player[c].want /\ ~mp.player[c].spec

\* Each vote counted is the vote of another person, who was there when it was
\* called: not of one who came since, into a slot that had been left.
OneVoteEach ==
  mp.vote.kind # "NONE" =>
    /\ hist.cast \subseteq hist.electorate
    /\ mp.vote.yes + mp.vote.no = Cardinality(hist.cast)

\* A client that has received all there is shows the vote that is on, with its
\* count, and no vote when there is none.
VotesShown ==
  \A c \in There(mp) : mp.inbox[c] = <<>> =>
    client[c] = IF mp.vote.kind # "NONE" /\ hist.person[c] \in hist.electorate
                THEN [shown |-> TRUE, yes |-> mp.vote.yes, no |-> mp.vote.no]
                ELSE NotShown

\* Nothing happens any more: all the players are spectators, with no vote on,
\* and a frame in which every timer that is set runs out changes nothing.
Stalled ==
  /\ mp.state \in {"GAMEON", "SUDDENDEATH"}
  /\ \A c \in There(mp) : mp.player[c].spec
  /\ mp.vote.kind = "NONE"
  /\ Frame(mp, [vote |-> TRUE, next |-> TRUE, limit |-> TRUE, time |-> FALSE]) = mp

NobodyGaveUp ==
  /\ hist.leaves = 0 /\ ~hist.kicked
  /\ \A c \in There(mp) : mp.player[c].ingame => ~mp.player[c].want

\* A match of last man standing does not stall, whoever dies when and whoever
\* comes late, as long as nobody leaves it or is kicked.
NotStalled == LastMan /\ NobodyGaveUp => ~Stalled

\* No match stalls.
NeverStalled == ~Stalled

\* In last man standing, until sudden death, who was there at the start is out
\* only once all their lives are gone.
LivesSpent ==
  [][\A c \in Clients :
       (/\ mp.state = "GAMEON" /\ mp.player[c].present
        /\ ~mp.player[c].over /\ mp'.player[c].over)
       => hist.died[c] >= FragLimit]_vars

\* Who comes late to a match of last man standing stays out of it, until all
\* the others have lost their lives: then the last one to be out is put in, for
\* the match to end.
LateComersOut ==
  [][\A c \in Clients :
       (/\ LastMan /\ {mp.state, mp'.state} \subseteq {"GAMEON", "SUDDENDEATH"}
        /\ mp.player[c].spec /\ ~mp.player[c].present
        /\ mp'.player[c].there /\ ~mp'.player[c].spec)
       => \A other \in Playing(mp') \ {c} : mp'.player[other].over]_vars

\* In last man standing lives decide who is in and who is out, whoever comes when.
LivesDecide == LivesSpent /\ LateComersOut
=============================================================================
