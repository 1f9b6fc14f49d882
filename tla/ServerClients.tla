--------------------------- MODULE ServerClients ---------------------------
(***************************************************************************)
(* The slots of a dedicated server (framework/async/AsyncServer.cpp), the  *)
(* players of its game (d3xp/Game_network.cpp), and what the clients know  *)
(* of both from the reliable messages they are sent: whose user info and   *)
(* whose player there is.                                                  *)
(*                                                                         *)
(* A reliable message that finds no room drops its client, which sends     *)
(* reliable messages to the others, which may find no room: DropClient is  *)
(* entered from under every loop that sends, its own included.  So the     *)
(* handlers are operators from state to state, with S.state[i] the slots   *)
(* as they are at that point of the handler; each action runs one handler  *)
(* to its end.                                                             *)
(*                                                                         *)
(* queue[i] holds what client i has not got yet, reliable messages and the *)
(* GAMEINITs among them; a packet brings all of it.  Where the client that *)
(* is sent a message has got it but the server has not heard so, the queue *)
(* is longer in the code: it overflows sooner, not otherwise.              *)
(***************************************************************************)
EXTENDS Integers, Sequences

CONSTANTS
  MaxClients,      \* the slots, MAX_ASYNC_CLIENTS
  Capacity,        \* reliable messages that a queue has room for
  Rounds,          \* of empty messages when the server ends
  Fragments,       \* that a message may have when the server ends; 0: too large
  Bounds           \* records of si_pure and the bounds: connections, games, and
                   \* messages that are sent for nothing that is modelled here

Slot == 0 .. MaxClients - 1

VARIABLES
  server,    \* the record S below
  client,    \* client[i]: what the program behind slot i knows
  up,        \* up[i]: reliable messages on their way from it
  connects,  \* history: connections there were
  extras,    \* history: messages sent for nothing in particular
  bound      \* the element of Bounds

vars == <<server, client, up, connects, extras, bound>>

FREE == 0
ZOMBIE == 1
PUREWAIT == 2
CONNECTED == 3
INGAME == 4

Nobody == 0    \* no user info
NoPlayer == 0  \* the spawnId of no entity

Msg(kind, i, n) == [kind |-> kind, num |-> i, val |-> n]
Reliable(m) == m.kind # "GAMEINIT"

-----------------------------------------------------------------------------
(* Sending and dropping.  A step of a loop over the slots is an operator   *)
(* op(S, i); All runs it.                                                  *)

Fold(op(_, _), S, seq) ==
  LET R[n \in 0 .. Len(seq)] == IF n = 0 THEN S ELSE op(R[n - 1], seq[n])
  IN  R[Len(seq)]
All(op(_, _), S) ==
  LET R[n \in 0 .. MaxClients] == IF n = 0 THEN S ELSE op(R[n - 1], n - 1)
  IN  R[MaxClients]

RECURSIVE DropClient(_, _)

Room(S, i) == Len(SelectSeq(S.queue[i], Reliable)) < Capacity
Queued(S, i, m) == [S EXCEPT !.queue[i] = Append(@, m)]

\* ClearReliableMessages.
Cleared(S, i) == [S EXCEPT !.queue[i] = SelectSeq(@, LAMBDA m : ~Reliable(m))]

SendReliableMessage(S, i, m) ==
  IF Room(S, i) THEN Queued(S, i, m) ELSE DropClient(Cleared(S, i), i)

SendReliableGameMessage(S, i, m) ==
  IF S.state[i] = INGAME THEN SendReliableMessage(S, i, m) ELSE S

SendToConnected(S, also, m) ==
  All(LAMBDA T, i : IF i \in also \/ T.state[i] >= CONNECTED
                      THEN SendReliableMessage(T, i, m) ELSE T, S)
SendToInGame(S, m) == All(LAMBDA T, i : SendReliableGameMessage(T, i, m), S)

\* game->ServerClientDisconnect
ServerClientDisconnect(S, c) ==
  LET T == SendToInGame(S, Msg("DELETE_ENT", c, S.player[c]))
  IN  [T EXCEPT !.player[c] = NoPlayer]

\* A mutated form: only who is in the game is told, and the client itself.
InGameTold(S, c) ==
  IF S.state[c] # INGAME
    THEN SendReliableMessage(SendToInGame(S, Msg("DISCONNECT", c, Nobody)),
                             c, Msg("DISCONNECT", c, Nobody))
    ELSE SendToInGame(S, Msg("DISCONNECT", c, Nobody))

\* "clientNum so SCS_PUREWAIT client gets it's own disconnect msg"
Told(S, c) == SendToConnected(S, {c}, Msg("DISCONNECT", c, Nobody))

\* The game may hear of it twice, when a client's queue has no room for its
\* own DISCONNECT.
DropClient(S, c) ==
  IF S.state[c] <= ZOMBIE THEN S
  ELSE [ServerClientDisconnect(Told(S, c), c) EXCEPT !.state[c] = ZOMBIE]

-----------------------------------------------------------------------------
(* Infos, games, joining *)

\* game->SetUserInfo may modify the info; then it goes to c as well.  astray: the
\* info goes out although c has been dropped, in this packet or right here.
SendUserInfoBroadcast(S, c, info, toAll) ==
  LET T == All(LAMBDA U, i : IF U.state[i] >= CONNECTED /\ (toAll \/ i # c)
                               THEN SendReliableMessage(U, i, Msg("CLIENTINFO", c, info))
                               ELSE U, S)
  IN  [T EXCEPT !.info[c] = info, !.astray[c] = @ \/ T.state[c] <= ZOMBIE]

\* A mutated form: the entity stays.
ParasiteLeft(S, c) == [S EXCEPT !.state[c] = CONNECTED, !.info[c] = Nobody]

\* InitClient: "make sure no parasite entity is left" (ServerClientConnect).  An
\* entity that is deleted here is not deleted on the clients.
InitClient(S, c) ==
  [S EXCEPT !.state[c] = CONNECTED, !.info[c] = Nobody, !.player[c] = NoPlayer,
            !.taken[c] = @ \/ S.player[c] # NoPlayer]

\* SendGameInitToClient; got = FALSE if the message is lost.
SendGameInit(S, c, got) ==
  IF got THEN Queued(S, c, Msg("GAMEINIT", c, S.gameInitId)) ELSE S

SendReliablePure(S, c) == SendReliableMessage(S, c, Msg("PURE", c, S.gameInitId))

WrongGame(S, c, got) ==
  LET T == SendGameInit([S EXCEPT !.state[c] = CONNECTED], c, got)
  IN  IF S.pure THEN SendReliablePure([T EXCEPT !.state[c] = PUREWAIT], c) ELSE T

\* SendUserInfoToClient for every other client that is connected.
InfoOfOthers(S, c) ==
  All(LAMBDA T, i : IF T.state[i] >= CONNECTED /\ i # c /\ T.state[c] >= CONNECTED
                      THEN SendReliableMessage(T, c, Msg("CLIENTINFO", i, T.info[i]))
                      ELSE T, S)

SendSyncedCvarsToClient(S, c) ==
  IF S.state[c] >= CONNECTED
    THEN SendReliableMessage(S, c, Msg("SYNCEDCVARS", c, Nobody)) ELSE S

SendEnterGameToClient(S, c) == SendReliableMessage(S, c, Msg("ENTERGAME", c, Nobody))

\* ServerClientBegin: the player spawns whatever has become of the client.
ServerClientBegin(S, c) ==
  LET T == SendReliableGameMessage(S, c, Msg("INIT_DECL_REMAP", c, Nobody))
      id == T.spawnCount + 1
  IN  SendToInGame([T EXCEPT !.spawnCount = id, !.player[c] = id],
                   Msg("SPAWN_PLAYER", c, id))

\* savedEvents are empty and no countdown runs.
ServerWriteInitialReliableMessages(S, c) ==
  LET T == All(LAMBDA U, i : IF U.player[i] # NoPlayer /\ i # c
                               THEN SendReliableGameMessage(U, c, Msg("SPAWN_PLAYER", i, U.player[i]))
                               ELSE U, S)
  IN  Fold(LAMBDA U, kind : SendReliableGameMessage(U, c, Msg(kind, c, Nobody)),
           T, <<"PORTALSTATES", "STARTSTATE", "SERVERINFO">>)

EnterGame(S, c) ==
  LET T == ServerWriteInitialReliableMessages(
             ServerClientBegin(
               SendEnterGameToClient(
                 SendSyncedCvarsToClient(
                   InfoOfOthers([S EXCEPT !.state[c] = INGAME], c), c), c), c), c)
  IN  [T EXCEPT !.astray[c] = @ \/ T.state[c] # INGAME]

-----------------------------------------------------------------------------
(* What a packet of client c brings.  f chooses what the game and the      *)
(* network make of it: f.modified, the game modifies an info; f.got, a     *)
(* GAMEINIT is not lost; f.verified, the paks are right; f.applied, the    *)
(* snapshot that the client has is applied.                                *)

\* ProcessReliablePure; the state is PUREWAIT (GameSync, PureExpected).
ProcessReliablePure(S, c, game, f) ==
  IF game # S.gameInitId THEN S
  ELSE IF f.verified THEN [S EXCEPT !.state[c] = CONNECTED]
  ELSE DropClient(S, c)

\* ProcessChatMessage: nothing comes of what a client says that has no player.
ProcessGame(S, c) ==
  IF S.player[c] # NoPlayer THEN SendToInGame(S, Msg("CHAT", c, Nobody)) ELSE S

\* Nothing here asks what has become of the client.
ProcessReliable(S, c, m, f) ==
  CASE m.kind = "CLIENTINFO" -> SendUserInfoBroadcast(S, c, m.val, f.modified)
    [] m.kind = "PURE" -> ProcessReliablePure(S, c, m.val, f)
    [] m.kind = "GAME" -> ProcessGame(S, c)
    [] m.kind = "DISCONNECT" -> DropClient(S, c)

\* The client has seen messages behind a GAMEINIT that never came.
MissedGameInit(S, c) ==
  \A i \in DOMAIN S.queue[c] : S.queue[c][i].kind # "GAMEINIT"

ProcessUnreliable(S, c, game, f) ==
  IF S.state[c] = ZOMBIE THEN S
  ELSE IF game # S.gameInitId
    THEN IF MissedGameInit(S, c) THEN WrongGame(S, c, f.got) ELSE S
  ELSE IF S.state[c] = CONNECTED THEN EnterGame(S, c)
  ELSE IF S.state[c] = INGAME /\ f.applied
    THEN SendReliableMessage(S, c, Msg("APPLYSNAPSHOT", c, Nobody))
  ELSE S

Outcomes(S, ms, game) ==
  LET Brings(kind) == \E i \in DOMAIN ms : ms[i].kind = kind
  IN  {f \in [modified : BOOLEAN, got : BOOLEAN, verified : BOOLEAN, applied : BOOLEAN] :
         /\ f.modified => Brings("CLIENTINFO")
         /\ ~f.verified => Brings("PURE")
         /\ f.got => game # S.gameInitId
         /\ f.applied => game = S.gameInitId}

\* ProcessMessage: the reliable messages of the packet, then the packet.
ProcessPacket(S, c, ms, game, f) ==
  ProcessUnreliable(Fold(LAMBDA T, m : ProcessReliable(T, c, m, f), S, ms),
                    c, game, f)

-----------------------------------------------------------------------------
(* The clients.  V is a client and, in V.says, what it sends back.         *)

Unknown == [i \in Slot |-> 0]

\* A program that has just heard connectResponse, or that has not run yet.
Program(c, who, game, alive) ==
  [alive |-> alive, slot |-> c, who |-> who, game |-> game, entered |-> FALSE,
   info |-> Unknown, player |-> Unknown, says |-> <<>>]

\* Own DISCONNECT: session->Stop.  A GAMEINIT starts over: InitGame, and the
\* map is loaded, with pure paks when they are right, before anything else of
\* that game comes.
Read(V, m) ==
  IF ~V.alive THEN V
  ELSE CASE m.kind = "GAMEINIT" ->
              [V EXCEPT !.game = m.val, !.entered = FALSE,
                        !.info = Unknown, !.player = Unknown]
         [] m.kind = "PURE" ->
              IF m.val = V.game
                THEN [V EXCEPT !.says = Append(@, Msg("PURE", m.num, m.val))] ELSE V
         [] m.kind = "ENTERGAME" ->
              [V EXCEPT !.entered = TRUE,
                        !.says = Append(@, Msg("CLIENTINFO", m.num, V.who))]
         [] m.kind = "CLIENTINFO" -> [V EXCEPT !.info[m.num] = m.val]
         [] m.kind = "DISCONNECT" ->
              IF m.num = V.slot THEN Program(m.num, V.who, V.game, FALSE)
                                ELSE [V EXCEPT !.info[m.num] = Nobody]
         [] m.kind = "SPAWN_PLAYER" -> [V EXCEPT !.player[m.num] = m.val]
         [] m.kind = "DELETE_ENT" ->
              [V EXCEPT !.player[m.num] = IF @ = m.val THEN NoPlayer ELSE @]
         [] OTHER -> V

\* Client c after the messages ms.
After(c, ms) == Fold(Read, client[c], ms)

-----------------------------------------------------------------------------
(* The end of the server, as it is for one client.  No packet is read any  *)
(* more, so its queue stays: every message begun now has all of it, in the *)
(* same number of fragments.                                               *)
(*   due      the client has not ended, and is to be told                  *)
(*   queued   its DISCONNECT is in the queue                               *)
(*   size     the fragments of a message; none if it is too large to send  *)
(*   first    fragments that were left of the message in hand              *)
(*   left     fragments that are; carries: it has the DISCONNECT; whole:   *)
(*            all of it so far has arrived                                 *)
(*   lost     packets; one out of order is one more                        *)
(*   told     a message with the DISCONNECT has arrived                    *)

NotDue ==
  [due |-> FALSE, queued |-> FALSE, size |-> 0, first |-> 0, left |-> 0,
   carries |-> FALSE, whole |-> TRUE, lost |-> 0, told |-> FALSE]

\* What the rounds begin with; bound: the same for every client.
Hands ==
  {h \in [size : Fragments, first : Fragments, carries : BOOLEAN, whole : BOOLEAN] :
     h.first = 0 => ~h.carries /\ h.whole}
InHand(E, h) ==
  [E EXCEPT !.size = h.size, !.first = h.first, !.left = h.first,
            !.carries = @ /\ h.carries, !.whole = h.whole]

\* SendMessage, with all that is queued.
SendEmptyToClient(E) ==
  [E EXCEPT !.left = E.size, !.carries = E.queued, !.whole = TRUE]

SendNextFragment(E, got) ==
  IF E.left = 0 THEN E
  ELSE [E EXCEPT !.left = @ - 1,
                 !.whole = @ /\ got,
                 !.lost = IF got THEN @ ELSE @ + 1,
                 !.told = E.left = 1 /\ E.whole /\ got /\ E.carries]

\* A mutated form: a message is begun although fragments are left.
BegunAnew(E, got) == SendNextFragment(SendEmptyToClient(E), got)

\* SendMessage sends the first fragment itself.
InRound(E, got) ==
  SendNextFragment(IF E.left > 0 THEN E ELSE SendEmptyToClient(E), got)

-----------------------------------------------------------------------------
(* The actions *)

Active == server.active

\* pure: si_pure, with paks to ask for.  state, queue and info are of each slot,
\* player is the spawnId of its entity; taken and astray are history; round and
\* ending are of the end of the server.
NewServer ==
  [active |-> TRUE, pure |-> bound.pure, gameInitId |-> 1, spawnCount |-> 0,
   state |-> [i \in Slot |-> FREE], queue |-> [i \in Slot |-> <<>>],
   info |-> Unknown, player |-> Unknown,
   taken |-> [i \in Slot |-> FALSE], astray |-> [i \in Slot |-> FALSE],
   round |-> 0, ending |-> [i \in Slot |-> NotDue]]
NoPrograms == [i \in Slot |-> Program(i, Nobody, 1, FALSE)]
NoMessages == [i \in Slot |-> <<>>]

\* ProcessConnectMessage has found slot c: free, a zombie's, or one that the
\* client had and left unheard (Handshake, Candidates).
Connect(c) ==
  /\ Active
  /\ connects < bound.connects                                      \* bound
  /\ connects' = connects + 1
  /\ server' = InitClient([server EXCEPT !.queue[c] = <<>>,
                                         !.taken[c] = @ \/ server.state[c] > ZOMBIE], c)
  /\ client' = [client EXCEPT ![c] = Program(c, connects + 1, server.gameInitId, TRUE)]
  /\ up' = [up EXCEPT ![c] = <<>>]
  /\ UNCHANGED <<extras, bound>>

\* The clients are told of the new game, the old one and its players end, the
\* map is loaded; then the paks are asked for.
ExecuteMapChange ==
  /\ Active
  /\ server.gameInitId < bound.games                                   \* bound
  /\ \E got \in [Slot -> BOOLEAN] :
       LET Begin(T, i) ==
             IF T.state[i] < PUREWAIT THEN T
             ELSE LET U == SendGameInit(InitClient(T, i), i, got[i])
                  IN  IF T.pure THEN [U EXCEPT !.state[i] = PUREWAIT] ELSE U
           Ask(T, i) == IF T.state[i] = PUREWAIT THEN SendReliablePure(T, i) ELSE T
           none == [i \in Slot |-> FALSE]
           S == All(Begin, [server EXCEPT !.gameInitId = @ + 1])
       IN  /\ \A i \in Slot : server.state[i] < PUREWAIT => ~got[i]
           /\ server' = All(Ask, [S EXCEPT !.player = Unknown, !.taken = none,
                                           !.astray = none])
  /\ UNCHANGED <<client, up, connects, extras, bound>>

\* A packet of client c, with all that it has to say.  It is read for the
\* channel's sake only once c is a zombie.
ProcessMessage(c) ==
  /\ Active
  /\ server.state[c] > ZOMBIE
  /\ client[c].alive \/ up[c] # <<>>
  /\ \E f \in Outcomes(server, up[c], client[c].game) :
       /\ f.applied => extras < bound.extras                        \* bound
       /\ extras' = IF f.applied THEN extras + 1 ELSE extras
       /\ server' = ProcessPacket(server, c, up[c], client[c].game, f)
  /\ up' = [up EXCEPT ![c] = <<>>]
  /\ UNCHANGED <<client, connects, bound>>

\* CheckClientTimeouts, or the kick command.
TimeOut(c) ==
  /\ Active
  /\ server.state[c] > ZOMBIE
  /\ server' = DropClient(server, c)
  /\ UNCHANGED <<client, up, connects, extras, bound>>

\* CheckClientTimeouts frees the slot of a zombie.
Free(c) ==
  /\ Active
  /\ server.state[c] = ZOMBIE
  /\ server' = [server EXCEPT !.state[c] = FREE, !.queue[c] = <<>>]
  /\ UNCHANGED <<client, up, connects, extras, bound>>

\* UpdateUI: the game modifies the info of a player it has.
UpdateUI(c) ==
  /\ Active
  /\ extras < bound.extras                                          \* bound
  /\ server.player[c] # NoPlayer
  /\ extras' = extras + 1
  /\ server' = SendUserInfoBroadcast(server, c, server.info[c], TRUE)
  /\ UNCHANGED <<client, up, connects, bound>>

SendPrintBroadcast ==
  /\ Active
  /\ extras < bound.extras                                          \* bound
  /\ extras' = extras + 1
  /\ server' = SendToConnected(server, {}, Msg("PRINT", 0, Nobody))
  /\ UNCHANGED <<client, up, connects, bound>>

\* Client i of S has its own DISCONNECT in its queue.
ToldItself(S, i) ==
  \E j \in DOMAIN S.queue[i] :
    S.queue[i][j].kind = "DISCONNECT" /\ S.queue[i][j].num = i

\* What is not followed any further once the server has ended is forgotten.  Only
\* a message that was begun when the client was a zombie may carry its DISCONNECT.
Kill ==
  /\ Active
  /\ LET S == All(DropClient, server)
         Open(i) == client[i].alive /\ S.state[i] = ZOMBIE
     IN  server' = [NewServer EXCEPT
                      !.active = FALSE,
                      !.ending = [i \in Slot |->
                        [NotDue EXCEPT !.due = Open(i),
                                       !.queued = Open(i) /\ ToldItself(S, i),
                                       !.carries = Open(i) /\ ToldItself(S, i)
                                                     /\ server.state[i] = ZOMBIE]]]
  /\ client' = NoPrograms
  /\ up' = NoMessages
  /\ connects' = 0
  /\ extras' = 0
  /\ UNCHANGED bound

\* One of the rounds; got[i]: the packet to client i arrives.
KillRound ==
  /\ ~Active
  /\ server.round < Rounds
  /\ \E got \in [Slot -> BOOLEAN], h \in Hands :
       LET Now(i) == IF server.round = 0 THEN InHand(server.ending[i], h)
                                         ELSE server.ending[i]
       IN  server' = [server EXCEPT
                        !.round = @ + 1,
                        !.ending = [i \in Slot |->
                          IF Now(i).due /\ ~Now(i).told
                            THEN InRound(Now(i), got[i]) ELSE Now(i)]]
  /\ UNCHANGED <<client, up, connects, extras, bound>>

\* A packet of the server.
Receive(c) ==
  /\ Active
  /\ client[c].alive
  /\ server.state[c] # FREE
  /\ server.queue[c] # <<>>
  /\ LET V == After(c, server.queue[c])
     IN  /\ client' = [client EXCEPT ![c] = [V EXCEPT !.says = <<>>]]
         /\ up' = [up EXCEPT ![c] = IF V.alive THEN @ \o V.says ELSE <<>>]
  /\ server' = [server EXCEPT !.queue[c] = <<>>]
  /\ UNCHANGED <<connects, extras, bound>>

\* A client in the game changes its info or says something.
Say(c) ==
  /\ Active
  /\ client[c].alive
  /\ client[c].entered
  /\ extras < bound.extras                                          \* bound
  /\ extras' = extras + 1
  /\ \E m \in {Msg("CLIENTINFO", c, client[c].who), Msg("GAME", c, Nobody)} :
       up' = [up EXCEPT ![c] = Append(@, m)]
  /\ UNCHANGED <<server, client, connects, bound>>

\* DisconnectFromServer.  A program that ends unheard is one that does nothing
\* from here on.
Leave(c) ==
  /\ Active
  /\ client[c].alive
  /\ client' = [client EXCEPT ![c] = Program(c, @.who, @.game, FALSE)]
  /\ up' = [up EXCEPT ![c] = Append(@, Msg("DISCONNECT", c, Nobody))]
  /\ UNCHANGED <<server, connects, extras, bound>>

Init ==
  /\ bound \in Bounds
  /\ server = NewServer
  /\ client = NoPrograms
  /\ up = NoMessages
  /\ connects = 0
  /\ extras = 0

Next ==
  \/ ExecuteMapChange
  \/ SendPrintBroadcast
  \/ Kill
  \/ KillRound
  \/ \E c \in Slot : \/ Connect(c)
                     \/ ProcessMessage(c)
                     \/ TimeOut(c)
                     \/ Free(c)
                     \/ UpdateUI(c)
                     \/ Receive(c)
                     \/ Say(c)
                     \/ Leave(c)

Spec == Init /\ [][Next]_vars

-----------------------------------------------------------------------------
\* What client c knows once it has read its queue.
View(c) == After(c, server.queue[c])

\* Client c is in the game and will hear of all that is queued.
Plays(c) == Active /\ server.state[c] = INGAME /\ View(c).alive

(***************************************************************************)
(* Through every drop, the ones from under a drop included, the slots in   *)
(* the game are those with a player.  The one exception is a client whose  *)
(* queue overflows while it joins: ServerClientBegin goes on for it.       *)
(***************************************************************************)
PlayersInGame ==
  Active => \A i \in Slot :
    ~server.astray[i] => (server.state[i] = INGAME <=> server.player[i] # NoPlayer)

(***************************************************************************)
(* Everybody in the game has the players that the server has, with the     *)
(* same spawnIds, once it has read its queue: the SPAWN_PLAYERs for who    *)
(* was there when it came, and all that spawned and left since.  Two       *)
(* exceptions last until the next map: a slot taken over from a player who *)
(* was not dropped before (ServerClientConnect tells nobody), and a client *)
(* dropped for its own SPAWN_PLAYER, which others get behind the           *)
(* DELETE_ENT.                                                             *)
(***************************************************************************)
PlayersAgree ==
  \A c \in Slot : Plays(c) =>
    LET V == View(c)
    IN  \A i \in Slot :
          ~server.taken[i] /\ ~server.astray[i] => V.player[i] = server.player[i]

(***************************************************************************)
(* Nobody in the game keeps the user info of one who is gone, with the     *)
(* same two exceptions: an info that others get behind the DISCONNECT is   *)
(* the second.                                                             *)
(***************************************************************************)
NoInfoLeft ==
  \A c \in Slot : Plays(c) =>
    LET V == View(c)
    IN  \A i \in Slot \ {c} :
          ~server.taken[i] /\ ~server.astray[i] =>
            \/ V.info[i] = Nobody
            \/ server.state[i] > ZOMBIE /\ V.info[i] = client[i].who

\* What clients in the game know is what the server has.
ClientsAgree == PlayersAgree /\ NoInfoLeft

(***************************************************************************)
(* "so SCS_PUREWAIT client gets it's own disconnect msg"                   *)
(* (AsyncServer.cpp:774): whoever was dropped in whatever state, and still *)
(* believes to be connected, is sent its DISCONNECT; a queue that          *)
(* overflows is cleared before, not after, it is put in.                   *)
(***************************************************************************)
DroppedAreTold ==
  \A i \in Slot : server.state[i] = ZOMBIE /\ client[i].alive => ToldItself(server, i)

(***************************************************************************)
(* "send some empty messages to the zombie clients to make sure they       *)
(* disconnect" (AsyncServer.cpp:215): when the server has ended, a client  *)
(* that still believed to be connected has got a whole message with its    *)
(* DISCONNECT, although one in fragments may have been in hand, although   *)
(* the queue ahead of it makes every message one in fragments, and         *)
(* although packets are lost: each costs one message at most.  It may not  *)
(* have where the rounds are too few for the fragments left, for the       *)
(* messages lost and for one more, or where the queue cannot be sent.      *)
(***************************************************************************)
KilledAreTold ==
  ~Active /\ server.round = Rounds =>
    \A i \in Slot :
      LET E == server.ending[i]
      IN  E.due => \/ E.told
                   \/ E.first + (E.lost + 1) * E.size > Rounds
                   \/ E.size = 0

\* Nobody is put out, by a drop or by the end of the server, without its DISCONNECT.
EverybodyIsTold == DroppedAreTold /\ KilledAreTold
=============================================================================
