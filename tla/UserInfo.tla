------------------------------ MODULE UserInfo ------------------------------
(***************************************************************************)
(* The user info of one player (name, team, skin, ...) and its copies: the *)
(* cvars of the player, and sessLocal.mapSpawnData.userInfo[Player] on the *)
(* player's client, on the server and on the clients that observe the      *)
(* player (framework/async/AsyncServer.cpp and AsyncClient.cpp).           *)
(*                                                                         *)
(* The player's client sends its changes as a delta against its copy, the  *)
(* server reads them against its own and sends them on as a delta against  *)
(* that.  The game on the server may change what it reads, or change the   *)
(* info unasked; then all clients are sent the whole.  A map change clears *)
(* the copy of the server at once and that of a client when it hears of    *)
(* it; a client that enters the game is sent the whole again.              *)
(*                                                                         *)
(* A connection is two FIFO queues.  Reliable messages keep their place    *)
(* and are never lost; unreliable ones are handed up in order, with every  *)
(* reliable message sent before them, or are lost (MsgChannel, Carries).   *)
(* The server is a dedicated one, the connections last, and every client   *)
(* passes the pure check.                                                  *)
(***************************************************************************)
EXTENDS DeltaDict, Integers, Sequences

CONSTANTS
  Player, Observers,  \* the clients
  Key, Value,         \* of the user info
  Forced,             \* [key, value] pairs that the game may set
  MaxGame,            \* bound: games played
  MaxChanges,         \* bound: changes by the player
  MaxForced           \* bound: times that the whole info is sent to all

Client == {Player} \cup Observers

ASSUME UserInfoAssumption ==
  /\ Player \notin Observers
  /\ Forced \subseteq [key : Key, value : Value]
  /\ {MaxGame, MaxChanges, MaxForced} \subseteq Nat

VARIABLES
  pure,             \* si_pure of the server, with pak files to ask for
  gameInitId,       \* the server's game
  clientState,      \* the server's view of each client, SCS_...
  userInfo,         \* the server's copy
  down,             \* down[c]: messages on their way to client c
  myGameInitId,     \* the game of each client
  copy,             \* the copy of each client
  cvars,            \* the CVAR_USERINFO cvars of the player
  modified,         \* the player has changed one since they were sent
  inGame,           \* the player's client is in CS_INGAME
  up,               \* up[c]: messages on their way from client c
  changes, forced,  \* history: how many there were
  crossed,          \* history: infos of the player were on their way both ways
  late              \* history: in this game one came in SCS_PUREWAIT

serverVars == <<pure, gameInitId, clientState, userInfo, down, forced, late>>
clientVars == <<myGameInitId, copy, cvars, modified, inGame, up, changes>>
vars == <<serverVars, clientVars, crossed>>

Dict == UNION {[K -> Value] : K \in SUBSET Key}

GameInitMsg(game) == [kind |-> "GAMEINIT", game |-> game]
PureMsg(game) == [kind |-> "PURE", game |-> game]
EnterGameMsg == [kind |-> "ENTERGAME"]
ClientInfoMsg(haveBase, delta) ==
  [kind |-> "CLIENTINFO", haveBase |-> haveBase, delta |-> delta]
UnreliableMsg(game) == [kind |-> "UNRELIABLE", game |-> game]

Unreliable(m) == m.kind \in {"GAMEINIT", "UNRELIABLE"}

\* Messages q hold some of kind.
Holds(q, kind) == \E i \in DOMAIN q : q[i].kind = kind

-----------------------------------------------------------------------------
(* The server *)

\* idDict::Set.
With(info, f) ==
  [k \in DOMAIN info \cup {f.key} |-> IF k = f.key THEN f.value ELSE info[k]]

\* What game->SetUserInfo may make of an info: numeric and duplicate names,
\* teams out of balance, spectators who may not be any are changed.
SetUserInfo(info) ==
  {info} \cup {With(info, f) : f \in {f \in Forced : forced < MaxForced}} \* bound

\* A mutated form: the delta is written against the new info.
BroadcastBaseNew(info) == info

\* The base of the delta the server sends.
BroadcastBase(info) == userInfo

\* sendToAll, or the game has modified the info: all get the whole.  Else
\* the others get a delta.
SendUserInfoBroadcast(info, sendToAll) ==
  \E gameInfo \in SetUserInfo(info) :
    LET whole == sendToAll \/ gameInfo # info
        base == IF whole THEN EmptyDict ELSE BroadcastBase(gameInfo)
        msg == ClientInfoMsg(~whole, WriteDeltaDict(gameInfo, base))
        told == {c \in Client : /\ clientState[c] \in {"SCS_CONNECTED", "SCS_INGAME"}
                                /\ whole \/ c # Player}
    IN  /\ down' = [c \in Client |-> IF c \in told THEN Append(down[c], msg)
                                                   ELSE down[c]]
        /\ userInfo' = gameInfo
        /\ forced' = IF whole THEN forced + 1 ELSE forced
        /\ crossed' = (crossed \/ (whole /\ Holds(up'[Player], "CLIENTINFO")))

\* The game changes the info of a player (idMultiplayerGame balances teams).
UpdateUI ==
  /\ forced < MaxForced                                            \* bound
  /\ clientState[Player] = "SCS_INGAME"
  /\ UNCHANGED clientVars
  /\ \E f \in Forced : SendUserInfoBroadcast(With(userInfo, f), TRUE)
  /\ UNCHANGED <<pure, gameInitId, clientState, late>>

\* The messages of SendGameInitToClient and SendReliablePureToClient, and
\* the state they leave a client in.
GameInitMsgs(game) ==
  IF pure THEN <<GameInitMsg(game), PureMsg(game)>> ELSE <<GameInitMsg(game)>>
StateAfterGameInit == IF pure THEN "SCS_PUREWAIT" ELSE "SCS_CONNECTED"

\* InitClient: "always start with a clean base".
InitClient(info) == EmptyDict

ExecuteMapChange ==
  /\ gameInitId < MaxGame                                          \* bound
  /\ gameInitId' = gameInitId + 1
  /\ clientState' = [c \in Client |-> StateAfterGameInit]
  /\ userInfo' = InitClient(userInfo)
  /\ down' = [c \in Client |-> down[c] \o GameInitMsgs(gameInitId + 1)]
  /\ late' = FALSE
  /\ UNCHANGED <<pure, forced, crossed, clientVars>>

FromClient(c, kind) ==
  /\ up[c] # <<>>
  /\ Head(up[c]).kind = kind
  /\ up' = [up EXCEPT ![c] = Tail(@)]
  /\ UNCHANGED <<myGameInitId, copy, cvars, modified, inGame, changes>>

ReceiveClientInfo ==
  /\ FromClient(Player, "CLIENTINFO")
  /\ SendUserInfoBroadcast(ReadDeltaDict(Head(up[Player]).delta, userInfo), FALSE)
  /\ late' = (late \/ clientState[Player] = "SCS_PUREWAIT")
  /\ UNCHANGED <<pure, gameInitId, clientState>>

\* An answer for this game comes in SCS_PUREWAIT (GameSync, PureExpected).
ReceivePure(c) ==
  /\ FromClient(c, "PURE")
  /\ clientState' = IF Head(up[c]).game = gameInitId
                      THEN [clientState EXCEPT ![c] = "SCS_CONNECTED"]
                      ELSE clientState
  /\ UNCHANGED <<pure, gameInitId, userInfo, down, forced, crossed, late>>

\* The client has seen messages behind a GAMEINIT that never came
\* (GameSync, MissedGameInit).
MissedGameInit(c) ==
  /\ myGameInitId[c] # gameInitId
  /\ GameInitMsg(gameInitId) \notin {down[c][i] : i \in DOMAIN down[c]}

WrongGame(c, game) ==
  /\ game # gameInitId
  /\ IF MissedGameInit(c)
       THEN /\ clientState' = [clientState EXCEPT ![c] = StateAfterGameInit]
            /\ down' = [down EXCEPT ![c] = @ \o GameInitMsgs(gameInitId)]
       ELSE UNCHANGED <<clientState, down>>

\* SendUserInfoToClient for every other client that is connected.
InfoOfOthers(c) ==
  IF c # Player /\ clientState[Player] \in {"SCS_CONNECTED", "SCS_INGAME"}
    THEN <<ClientInfoMsg(FALSE, WriteDeltaDict(userInfo, EmptyDict))>>
    ELSE <<>>

\* Every client is sent ENTERGAME; the player's answer is about the player.
EnterGame(c, game) ==
  /\ game = gameInitId
  /\ clientState[c] = "SCS_CONNECTED"
  /\ clientState' = [clientState EXCEPT ![c] = "SCS_INGAME"]
  /\ down' = [down EXCEPT ![c] = @ \o InfoOfOthers(c) \o
                                 IF c = Player THEN <<EnterGameMsg>> ELSE <<>>]

ReceiveUnreliable(c) ==
  /\ FromClient(c, "UNRELIABLE")
  /\ LET game == Head(up[c]).game
     IN  \/ WrongGame(c, game)
         \/ EnterGame(c, game)
         \/ /\ game = gameInitId
            /\ clientState[c] # "SCS_CONNECTED"
            /\ UNCHANGED <<clientState, down>>
  /\ UNCHANGED <<pure, gameInitId, userInfo, forced, crossed, late>>

-----------------------------------------------------------------------------
(* The clients *)

ToClient(c, kind) ==
  /\ down[c] # <<>>
  /\ Head(down[c]).kind = kind
  /\ down' = [down EXCEPT ![c] = Tail(@)]
  /\ UNCHANGED <<pure, gameInitId, clientState, userInfo, forced, late>>

\* InitGame; CS_INGAME stays.
ProcessGameInit(c) ==
  /\ ToClient(c, "GAMEINIT")
  /\ myGameInitId' = [myGameInitId EXCEPT ![c] = Head(down[c]).game]
  /\ copy' = [copy EXCEPT ![c] = EmptyDict]
  /\ UNCHANGED <<cvars, modified, inGame, up, changes, crossed>>

ProcessReliableMessagePure(c) ==
  /\ ToClient(c, "PURE")
  /\ up' = IF Head(down[c]).game = myGameInitId[c]
             THEN [up EXCEPT ![c] = Append(@, PureMsg(myGameInitId[c]))]
             ELSE up
  /\ UNCHANGED <<myGameInitId, copy, cvars, modified, inGame, changes, crossed>>

\* The player is forced to what the server says.
ProcessClientInfo(c) ==
  LET msg == Head(down[c])
      info == ReadDeltaDict(msg.delta, IF msg.haveBase THEN copy[c] ELSE EmptyDict)
  IN  /\ ToClient(c, "CLIENTINFO")
      /\ copy' = [copy EXCEPT ![c] = info]
      /\ IF c = Player
           THEN /\ cvars' = [k \in Key |-> IF k \in DOMAIN info THEN info[k]
                                                                ELSE cvars[k]]
                /\ modified' = FALSE
           ELSE UNCHANGED <<cvars, modified>>
      /\ UNCHANGED <<myGameInitId, inGame, up, changes, crossed>>

\* A mutated form: the player's copy is not brought up to date.
CopySentNever(info) == copy[Player]

\* What the player's copy becomes when info is sent.
CopySent(info) == info

SendUserInfoToServer ==
  /\ up' = [up EXCEPT ![Player] =
              Append(@, ClientInfoMsg(TRUE, WriteDeltaDict(cvars, copy[Player])))]
  /\ copy' = [copy EXCEPT ![Player] = CopySent(cvars)]
  /\ modified' = FALSE
  /\ crossed' = (crossed \/ Holds(down'[Player], "CLIENTINFO"))

\* The first snapshot, which puts the client in CS_INGAME, comes later; that
\* only delays the player's next change.
ProcessEnterGame ==
  /\ ToClient(Player, "ENTERGAME")
  /\ SendUserInfoToServer
  /\ inGame' = TRUE
  /\ UNCHANGED <<myGameInitId, cvars, changes>>

\* RunFrame finds that cvars were modified.
SendModified ==
  /\ inGame
  /\ modified
  /\ UNCHANGED serverVars
  /\ SendUserInfoToServer
  /\ UNCHANGED <<myGameInitId, cvars, inGame, changes>>

ChangeCvar(k, v) ==
  /\ changes < MaxChanges                                          \* bound
  /\ cvars[k] # v
  /\ cvars' = [cvars EXCEPT ![k] = v]
  /\ modified' = TRUE
  /\ changes' = changes + 1
  /\ UNCHANGED <<serverVars, myGameInitId, copy, inGame, up, crossed>>

\* bound: one unreliable message of a client is on its way.
SendToServer(c) ==
  /\ \A i \in DOMAIN up[c] : up[c][i].kind # "UNRELIABLE"
  /\ up' = [up EXCEPT ![c] = Append(@, UnreliableMsg(myGameInitId[c]))]
  /\ UNCHANGED <<serverVars, myGameInitId, copy, cvars, modified, inGame,
                 changes, crossed>>

Lose(c) ==
  \/ /\ down[c] # <<>>
     /\ Unreliable(Head(down[c]))
     /\ down' = [down EXCEPT ![c] = Tail(@)]
     /\ UNCHANGED <<pure, gameInitId, clientState, userInfo, forced, late,
                    crossed, clientVars>>
  \/ /\ up[c] # <<>>
     /\ Unreliable(Head(up[c]))
     /\ up' = [up EXCEPT ![c] = Tail(@)]
     /\ UNCHANGED <<serverVars, myGameInitId, copy, cvars, modified, inGame,
                 changes, crossed>>

-----------------------------------------------------------------------------
\* The clients have just connected.
Init ==
  /\ pure \in BOOLEAN
  /\ gameInitId = 1
  /\ clientState = [c \in Client |-> "SCS_CONNECTED"]
  /\ userInfo = EmptyDict
  /\ down = [c \in Client |-> <<>>]
  /\ myGameInitId = [c \in Client |-> 1]
  /\ copy = [c \in Client |-> EmptyDict]
  /\ cvars \in [Key -> Value]
  /\ modified \in BOOLEAN
  /\ inGame = FALSE
  /\ up = [c \in Client |-> <<>>]
  /\ changes = 0
  /\ forced = 0
  /\ crossed = FALSE
  /\ late = FALSE

Next ==
  \/ UpdateUI
  \/ ExecuteMapChange
  \/ ReceiveClientInfo
  \/ ProcessEnterGame
  \/ SendModified
  \/ \E k \in Key, v \in Value : ChangeCvar(k, v)
  \/ \E c \in Client :
       \/ ReceivePure(c)
       \/ ReceiveUnreliable(c)
       \/ ProcessGameInit(c)
       \/ ProcessReliableMessagePure(c)
       \/ ProcessClientInfo(c)
       \/ SendToServer(c)
       \/ Lose(c)

Spec == Init /\ [][Next]_vars

-----------------------------------------------------------------------------
\* The copy of client c once it has read the messages on their way to it.
CaughtUp(c) ==
  LET Read[i \in 0 .. Len(down[c])] ==
        IF i = 0 THEN copy[c]
        ELSE LET m == down[c][i]
             IN  CASE m.kind = "CLIENTINFO" ->
                        ReadDeltaDict(m.delta, IF m.haveBase THEN Read[i - 1]
                                                             ELSE EmptyDict)
                   [] m.kind = "GAMEINIT" -> EmptyDict
                   [] OTHER -> Read[i - 1]
  IN  Read[Len(down[c])]

(***************************************************************************)
(* Every client that is in the game sees the player as the server does, as *)
(* soon as it has read what is on its way: each delta finds the base that  *)
(* it was written against, through map changes, lost GAMEINITs and changes *)
(* by player and game.  Only an info that came while the player was in     *)
(* SCS_PUREWAIT spoils it: it enters a base that nobody else has.          *)
(***************************************************************************)
ObserversAgree ==
  ~late => \A c \in Observers : clientState[c] = "SCS_INGAME" => CaughtUp(c) = userInfo

\* The player is in the game, and nothing about the player is on its way to
\* or from the player's client, or waits to be sent.
Settled ==
  /\ clientState[Player] = "SCS_INGAME"
  /\ \A m \in {down[Player][i] : i \in DOMAIN down[Player]}
              \cup {up[Player][i] : i \in DOMAIN up[Player]} : m.kind = "UNRELIABLE"
  /\ ~modified

(***************************************************************************)
(* "Core is in charge of syncing down userinfo changes"                    *)
(* (MultiplayerGame.cpp:3634): once all is settled, the player's client    *)
(* has the info that the server has, and so have its cvars.                *)
(***************************************************************************)
SyncedDown == Settled => copy[Player] = userInfo /\ cvars = userInfo

(***************************************************************************)
(* That is so whatever was on its way when a map changed or a GAMEINIT was *)
(* lost; only infos that cross, and one that comes in SCS_PUREWAIT, of     *)
(* which the player cannot be told, break it.                              *)
(***************************************************************************)
PlayerAgrees == ~crossed /\ ~late => SyncedDown

=============================================================================
