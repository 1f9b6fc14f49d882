------------------------------ MODULE GameSync ------------------------------
(***************************************************************************)
(* How a server and one of its clients agree on the game they are in and   *)
(* on the state of its entities: framework/async/AsyncServer.cpp and       *)
(* AsyncClient.cpp, with the snapshots of d3xp/Game_network.cpp.           *)
(*                                                                         *)
(* A map change gives the game a new id and sends the client a GAMEINIT,   *)
(* which may get lost.  Every message of the client says which game it is  *)
(* in, which server message it saw last, and which snapshot.  From that    *)
(* the server decides to send another GAMEINIT, to let the client into the *)
(* game, or to move the base of its snapshots (and then tells the client   *)
(* to do so too).  On a pure server the client first needs a list of pak   *)
(* files, asked and answered reliably.                                     *)
(*                                                                         *)
(* down carries the messages of the server, up those of the client.        *)
(* Receiving a message is several steps, one for each reliable message it  *)
(* brings and one for the unreliable one.  Its host does nothing else      *)
(* meanwhile, and what the other host does could as well come before or    *)
(* after, since the two share nothing but messages on their way: it waits. *)
(***************************************************************************)
EXTENDS SnapshotDelta, Carrier

CONSTANTS
  SnapshotBackup,     \* snapshots the server keeps, 64
  Bounds              \* bounds: records of the entities of the game, the times the
                      \* client connects, games, messages of server and client

ASSUME GameSyncAssumption ==
  /\ SnapshotBackup \in Nat
  /\ Bounds \subseteq [entities : SUBSET Entity, sessions : Nat, games : Nat,
                       down : Nat, up : Nat]

GAME_INIT_ID_INVALID == -1
GAME_INIT_ID_MAP_LOAD == -2

VARIABLES
  gameInitId,         \* the server's game
  pure,               \* si_pure
  session,            \* history: connect messages accepted
  offered,            \* the game the last connect response names
  clientState,        \* the server's view of the client, SCS_...
  gameInitSequence,   \* number of the message that announced the game
  snapshotSequence,   \* number of the next snapshot
  serverDelta,        \* the server's base and snapshots for this client
  down,               \* server to client
  myGameInitId,       \* the client's gameInitId
  loadedGame,         \* the game whose map the client has loaded
  mySnapshotSequence, \* the client's snapshotSequence
  clientDelta,        \* the client's base and snapshots
  up,                 \* client to server
  failed,             \* history: a snapshot to apply was not found
  misread,            \* history: a snapshot of the game whose map is loaded was
                      \* not read as it was written
  reloaded,           \* history: a pure answer came while not asked for
  havePaks,           \* a pak file is referenced, for the pure list
  bound               \* one of Bounds

connectVars == <<session, offered>>
serverVars == <<bound, havePaks, gameInitId, pure, connectVars, clientState,
                gameInitSequence, snapshotSequence, serverDelta, reloaded>>
clientVars == <<myGameInitId, loadedGame, mySnapshotSequence, clientDelta,
                failed, misread>>
vars == <<serverVars, down, clientVars, up>>

States == {"SCS_PUREWAIT", "SCS_CONNECTED", "SCS_INGAME"}

EmptyMsg == [kind |-> "EMPTY"]
GameInitMsg(game, si_pure) == [kind |-> "GAMEINIT", game |-> game, pure |-> si_pure]
SnapshotMsg(game, sequence, enc) ==
  [kind |-> "SNAPSHOT", game |-> game, sequence |-> sequence, enc |-> enc]
ApplySnapshotMsg(sequence) == [kind |-> "APPLYSNAPSHOT", sequence |-> sequence]
PureMsg(game) == [kind |-> "PURE", game |-> game]
ClientMsg(ack, game, snap) ==
  [kind |-> "CLIENT", ack |-> ack, game |-> game, snap |-> snap]

Connected == myGameInitId # GAME_INIT_ID_INVALID

\* The client has loaded the map of its game: it does not wait for a list.
Settled == loadedGame = myGameInitId

\* No host is in the middle of processing a message.
Idle == ~Busy(up) /\ ~Busy(down)

-----------------------------------------------------------------------------
(* The server *)

ServerMaySend == down.next <= bound.down                              \* bound

(***************************************************************************)
(* SendGameInitToClient returns the number of the message, or the number   *)
(* of the next one if the message is long enough to be fragmented but fits *)
(* one fragment when packed (MsgChannel.cpp:504).  There is no list to send *)
(* to the client if the server "runs fully expanded assets with si_pure 1".*)
(***************************************************************************)
SendGameInitToClient(game, si_pure, paks) ==
  /\ ServerMaySend
  /\ gameInitSequence' \in {down.next, down.next + 1}
  /\ \E init \in {Sent(down, GameInitMsg(game, si_pure))} :
       down' = IF si_pure /\ paks THEN Queued(init, PureMsg(game)) ELSE init
  /\ clientState' = IF si_pure /\ paks THEN "SCS_PUREWAIT" ELSE "SCS_CONNECTED"

\* A mutated form: the base and the snapshots of the last map stay.
MapLoadedKeeping(d) == d

\* Loading the map clears them.
MapLoaded(d) == Cleared

(***************************************************************************)
(* ExecuteMapChange: the client gets a GAMEINIT, and on a pure server the  *)
(* list of paks; InitClient leaves its snapshotSequence alone.  A map may   *)
(* be the first to reference a pak file, which then stays referenced       *)
(* (FileSystem.cpp:3348).                                                  *)
(***************************************************************************)
ExecuteMapChange(si_pure, paks) ==
  /\ Idle
  /\ havePaks => paks
  /\ gameInitId < bound.games                                          \* bound
  /\ gameInitId' = gameInitId + 1
  /\ pure' = si_pure
  /\ havePaks' = paks
  /\ SendGameInitToClient(gameInitId + 1, si_pure, paks)
  /\ serverDelta' = MapLoaded(serverDelta)
  /\ UNCHANGED <<bound, connectVars, snapshotSequence, reloaded, clientVars, up>>

\* SendEmptyToClient and SendPingToClient.
SendEmptyToClient ==
  /\ Idle
  /\ ServerMaySend
  /\ down' = Sent(down, EmptyMsg)
  /\ UNCHANGED <<serverVars, clientVars, up>>

SendSnapshotToClient(world, pvs) ==
  LET d == FreeSnapshotsOlderThanSequence(serverDelta,
                                          snapshotSequence - SnapshotBackup)
      enc == Encoded(d, world, pvs)
  IN  /\ Idle
      /\ clientState = "SCS_INGAME"
      /\ ServerMaySend
      /\ serverDelta' = WithSnapshot(d, snapshotSequence, enc.states, pvs)
      /\ down' = Sent(down, SnapshotMsg(gameInitId, snapshotSequence, enc))
      /\ snapshotSequence' = snapshotSequence + 1
      /\ UNCHANGED <<bound, havePaks, gameInitId, pure, connectVars, clientState,
                     gameInitSequence, reloaded, clientVars, up>>

\* ServerClientConnect leaves the base and the snapshots to those who call
\* ServerClientDisconnect before, as DropClient does.
SlotTaken(d) == d

(***************************************************************************)
(* ProcessConnectMessage: the client program ended without a word, and a   *)
(* new one at the same address is given the slot, which is still in use.   *)
(* The channel is set up again at both ends.  Messages of the client's     *)
(* last session have its clientId and are dropped; those of the server are *)
(* taken to be gone, since the new client has just waited for a challenge. *)
(***************************************************************************)
ProcessConnectMessage ==
  /\ Idle
  /\ Connected
  /\ ~failed
  /\ session < bound.sessions                                          \* bound
  /\ session' = session + 1
  /\ offered' = gameInitId
  /\ clientState' = "SCS_CONNECTED"
  /\ gameInitSequence' = 1
  /\ snapshotSequence' = 1
  /\ serverDelta' = SlotTaken(serverDelta)
  /\ down' = NewCarrier
  /\ up' = NewCarrier
  /\ myGameInitId' = GAME_INIT_ID_INVALID
  /\ loadedGame' = 0
  /\ mySnapshotSequence' = 0
  /\ clientDelta' = Cleared
  /\ UNCHANGED <<bound, havePaks, gameInitId, pure, reloaded, failed, misread>>

\* The carrier hands up a message of the client.
ServerReceive ==
  /\ Idle
  /\ \E m \in up.net : up' = HandedUp(up, m)
  /\ UNCHANGED <<serverVars, down, clientVars>>

\* A mutated form: an answer for a game gone by will do.
OutdatedNever(r) == FALSE

Outdated(r) == r.game # gameInitId

\* A pure answer that comes when none is waited for makes the client reload;
\* it is recorded, and not followed further.
ProcessReliablePure ==
  /\ HasReliable(up)
  /\ up' = ReadReliable(up)
  /\ IF Outdated(Head(up.reliable))
       THEN UNCHANGED <<clientState, reloaded>>
       ELSE /\ clientState' = "SCS_CONNECTED"
            /\ reloaded' = (reloaded \/ clientState # "SCS_PUREWAIT")
  /\ UNCHANGED <<bound, havePaks, gameInitId, pure, connectVars, gameInitSequence,
                 snapshotSequence, serverDelta, down, clientVars>>

\* A mutated form: the message may have been sent before the GAMEINIT came.
MissedGameInitAnyway(m) == TRUE

\* The client has seen a message that was sent after the GAMEINIT.
MissedGameInit(m) == m.ack > gameInitSequence

InRightGame(m) == m.game = gameInitId

\* While the client loads a map it only keeps the connection alive.
IgnoreMapLoad(m) ==
  /\ m.game = GAME_INIT_ID_MAP_LOAD
  /\ UNCHANGED <<serverVars, down>>

WrongGame(m) ==
  /\ m.game # GAME_INIT_ID_MAP_LOAD
  /\ ~InRightGame(m)
  /\ IF MissedGameInit(m)
       THEN SendGameInitToClient(gameInitId, pure, havePaks)
       ELSE UNCHANGED <<clientState, gameInitSequence, down>>
  /\ UNCHANGED <<bound, havePaks, gameInitId, pure, connectVars,
                 snapshotSequence, serverDelta, reloaded>>

EnterGame(m) ==
  /\ InRightGame(m)
  /\ clientState = "SCS_CONNECTED"
  /\ clientState' = "SCS_INGAME"
  /\ UNCHANGED <<bound, havePaks, gameInitId, pure, connectVars, gameInitSequence,
                 snapshotSequence, serverDelta, reloaded, down>>

\* A mutated form: the client is told to apply whatever it acknowledged.
TellToApplyAnyway(sequence) == Queued(down, ApplySnapshotMsg(sequence))

\* A mutated form: only the server moves its base.
TellToApplyNever(sequence) == down

\* The client is told to move its base too if the snapshot was found.
TellToApply(sequence) ==
  IF Holds(serverDelta, sequence)
    THEN Queued(down, ApplySnapshotMsg(sequence)) ELSE down

ServerApplySnapshot(m) ==
  /\ InRightGame(m)
  /\ clientState = "SCS_INGAME"
  /\ serverDelta' = ApplySnapshot(serverDelta, m.snap)
  /\ down' = TellToApply(m.snap)
  /\ UNCHANGED <<bound, havePaks, gameInitId, pure, connectVars, clientState,
                 gameInitSequence, snapshotSequence, reloaded>>

AwaitPure(m) ==
  /\ InRightGame(m)
  /\ clientState = "SCS_PUREWAIT"
  /\ UNCHANGED <<serverVars, down>>

ProcessUnreliableClientMessage ==
  /\ AtUnreliable(up)
  /\ up' = Done(up)
  /\ \/ IgnoreMapLoad(up.msg)
     \/ WrongGame(up.msg)
     \/ EnterGame(up.msg)
     \/ ServerApplySnapshot(up.msg)
     \/ AwaitPure(up.msg)
  /\ UNCHANGED clientVars

-----------------------------------------------------------------------------
(* The client *)

ClientMaySend == up.next <= bound.up                                  \* bound

\* The connect response names the game at the time the client was let in.
ProcessConnectResponse ==
  /\ Idle
  /\ ~Connected
  /\ myGameInitId' = offered
  /\ loadedGame' = offered
  /\ clientDelta' = Cleared
  /\ UNCHANGED <<serverVars, down, mySnapshotSequence, failed, misread, up>>

ClientReceive ==
  /\ Connected
  /\ ~failed
  /\ Idle
  /\ \E m \in down.net : down' = HandedUp(down, m)
  /\ UNCHANGED <<serverVars, clientVars, up>>

\* A snapshot that is not found is an error that ends the session.
ClientApplySnapshot ==
  /\ HasReliable(down)
  /\ Head(down.reliable).kind = "APPLYSNAPSHOT"
  /\ down' = ReadReliable(down)
  /\ clientDelta' = ApplySnapshot(clientDelta, Head(down.reliable).sequence)
  /\ failed' = (failed \/ ~Holds(clientDelta, Head(down.reliable).sequence))
  /\ UNCHANGED <<serverVars, myGameInitId, loadedGame, mySnapshotSequence,
                 misread, up>>

\* The list of another game is ignored; otherwise the map can be loaded.
ProcessReliableMessagePure ==
  /\ HasReliable(down)
  /\ Head(down.reliable).kind = "PURE"
  /\ down' = ReadReliable(down)
  /\ IF Head(down.reliable).game # myGameInitId
       THEN UNCHANGED <<loadedGame, clientDelta, up>>
       ELSE /\ loadedGame' = myGameInitId
            /\ clientDelta' = Cleared
            /\ up' = Queued(up, PureMsg(myGameInitId))
  /\ UNCHANGED <<serverVars, myGameInitId, mySnapshotSequence, failed, misread>>

\* A pure client waits for the list of paks before it loads the map.
ProcessGameInit(m) ==
  /\ m.kind = "GAMEINIT"
  /\ myGameInitId' = m.game
  /\ loadedGame' = IF m.pure THEN loadedGame ELSE m.game
  /\ clientDelta' = IF m.pure THEN clientDelta ELSE Cleared
  /\ UNCHANGED <<mySnapshotSequence, failed, misread>>

IgnoreSnapshot(m) ==
  /\ m.kind = "SNAPSHOT"
  /\ m.game # myGameInitId
  /\ UNCHANGED clientVars

ClientReadSnapshot(m) ==
  LET states == DecodedStates(clientDelta, m.enc)
      pvs == DecodedPVS(clientDelta, m.enc)
  IN  /\ m.kind = "SNAPSHOT"
      /\ m.game = myGameInitId
      /\ mySnapshotSequence' = m.sequence
      /\ clientDelta' = WithSnapshot(clientDelta, m.sequence, states, pvs)
      /\ misread' = (misread \/ (Settled /\ View(clientDelta, states, pvs) # m.enc.truth))
      /\ UNCHANGED <<myGameInitId, loadedGame, failed>>

ProcessUnreliableServerMessage ==
  /\ AtUnreliable(down)
  /\ ~failed
  /\ down' = Done(down)
  /\ \/ down.msg.kind = "EMPTY" /\ UNCHANGED clientVars
     \/ ProcessGameInit(down.msg)
     \/ IgnoreSnapshot(down.msg)
     \/ ClientReadSnapshot(down.msg)
  /\ UNCHANGED <<serverVars, up>>

\* SendEmptyToServer, SendPingResponseToServer and SendUsercmdsToServer.
SendToServer ==
  /\ Connected
  /\ ~failed
  /\ Idle
  /\ ClientMaySend
  /\ up' = Sent(up, ClientMsg(down.last, myGameInitId, mySnapshotSequence))
  /\ UNCHANGED <<serverVars, down, clientVars>>

\* PacifierUpdate, while a message makes the client load a map.
PacifierUpdate ==
  /\ Busy(down)
  /\ down.msg.kind = "GAMEINIT" \/ HasReliable(down)
  /\ ~failed
  /\ ClientMaySend
  /\ up' = Sent(up, ClientMsg(down.last, GAME_INIT_ID_MAP_LOAD,
                              mySnapshotSequence))
  /\ UNCHANGED <<serverVars, down, clientVars>>

-----------------------------------------------------------------------------
\* The server has let the client in and sent the connect response.
Init ==
  /\ bound \in Bounds
  /\ gameInitId = 1
  /\ havePaks \in BOOLEAN
  /\ pure \in BOOLEAN
  /\ session = 1
  /\ offered = 1
  /\ clientState = "SCS_CONNECTED"
  /\ gameInitSequence = 1
  /\ snapshotSequence = 1
  /\ serverDelta = Cleared
  /\ reloaded = FALSE
  /\ down = NewCarrier
  /\ myGameInitId = GAME_INIT_ID_INVALID
  /\ loadedGame = 0
  /\ mySnapshotSequence = 0
  /\ clientDelta = Cleared
  /\ failed = FALSE
  /\ misread = FALSE
  /\ up = NewCarrier

Next ==
  \/ \E si_pure, paks \in BOOLEAN : ExecuteMapChange(si_pure, paks)
  \/ SendEmptyToClient
  \/ \E world \in [bound.entities -> State], pvs \in SUBSET bound.entities :
       SendSnapshotToClient(world, pvs)
  \/ ProcessConnectMessage
  \/ ServerReceive
  \/ ProcessReliablePure
  \/ ProcessUnreliableClientMessage
  \/ ProcessConnectResponse
  \/ ClientReceive
  \/ ClientApplySnapshot
  \/ ProcessReliableMessagePure
  \/ ProcessUnreliableServerMessage
  \/ SendToServer
  \/ PacifierUpdate

Spec == Init /\ [][Next]_vars

-----------------------------------------------------------------------------

\* What a client that was given its old slot back may not rely on: the server
\* may still have the base and the snapshots of the last session (SlotTaken).
FirstSession == session = 1

(***************************************************************************)
(* Every snapshot is read as it was written: each entity the player can    *)
(* see is shown in the state it had on the server, whether that state came *)
(* with the snapshot or from the client's base.  In its first session: the *)
(* slot of a client that comes back keeps the bases of the one before      *)
(* (Game_network.cpp:290), in spite of "so a reconnect from this client IP *)
(* starts clean" (AsyncServer.cpp:1876).  And by a client that has loaded  *)
(* the map: one that a pure server without pak files lets into the game    *)
(* (AsyncServer.cpp:361) waits for a list that never comes, and reads the  *)
(* snapshots with the base of the game before.                             *)
(***************************************************************************)
ReadAsWritten == FirstSession => ~misread

(***************************************************************************)
(* The client never fails with "couldn't apply snapshot": a snapshot that  *)
(* the server applies is still held by the client when it is told to, by   *)
(* one that waits for its map as well.                                     *)
(***************************************************************************)
AppliesWhatItHolds == FirstSession => ~failed

(***************************************************************************)
(* While a client that has loaded the map is in the game, its base becomes *)
(* the server's base as soon as it has read the reliable messages on their *)
(* way to it.                                                              *)
(***************************************************************************)
BasesAgree ==
  LET pending == down.reliable
      after[i \in 0 .. Len(pending)] ==
        IF i = 0 THEN clientDelta
        ELSE IF pending[i].kind = "APPLYSNAPSHOT"
               THEN ApplySnapshot(after[i - 1], pending[i].sequence)
               ELSE after[i - 1]
      caughtUp == after[Len(pending)]
  IN  FirstSession /\ Settled /\ clientState = "SCS_INGAME" =>
        caughtUp.base = serverDelta.base /\ caughtUp.pvs = serverDelta.pvs

(***************************************************************************)
(* "The client is in the right game" (AsyncServer.cpp:1264): a client that *)
(* the server runs in the game is in that game, and has loaded its map if  *)
(* the server was not without a list it should have sent.                  *)
(***************************************************************************)
InGameLoaded ==
  clientState = "SCS_INGAME" =>
    /\ myGameInitId = gameInitId
    /\ loadedGame = gameInitId \/ (pure /\ ~havePaks)

(***************************************************************************)
(* A GAMEINIT on its way is for a game the client is not in: it never      *)
(* makes the client load the map of the game it is playing again.          *)
(***************************************************************************)
InitsOnce ==
  \A m \in down.net :
    m.body.kind = "GAMEINIT" => m.body.game > myGameInitId

(***************************************************************************)
(* The server gets a pure answer for its game only while it waits for one; *)
(* anything else "should not happen unless something is very wrong".       *)
(***************************************************************************)
PureExpected == ~reloaded

=============================================================================
