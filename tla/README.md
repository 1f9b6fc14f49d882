# Verification of the id Tech 4 network and game core

TLA+ specifications of the parts of the engine (`neo/`) in which several actors
have to agree, or in which the order of events decides: the network protocol
from the wire up to the slots of a server, the thread that downloads, the queue
of game events and the rules of a multiplayer match. TLC configurations check
them on small instances, and TLAPS proves the safety of all but two of them, the
byte ring and the recursive server, for every value of the parameters. Paths below are relative to `src/`.

## 1. The system

id Tech 4 is a single-threaded frame loop (`framework/Common.cpp`,
`framework/Session.cpp`) around a game library (`game/`, `d3xp/`), a renderer,
a sound mixer and a file system. Its distributed part is `framework/async`: a
server and up to 32 clients that exchange UDP packets. A second thread reads
files and downloads; everything else happens inside a frame. The table lists the
components; `PROJECT.json` has the same list with the modules of each.

| component | code | state it keeps | operations | models |
|---|---|---|---|---|
| message queue | `framework/async/MsgChannel.cpp:56-245`, `idMsgQueue` | ring of 16384 bytes, start and end index, number of the first and of the next message | `Init`, `Add`, `Get`, `GetTotalSize`, `GetSpaceLeft`, `CopyToBuffer` | `MsgQueue`, `MsgFifo`, `FifoOps` |
| network channel | `MsgChannel.cpp:243-708`, `idMsgChannel` | sequence numbers, message being sent in fragments, buffer of fragments received, two message queues | `Init`, `SendMessage`, `SendNextFragment`, `Process`, `SendReliableMessage`, `GetReliableMessage`, `ClearReliableMessages` | `MsgChannel`, `ReliableLink`, `MsgChannelLive`, `MsgChannelOverflow` |
| rate control of the channel | `MsgChannel.cpp:300-325, 715-790` | bytes and packets per second | `ReadyToSend`, `UpdateOutgoingRate`, `UpdatePacketLoss` | none: it only delays the caller |
| server | `framework/async/AsyncServer.cpp` | 32 client slots (free, zombie, pure wait, connected, in game), challenges, a ring of user commands, game time | one handler per connectionless and per client message, `RunFrame`, `DropClient`, `CheckClientTimeouts` | `Handshake` (who gets a slot, zombies, timeouts), `ServerClients` (slots against the game's players), `GameSync` (map changes, snapshots, pure answers, reconnects), `UserInfo`, `MsgChannelOverflow` |
| client | `framework/async/AsyncClient.cpp` | connection state, game init id, snapshot sequence, download list | one handler per server message, `RunFrame`, `InitGame` | `Handshake`, `GameSync`, `UserInfo`, `Downloads` |
| game side of the network | `d3xp/Game_network.cpp` (`game/` mirrors it) | per client: acknowledged entity states and pending snapshots; event queues | `ServerWriteSnapshot`, `ServerApplySnapshot`, `ClientReadSnapshot`, `ClientApplySnapshot`, `idEventQueue` | `SnapshotDelta`, `GameSync`, `ServerClients`; the client's event queue is not modelled |
| delta-coded dictionaries | `idlib/BitMsg.cpp:308-353, 558-581` | none | `WriteDeltaDict`, `ReadDeltaDict` | `DeltaDict` |
| server browser | `framework/async/ServerScan.cpp` | list of servers and of outstanding requests | `InfoResponse`, `NetScan`, `RunFrame` | none |
| background downloads | `framework/FileSystem.cpp:3595-3795`, `framework/async/AsyncClient.cpp:1963-2146`, `framework/Session_menu.cpp:1389-1480`, `sys/posix/posix_threads.cpp` | one download slot and a list, shared by two threads | `BackgroundDownload`, the thread, `HandleDownloads`, `DownloadProgressBox` | `Downloads` |
| game events | `d3xp/gamesys/Event.cpp`, `d3xp/gamesys/Class.cpp`, `d3xp/Game_local.cpp` | a pool of events, two sorted queues, two clocks | `Alloc`, `Schedule`, `CancelEvents`, `ServiceEvents`, `ServiceFastEvents`, `Save`, `Restore` | `GameEvents`, `Timetable` |
| system events | `framework/EventLoop.cpp` | ring of pushed events | `PushEvent`, `GetEvent` | none |
| multiplayer rules | `d3xp/MultiplayerGame.cpp`, `d3xp/Player.cpp` | state of the match and the next one, per player: in game, spectating, lives, vote | `Run`, `CheckRespawns`, `CheckAbortGame`, `CheckVote`, what players and votes do | `MultiplayerGame` |
| vertex cache | `renderer/VertexCache.cpp` | blocks in five lists, double-buffered frame memory | `Alloc`, `AllocFrameTemp`, `Free`, `EndFrame` | none |
| parsers, declarations, scripts, physics, animation, AI, GUI, renderer, sound, tools | `idlib`, `cm`, `renderer`, `ui`, `tools`, ... | mostly data | | none: numeric and data-heavy sequential code |
| curl, jpeg, Ogg Vorbis, OpenAL | vendored | | | none: third-party |

### Interactions

* The game queues **reliable** messages with `SendReliableMessage`; they wait
  in `reliableSend` and ride on every **unreliable** message that the frame
  loop sends until the other end acknowledges them. There is no packet for
  them alone, so the stream of unreliable messages is what delivers them.
* `SendMessage` packs acknowledgement, queued reliable messages and data into
  one message, compresses it and sends it whole or in fragments. A fragmented
  message is sent one fragment per call; the frame loops do not start another
  before the last fragment is out.
* `Process` takes one packet and either drops it, keeps it as a fragment, or
  hands a message to the caller after it has removed acknowledged messages and
  queued the new reliable ones. Both frame loops then read all reliable
  messages before they look at the unreliable part.
* The server and the client number messages independently; the server's
  numbers also serve as `gameInitSequence`, the point after which a client is
  expected to know the current map.
* The server calls the game for each connect, begin, info and disconnect
  (`ServerClientConnect`, `ServerClientBegin`, `SetUserInfo`,
  `ServerClientDisconnect`), and the game calls the server back to send. A
  message that finds no room drops its client in the middle of either.
* The main thread gives the background thread a download through a list and an
  event, and then polls the slot while a box is shown. Under the box it runs
  whole frames, console and network included.
* In a frame of the game the entities of the slow group think, then those of the
  fast group, then the events that are due are served, then the match rules run.
  Handlers post, cancel and delete while they are served.

### What is hard in it

Packets are lost, repeated and reordered. Fragments of several messages meet
in one buffer. Acknowledgements arrive late. Queues with a byte limit fill up
on one end and not on the other. Map changes, disconnects and timeouts cut
across all of it, and a drop is entered from inside the loops that send. Two
threads write to one status without a lock. Handlers change the queue that is
being served. Players leave a match in any of its states, with a change of
state or a vote under way. No test of the repository runs any of this: `tests/unit`
holds tests of the build only. `PROJECT.json` lists each hazard with its line
and the properties that would notice it.

### What makes each component correct

* message queue: a FIFO of whole messages, numbered without a gap; a message
  that does not fit changes nothing.
* channel: a message handed up is one the other end sent, whole; messages come
  in order and once; reliable messages are delivered once each, in order, and
  in the end all of them.
* handshake: a client has one slot at most and knows which; nobody without the
  key or the paks gets one.
* server: the slots in the game are those with a player; each client hears of
  the same players and infos that the server has; a dropped client is told; no
  message of the last map is taken for one of this map.
* client: a snapshot is decoded against the state it was encoded against.
* user info: server, player and the other clients have the same one as soon as
  nothing is on its way.
* downloads: one that has ended has ended for both threads; one that is done is whole;
  a cancel is heeded; no box stays.
* game events: no event is lost, none waits for a deleted object, each is served
  in its frame, and in the order in which they were posted.
* multiplayer: a match goes on between two players at least and comes to an end;
  a vote counts persons; lives decide who is in.

## 2. Plan

The modules are written from the wire up, because each layer is used by the
next one through what it promises, and because the lower layers are where a
mistake is least visible.

| step | modules | what they answer | state |
|---|---|---|---|
| 1 | `MsgQueue` (ring of bytes) implements `MsgFifo` (FIFO with a byte limit) | is the ring a queue of whole messages? | checked, proved |
| 2 | `MsgChannel` on `FifoOps` implements `ReliableLink`; `MsgChannelLive`, `MsgChannelOverflow` | what arrives, in which order, and does it arrive? | checked, safety proved |
| 3 | `SnapshotDelta`, `Carrier`, composed in `GameSync` | do server and client agree on the game and on the state of its entities? | checked, safety proved |
| 4 | `Handshake`: challenge, key check, pure checksums, connect, and their repetitions and late answers | is a client connected once, and to the slot the server gave it? | checked, safety proved |
| 5 | `ServerClients`: the slots, `DropClient` and the recursion through a full queue, the rounds of `Kill` | do slots, players and what clients know of them agree? | checked |
| 6 | `DeltaDict`, `UserInfo`: deltas of the client against broadcasts of the server | do all copies agree in the end? | checked, safety proved |
| 7 | `Downloads`: one slot, two threads | does a download end once, whole, and in both? | checked, safety proved |
| 8 | `GameEvents` implements `Timetable` | is each event served once, in its frame and in order? | checked, safety proved |
| 9 | `MultiplayerGame`: states of a match, respawns, votes | does a match go on and come to an end? | checked, safety proved |
| 10 | proofs: see below | for every value of the parameters | done but for the list below |

Abstract specifications: `MsgFifo` for the ring, `ReliableLink` for the channel,
`Timetable` for the game events.

What is left to prove: `ServerClients`, which stays with TLC, because dropping a
client really is recursive there, and its operators are `RECURSIVE`. No other
module declares one, and parameters are CONSTANTS.

## 3. How the modules correspond to the code

`PROJECT.json` maps each definition to its lines. In general:

* Variables have the names of the members they stand for. Histories, which the
  code does not keep and which only the properties read, are marked `history`.
* A handler of the code is one action, or one action per branch of it. The
  early returns are the guards that a branch lacks.
* `\* bound` marks a guard that only keeps a run finite.
* A definition described as "a mutated form" belongs to no specification. It
  is the bug that `PROJECT.json` "mutants" puts into a definition to show that
  a property notices it.

**`MsgQueue`** is the class byte by byte: the indices, the mask that wraps
them, the little-endian short and long of a header, and the two bytes that
`Add` asks for beyond what it writes (`size + 8` against `2 + 4 + size`).
`Base` is the number of values of a byte. `MsgFifo` counts the bytes, but does
not place them; `ImplementsFifo` is the refinement, with the messages read back
out of the ring as its mapping.

**`MsgChannel`** holds two channels and the packets between them. `net` only
grows, so the network may deliver a packet any number of times, in any order,
or never. Data is a sequence number; compression is what it does to a length
(`Wire`). `Process` is five actions: stale, missed fragment, fragment, last
fragment, whole message. Each ends where the code returns.
`ReadMessageData` is part of the last two, as in the code.

**`MsgChannelLive`** restricts the same actions to the scheduling of the frame
loops and lets packets be lost for good. **`MsgChannelOverflow`** adds what the
server does when `SendReliableMessage` fails.

**`Carrier`** is what `GameSync` needs of a channel, one direction of it: the
number of a message, the reliable messages it brings, and that reliable ones
are read first. The channel's runs check each of those (`UnreliableInOrder`,
`ReliableInOrder`, `Carries`). One thing is coarser than the code on purpose:
receiving a message is several steps, with the other host standing still
meanwhile. The hosts share nothing but the packets, so its steps commute with
those.

**`SnapshotDelta`** is the delta coding of `d3xp/Game_network.cpp` as pure
operators on a record (base, visible set, list of snapshots). The state of an
entity is a value; reading a delta against a base other than the one it was
written against gives `Garbage`. **`GameSync`** is the server and the client around
it: `ExecuteMapChange`, the branches of
`ProcessUnreliableClientMessage`, `ProcessReliablePure`, the handlers of the
client, and the connect message of a client that has been started again. Whether
a pure server has pak files for its list (`havePaks`) is chosen at first, and a
map may bring the first one.

**`DeltaDict`** is the coding of `idBitMsg::WriteDeltaDict`, with a dictionary
as a function. **`UserInfo`** follows the info of one player: the player's
cvars, the copy on the player's client, the server's, and those of the clients
that observe the player. What `SetUserInfo` of the game may change (duplicate
names, unbalanced teams, spectators) is a choice among `Forced`. A connection
is a queue in which unreliable messages may be lost, which the channel's
`UnreliableInOrder`, `ReliableInOrder` and `Carries` justify; the rule that sends
GAMEINIT again is put as what it finds out (`MissedGameInit`). Values that
differ in case only are one value, as they are to `WriteDeltaDict`. The server
is a dedicated one and no client connects or leaves.

**`Handshake`** has a set of datagrams of this tick and of the last one: each may
come any number of times, in any order, or never, and none comes later than the
tick after. A repeated or late answer meets whatever state its reader is in by
then. `Candidates` is the search for a slot in `ProcessConnectMessage`, which
looks first for the slot the client has, then for one last used from its
address, then for a free one. Slots remember how long they have been silent, so
zombies and timeouts come when they come. A client may be started again on
another port, the server may be started again, and other players take slots. A
program takes longer to start than a datagram is under way, so what a crashed
one sent, or was sent, is gone by then. `HandshakeAssumption` says what the times must
be: a zombie's slot is kept for two ticks at least, which is as long as an answer
to its client may be under way (by default it is kept for 5 seconds,
`net_serverZombieTimeout`). `KeyChecked` speaks of challenges, not of attempts, because
the code does not compare the client id of a connect with that of the challenge it names
(`AsyncServer.cpp:1654-1660`).

**`ServerClients`** writes each handler as an operator from state to state, since
`SendReliableMessage` may drop a client, which sends to others, which may be
dropped: `DropClient` and the loops that call it are nested as in the code, and
`RECURSIVE` as in the code. The queue of a client holds what it has not got; its
room is counted in messages. Clients are what they know once they have read
their queue. Two histories mark what the code is known to get wrong
(section 7): `astray`, a client dropped in the middle of a handler that goes on
for it, and `taken`, a slot given to a client whose player is still there. `Kill`
drops everybody and leaves a record per client of what the rounds send it
(`KillRound`, one per step): the message in hand, then messages with the whole
queue, fragment by fragment, any of which may be lost. Sizes are not followed
before; how many fragments a message has by then is chosen.

**`Downloads`** is a step of either thread per access to what they share: list,
event, status, completed, file. Critical sections and the event follow
`posix_threads.cpp`, with wake-ups for no reason. While curl runs, each part is
written without a look at the status (`CurlWriteFunction`), and the callback
that looks at it may come at any time, or not at all before the last part: curl
calls it once a second and ignores the answer to the last call. A connection may
stall for ever, since curl is given no time limit; the callback still comes. `hasty` is history: the box was
opened, or left, while the slot was not free.

**`Places`** puts places of a list in their order; `SnapshotDelta` uses it to
remove a snapshot, and `GameEvents` to take events out of a queue.

**`GameEvents`** has both queues, both clocks and the pool. An event's handler is
whatever happens between `Serve` and `Return`: it may post, cancel, spawn,
delete (its own object too), move an entity to the other time group, or end in
an error. `stamp` and `due` are histories: the order of posting, and the time by
the clock of the queue. `saved` is the set of the saved games. `Timetable` is a set of events; its instance takes them
out of the queues.

**`MultiplayerGame`** is `idMultiplayerGame::Run` as one action, with the rules of
the state the match is in, and one action for each thing that happens between
two frames: joining, leaving, an info, a death, a click, a vote called or cast, a
message received. Operators take the game `g` to the game after them, in the
order of the calls. A timer that is set, the time limit too, may be due in any
later frame.

## 4. What the runs check

| run | instance | shows |
|---|---|---|
| `msg_queue` | ring of 32 bytes, two-valued bytes, messages of 7 and 9 bytes with header, five numbers | the ring is the FIFO, wherever a header or its data wraps, when it is full, and after `Init` is called again |
| `msg_channel` | a short and a long reliable message, queues of 26 bytes, messages of one fragment, one full one and an empty one, or two | messages are whole, in order, once; reliable ones too, also when a queue is full; an acknowledgement removes only what has arrived; what was queued before a message comes no later than it |
| `channel_live` | fair scheduling, loss and reordering; a long and a short reliable message | every reliable message arrives unless the queue jams |
| `channel_overflow` | as above, with a queue that overflows | a finding, section 7 |
| `game_sync` | one entity with two states, seen or not, two games; and no entities, three games, two sessions, the pure check, with pak files or without; four messages each way | every snapshot reads as it was written in the first session to a client that has its map, through loss, map changes, late acknowledgements and a repeated base; the server never runs a client in a game whose map it has not loaded, but on a pure server without pak files; no client is sent back to the game it is in; pure answers come only when asked |
| `user_info` | two keys, two values, two games, pure or not; the player changes one value, the game forces one, one client observes | player, cvars, server and observer agree once what is on its way has been read, unless infos cross or one comes in `SCS_PUREWAIT` |
| `handshake` | two slots, one challenge remembered, two datagrams under way; nine settings: a client that tries twice while another player comes, crashes, meets a restarted server, is beyond the local network, or has the paks, the paks after a restart, or not | one slot for each client, and it knows which; nobody passes the pure check or the key check by a detour |
| `server_clients` | two slots, queues with room for just one join; three connections; or two and a message more; or one, a map change and the pure check | slots and players agree, clients know what the server has, whoever is dropped is sent its disconnect, and gets it when the server ends: queues of up to four fragments, up to four left of the message in hand, any packets lost |
| `downloads` | two downloads of two parts, one connect from the console, connections that stall, fair threads | a download ends in both threads and is whole, a cancel stands while curl runs, every box ends unless nothing comes any more, and a cancel ends that too |
| `game_events` | an entity and a script thread, three events, two an overflow, two clocks; two or three posts, slow motion, a saved game | the pool is whole, the queues implement the timetable, events are on time, none waits for a deleted object |
| `multiplayer` | three slots; ten matches, with votes, deathmatch and last man standing, some with leaves, infos, deaths and the console's `forceReady` | matches go on between two, countdowns and reviews do not outlive them, votes count persons and are shown, lives decide, last man standing ends unless somebody leaves or is kicked |
| `stall` | three players, the leader may leave | a finding, section 7 |

**Why the bounds are enough.** The queue wraps many times within its 32 bytes,
with every combination of a wrapped size, number and data, and its three
cases full, empty and refused-although-it-fits all occur. In the channel a
disagreement needs at most three messages of one sender: one in the buffer, one
that interferes, and one that follows; two in the other direction give an
acknowledgement that comes late and one that comes early. In `game_sync` four
messages each way are what the longest story of two games without a loss
takes: enter, snapshot, acknowledge, base moved, map change, and the same in
the new game up to a snapshot coded against its base. A story with a loss
repeats a message in place of a second step. The third game of its second instance
lets a message of the first and one of the second meet. `SnapshotBackup = 1`
in place of 64 makes the server forget snapshots the client still has, in a run
of two. In `user_info` two keys are what it takes for a delta to leave one out,
and one change by each side with one map change already gives every order of
the three (two changes by the player pass as well, in seven million states).
In `handshake` a mistake takes an attempt, a datagram of it that comes late, and
the next attempt; two ticks of a zombie are the shortest timeout that outlives
a datagram. In `server_clients` a drop under a drop needs two clients with full
queues, and a slot used again needs a third connection; with four rounds, a message of
two fragments can be lost once, one of four not at all. In `downloads` the
second one finds whatever the first left behind. In `game_events` a queue of
three has a place before, between and behind two. In `multiplayer` a vote of
three has a majority that one of them leaves, and a match of two ends when one
goes; ten small instances replace one whose bounds would all have to be large.
Each property is violated, under the same bounds, by the mutant listed
for it, so the case it is about does occur.

## 5. Fairness

Only `channel_live`, `channel_overflow` and `downloads` use fairness.

For the channel it is weak fairness of sending, of sending the next fragment, of
receiving and of reading a reliable message.

* Both `RunFrame` loops send on every connection again and again, by a timer
  (`AsyncServer.cpp:2479-2510`, `AsyncClient.cpp:1841-1866`),
  and finish a fragmented message before they start another.
* Both loops read packets until there is none, and after each `Process` call
  read reliable messages until there is none.
* A network that loses everything delivers nothing, and a bounded run stops
  sending. The last message of a run therefore stands for "the one that gets
  through": its fragments are neither lost nor overtaken. All the other packets
  may be. A queue that is never empty needs one such message, not a lucky
  sequence of them.
* No fairness is assumed of the game: it need not send, ever.

For `downloads` it is weak fairness of the main thread, which runs frames in a
loop as long as the box is shown (`Session_menu.cpp:1430`), and of the background
thread, which the operating system schedules and in which curl goes on with what
comes, or calls back, once a second, when nothing does. That a connection stalls, or
recovers, that the thread wakes up for no reason, and that the player answers,
cancels or connects, are not fair. So a box ends by itself unless the
connection stalls (`BoxesEnd`), and by a cancel also then (`CancelsEnd`).

Multiplayer has none: that nothing can happen any more (`Stalled`) is a
statement about one state.

## 6. What is proved

Eight modules hold the theorems, one for each component. Each theorem is of the specification itself, `Spec => []P`,
for every value of the constants that the module's `ASSUME` admits: any number
of clients, slots, entities, events, keys, any sizes, any times, and any of the
bounds that keep a run finite, so that in effect there is none. The form is the
same throughout: an inductive invariant `IInv`, a lemma for each action that it
is kept, and from these, with `PTL`, the theorem. None of the properties is
inductive by itself. One hypothesis goes beyond the modules' assumptions,
`NoExpansion`; it names something the code does not see to, and section 7 has
what happens without.

| theorem | of | property of a run |
|---|---|---|
| `TypeCorrect`, `WellFramedAlways` | `MsgQueue` | `TypeOK`, `WellFramed` |
| `ImplementsMsgFifo` | `MsgQueue` implements `MsgFifo` | `ImplementsFifo` |
| `TypeCorrect` | `MsgChannel` | `TypeOK` |
| `MessagesIntact`, `MessagesInOrder`, `ReliableKept`, `CarriesWhatWasQueued` (given `NoExpansion`) | `MsgChannel` | `Intact`, `UnreliableInOrder`, `NoReliableLost`, `Carries` |
| `ImplementsReliableLink` (given `NoExpansion`) | `MsgChannel` implements `ReliableLink` | `ReliableInOrder` |
| `ReadAsWrittenAlways`, `AppliesWhatItHoldsAlways`, `BasesAgreeAlways`, `InGameLoadedAlways`, `InitsOnceAlways`, `PureExpectedAlways` | `GameSync` | the same without `Always` |
| `RoundTrip`, `OtherBase` | `DeltaDict` | |
| `ObserversAgreeAlways`, `PlayerAgreesAlways` | `UserInfo` | the same without `Always` |
| `HasOneSlot`, `KnowsItsSlot`, `OnlyAdmittedGetIn` | `Handshake` | `OneSlotEach`, `ClientNumAgrees`, `OnlyAdmitted` |
| `TypeCorrect`, `DownloadsEndWhole` | `Downloads` | `TypeOK`, `EndsWhole` |
| `TypeCorrect`, `PoolStaysWhole`, `StaysSorted`, `OwnersStayAlive`, `ServesOnTime` | `GameEvents` | `TypeOK`, `PoolWhole`, `Sorted`, `OwnersAlive`, `OnTime` |
| `KeepsTheTimetable` | `GameEvents` implements `Timetable` | `ImplementsTimetable` |
| `NextMatchesAlways`, `EnoughPlayersAlways`, `OneVoteEachAlways`, `VotesShownAlways`, `LivesDecideAlways`, `NotStalledAlways` | `MultiplayerGame` | the same without `Always` |

The library's induction theorems take the property as an operator, which the
provers here cannot instantiate. `NatLeast`, which most of the modules start with, gets
around that: a non-empty set of numbers has a least member, from
`NatLessThanWellFounded` and `WFMin`, which speak of sets. Where an induction is
needed, the set is that of the places at which the claim fails.

### `MsgQueue_proofs` (1864 obligations)

*Assumptions.* `MsgQueueAssumption`: the bytes of a message's size and number
are enough for it, and no message is empty. That the size of the ring is a power
of two is needed for the mask of the code to be the modulus of the model, not
for the proof.

*Argument.* The buffer is read from `startIndex` on as a `Tape`, on which
nothing wraps, so that only four lemmas about writing and reading (`AddTape`,
`GetTape`, `TapeAt`, `WrapAgain`) speak of `%`. The invariant `IInv` says that
there are places on the tape (`Framed`): at each a size, a number one higher
than the last and the data of a message, the next place right behind, and
`endIndex` at the last one. `Offset`, which finds those places by reading, is a recursive
function; it equals any function that satisfies its equation
(`OffsetsAre`), and such a one is at hand. Neither `Add` nor `Get` moves a byte
that another message needs (`SameFrame`): for `Add` because what it writes ends
before `startIndex`, by the room it asks for. `LongReads` shows that the bytes of a
number make it up again. The refinement is by cases: each action of the ring is
the action of `MsgFifo` with its name, and both count the same room (`RoomIs`).

### `MsgChannel_proofs` (2297 obligations)

*Assumptions.* `MsgChannelAssumption` (the two ends differ, a message has a
byte, a packed one too), and for all but `TypeCorrect` also `NoExpansion`: a
message that is not fragmented is packed into less than a fragment. The code does
not guarantee that (section 7), and without it `MessagesIntact` is false.

*Argument.* `TypeCorrect` has an invariant of its own, `TypeInv`, which holds
whatever compression does: for the types it is enough that no fragment starts
behind the end of its message. `NoReliableLost`, for one, speaks of two queues, but what can break
it is a packet sent long before that comes now. `IInv` therefore speaks of
every copy of a message that exists anywhere: in a packet (`Genuine`), in the
message that is being sent (`Sending`) and in the buffer where fragments gather
(`Buffered`). Each copy is `Truthful`: its reliable messages are the ones the
sender accepted under those numbers, and it acknowledges only what its sender
had. Both stay true as queues move on, because `accepted` and what has been
received only grow (`CopiesGrow`, `TruthfulGrows`). `OneBody` says that packets
with one number are parts of one message, which makes putting fragments
together harmless; `WellCut` says where they are cut, so that a short fragment
is a last one. For `Carries`, what is under way begins with a reliable message
that the receiver has or with the next one it wants, since the sender drops none
that the receiver lacks (`InReach`); the loop that takes them out stops only
where the queue has no room.

### `GameSync_proofs` (4758 obligations)

*Assumptions.* `GameSyncAssumption`: the types of the constants, no more. Whether
a pure server has pak files to list is a variable; the properties say what a
client is owed that waits for a list in vain (section 7).

*Argument.* `Wires` says of each direction what the messages still under way
may say: numbers, in the order in which they were sent, and acknowledgements
that only rise. `Inits` and `Loaded` tie the number of the message with which a
game begins (`gameInitSequence`) to what the client must have read before it
can send one that the server takes for an answer in that game; `Unlisted` is the
one case in which it need not have loaded its map. `Lists` and
`Answers` do the same for the pure check. `InStep` is for the bases, during the
first session, which is where the code is right (`FirstSession`): it names the
base that the client will have after each reliable message that is still to
come, as a chain whose first member is the client's base now, and whose last is
the server's. A snapshot under way was written against the member of that chain
which the client has when the snapshot is read. `BasesAgree` counts along this
chain, `ReadAsWritten` is its consequence.

### `UserInfo_proofs` (3138 obligations)

*Assumptions.* `UserInfoAssumption`: the player does not observe itself.

*Argument.* First the coding: a delta read against the base it was written
against gives the writer's dictionary (`RoundTrip`), and exactly which other
bases do (`OtherBase`). Infos that cross, and the exception `late` (both
section 7), are cases where the condition of `OtherBase` fails. Then the
copies. `After(q, a)` is what reading a queue makes of a copy; the lemmas about
it are inductions along the queue. `Games` says, per client, which games its
queues tell of: those of the server are later ones in their order (`Ahead`),
those of the client are of the game it is in or of earlier ones (`Behind`), and
where the server takes a client to be in the game it is (`Stands`). `Unheard`
says that while the player is in `SCS_PUREWAIT` nobody has heard of it, which
is what makes the cleared info a sound base. `Observed` and `Agreed` give what
each client will have when it has read its queue: what the server has; or, for
the player, the other way round, as long as its own change is under way; or
nothing at all, as after a new map, when it is sent the whole info or sends it
(`Entered`). `Shown` adds that cvars differ from the client's copy only while
they are marked modified.

### `Handshake_proofs` (3171 obligations)

*Assumptions.* `HandshakeAssumption`: times are natural numbers, hosts differ,
and a zombie's slot is kept for two ticks at least, the time that an answer may
be under way. `SettingsAssumption` only gives the types of what a run chooses.

*Argument.* Three facts carry it. The sessions of one start of a program share
a port (`Programs`), so that whoever has the id or the port of a slot has its
address, and the search of `ProcessConnectMessage` cannot give one client two
slots. The number of a challenge is drawn once (`Numbered`), so that an answer
is to the challenge it names. And an answer under way finds its slot still kept
for its client (`Answers`, `Current`), since a zombie's slot outlives it.
`Paks` and `Refusals` are for the pure check: who has the paks that the server
asks for, and that no other gets beyond it.

### `Downloads_proofs` (1185 obligations)

*Assumptions.* The numbers are natural.

*Argument.* The slot and the list are shared without a lock on the status. As
long as the slot was free when it was filled in and nobody connected under the
box (`~hasty`), it belongs to one thread at a time, and `InTurn` says to which,
by where the two are. `Progress` and `Verdicts` say what the holder has done so
far: which parts of the file are written, and that a status which both threads
write is decided once. `CancelsOnce` and `Given` hold of hasty ones too.

### `GameEvents_proofs` (2874 obligations)

*Assumptions.* The pool is finite and `None` is not in it; objects are entities
or threads; delays and times are natural numbers.

*Argument.* `Placed` puts each event in one list, and the other parts are
statements about the nodes of the lists: each of an owner that is alive, in
order by its time and, among equal times, by when it was posted. The same is
said of saved games (`SavedGamesOK`), since a restored one must satisfy it
again. Removing is `AtPlaces`, which keeps the order; inserting is by the place
that the loop of `Schedule` finds. For `Timetable` each action maps to a step
of it or to none, with the queues read as the set of their events.

### `MultiplayerGame_proofs` (6353 obligations)

*Assumptions.* The number of slots is natural, and a match is one of the
modelled types.

*Argument.* A frame is a chain of operators on the whole game, so for each
there is a lemma that says what it leaves alone (`Alters`, `Goes`, `Touches`,
`Advances`, `Tallied`), and a frame's proof strings them together. Loops over
the players are recursive functions; `LoopRuns` and `LoopStays` are the
inductions along them. `Manned` says that a match that goes on has two players,
unless somebody sits out (section 7); `CheckRespawns` removes players one at a
time, and `Checked` is what holds in between. `Counted` says that votes in
favour and against add up to the persons who cast one, `Told` that the messages
under way to a client will make it show the vote as it is.

Lives need a second invariant, `LInv`, proved relative to the first. `Sound`:
nobody who is out has a life or a respawn left, and a spectator who is not out
and wants to play has asked to come back. `Lives`: the lives a player has and the deaths of that
player make up what the match gave. `Someone`: while nobody has left, somebody
is not out. Each turn of `CheckRespawns` comes to one of five outcomes
(`Passes`, `Comes`, `Falls`, `Quits`, `Ends`), and `Kept` says what a whole
round of turns leaves; `Fought` is what a frame then comes to. Who is put out by
a frame `Fell`, in which there were no lives left; that is `LivesDecide`. For
`NotStalled`, a frame that changes nothing would have to pass over somebody who
has asked to come back and may.

## 7. Findings

Two places where the code does something else than its own comments say are
runs that TLC refutes.

* `channel_overflow`: on overflow the server clears the reliable messages of
  the channel and queues a disconnect. Clearing starts the numbers again at one
  end only, and the client drops the disconnect as an old message.
* `stall`: last man standing, the others out of lives, their last leader leaves or is kicked
  during the delay that would end the match (`FRAGLIMIT_DELAY`). The state goes to sudden
  death with nobody who may respawn and nobody who leads; the players without
  lives still count as able to play, so the match is not aborted either.
  The comments at `MultiplayerGame.cpp:3049` and `:3062` are about just this.
  In deathmatch the same may happen: `FragLeader` takes the highest score of
  all, spectators included (`:1078-1099`), so that in sudden death nobody may
  lead, and `CheckRespawns` (`:3012-3015`) sends who does not lead to the
  spectators.

The others are exceptions in what passing runs state, each with the history
variable or the assumption that excludes it.

* *A jammed queue* (`ArrivesOrJams`): reliable messages "always arrive"
  (`MsgChannel.h:40`), but a queue that fills up to the size of a message leaves
  no room for the message that would bring them (`MsgChannel.cpp:485`).
  `SendMessage` then refuses every message, so no acknowledgement ever comes.
* *Expansion* (`Intact`, assumption `NoExpansion`): `SendMessage` compares the
  length before compression with `FRAGMENT_SIZE` (`MsgChannel.cpp:494`).
  Run-length coding may make a message longer. One that passes whole although
  it now takes a full fragment or more leaves those bytes in the buffer as if
  it were a fragmented message's (`:646`).
* *A stale base* (`FirstSession`): a client that is given the slot it still holds
  starts without a delta base, but the game keeps the one of its last session
  (`d3xp/Game_network.cpp:290`, against `AsyncServer.cpp:1876`).
* *No paks* (`pure /\ ~havePaks`): a server that runs "fully expanded assets with
  si_pure 1" (`AsyncServer.cpp:1608`) has no list to send (`:361`), but its
  GAMEINIT says "pure" (`AsyncClient.cpp:762`), so the client waits for one before
  it loads the map, and is run in a game it has not loaded. It decodes the
  snapshots with the base of the game before. `InGameLoaded` names this case;
  `ReadAsWritten` and `BasesAgree` speak of clients that have loaded their map
  (`Settled`); `AppliesWhatItHolds` holds for these too.
* *Infos that cross* (`crossed`): a change by the player that crosses a change
  by the game is merged on the server and sent to all but the player
  (`AsyncServer.cpp:933`), whose client is set back to what the game sent
  (`AsyncClient.cpp:594`). The two then differ until the next change.
* *Late infos* (`late`): on a pure server a CLIENTINFO that comes while its
  player is in `SCS_PUREWAIT`, say one of the last game, is read into the info
  that was just cleared, when neither the player nor another client in that
  state may be told. What follows is coded as a delta against it, so an observer
  that enters later may never get the rest, and a name that the game changed
  does not reach the player.
* *A ghost player* (`astray`): a client whose queue overflows while it enters the
  game is dropped (`AsyncServer.cpp:804`), but `ServerClientBegin` goes on and spawns its
  player (`d3xp/Game_network.cpp:316`), which stays although the slot is a
  zombie, until the slot is used again or the map changes. Others get its
  SPAWN_PLAYER behind its DELETE_ENT.
* *A slot taken over* (`taken`): a client that comes back into the slot it still
  had gets a new player; the old one is deleted on the server without a word to
  the others.
* *Too few rounds* (`KilledAreTold`): a round of `Kill` sends a client one packet.
  A client that is in the middle of a message in fragments gets the rest of it
  first, and where the queue ahead of the disconnect makes every message one of
  `n` fragments (`MsgChannel.cpp:494`), each takes `n` of the four rounds
  (`AsyncServer.cpp:216`), and `n` again when a packet of it is lost. The property
  says that the disconnect arrives if four rounds are enough for the rest, for a
  message for each lost packet, and for one more; otherwise the client is left
  to its own timeout.
* *A cancel before curl runs* (`main.cancelled`): DL_INPROGRESS replaces
  DL_ABORTING and the download goes on ("it will force the next progress
  callback to abort", `FileSystem.h:86`). The box has no Cancel any more, so that it
  stays for as long as the connection does. A cancel while curl runs may come too late for
  a callback as well; the download is then done, and whole.
* *A connect under the box* (`hasty`): "only enter these if the download slot is
  free" (`AsyncClient.cpp:1974`), but `Clear` marks the slot free (`:82`) while
  the thread still writes through it.
* *Another clock* (`crossed` of `GameEvents`): an event for the fast group posted by code
  of the slow group gets its time from the clock of the poster
  (`d3xp/gamesys/Event.cpp:463`).
* *Events lost* (`lost`): an event whose handler ends in `gameLocal.Error` is in
  no list from then on, until the game starts anew.
* *Sitting out* (`hist.sits`): somebody already out of a match who then wants to
  spectate is not counted again (`MultiplayerGame.cpp:3088-3092` does not call
  `CheckAbortGame`), so a match may go on with one player.
* *Giving up* (`hist.leaves`, `hist.kicked`): what `stall` shows needs somebody who
  leaves or is kicked, so `NotStalled` speaks of matches without.

## 8. What is only model-checked

* Liveness (`channel_live`, and that download boxes and cancels end), which the proof
  system does not handle.
* `ServerClients`, whose operators are `RECURSIVE`.

For these the claim is the one of section 4, for the instances there. What is
proved is checked too, so that each invariant was found true of an instance before
it was proved of all.

## 9. What is not modelled, and why

* Rate control and the statistics of the channel: they only delay a send, and
  the models send at any time.
* The ring of user commands, `idEventQueue` of the client's prediction: data
  that only the game's simulation reads.
* `idServerScan`, `idEventLoop`, the vertex cache: structures of one thread
  whose users (menu, input, renderer) are not modelled.
* In `Handshake`: two clients behind one address, which the code takes for one
  in places (`AsyncServer.h:96` names the limits). Connectionless answers
  carry no session; only a stale server id is noticed. The sequence numbers of a
  packet of the last session that comes after a reconnect
  (`AsyncClient.cpp:1634`) are not followed. Bans, passwords, guids.
* In `ServerClients`: a listen server; saved entity events and the warmup
  countdown among the first messages; a client told to reload. Messages are taken out of
  a queue when they arrive, not when the acknowledgement does: queues
  overflow sooner in the code, not otherwise. That the restart of the numbers
  may keep a DISCONNECT from being accepted is `channel_overflow`.
* In `Downloads`: image reads on the same thread (`image_useCache`, off by
  default); the Windows event, which is created when first used.
* In `GameEvents`: arguments and their type errors; events posted while objects
  are restored; which free event is taken; multiplayer, which has one clock.
* In `MultiplayerGame`: tourney, team deathmatch, capture the flag, the map
  cycle, wins, chat, listen servers. A telefrag (`KillBox`, `Player.cpp:2739`) is a
  death before or after a frame like any other, not one in the middle of the loop
  that puts players in. Known and left as it
  is: a player whose first info has not come is spawned when the match starts; a
  voter who leaves stays counted; a kick vote names a slot, not a person
  (`MultiplayerGame.cpp:1654`); a vote cast for one question may count for the
  next.
* In `UserInfo`: clients that connect or leave, a listen server's own player,
  and the copy in the game library, which is written together with the others.
* In `GameSync`: a client that fails a pure check and is told to reload (the
  moment is recorded, `PureExpected`, not what follows); a GAMEINIT too large
  to send; the empty messages of the server while *it* loads; two games with
  the same random id.
* What a torn message does to the queues: the model records that one came out
  (`Intact`), and does not follow random bytes.
* Parsers, renderer, sound, physics, AI, scripts, tools and the vendored
  libraries: sequential code over large data, with properties that are
  numeric or visual.
