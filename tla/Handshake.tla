----------------------------- MODULE Handshake -----------------------------
(***************************************************************************)
(* How clients get into and out of the slots of a server: the challenge,   *)
(* the key check, the pure check, the connect message and its answer, and  *)
(* the disconnects (framework/async/AsyncServer.cpp, AsyncClient.cpp).     *)
(*                                                                         *)
(* The messages are single datagrams that are lost, repeated and           *)
(* reordered; the client repeats its question until it is answered.  A     *)
(* datagram of the client's last attempt, or one of a client that has not  *)
(* heard of the end of the server's last life, may arrive in the middle of *)
(* this one.  Time passes in ticks: a datagram arrives in the tick it was  *)
(* sent in or the next, or never, and the server's timeouts are numbers of *)
(* ticks.                                                                  *)
(*                                                                         *)
(* Abstractions: SCS_PUREWAIT, SCS_CONNECTED and SCS_INGAME are one state, *)
(* and so are CS_CONNECTED and CS_INGAME, which GameSync tells apart; a    *)
(* sequenced packet only names its session and whether it brings the       *)
(* reliable DISCONNECT (MsgChannel says how it travels); two client ids,   *)
(* challenges or server ids drawn from the clock are never equal; the      *)
(* routers between do not change ports, and no two clients have one IP     *)
(* address; a program takes longer to start than a datagram is under way.  *)
(* A client that has used its attempts gives up where it would start       *)
(* another one.  Players from elsewhere only take up slots.                *)
(***************************************************************************)
EXTENDS Integers, Sequences, FiniteSets

CONSTANTS
  Client,             \* client programs
  Host,               \* Host[c]: the IP address of c
  Lan,                \* IP addresses of the local network: no key check
  MAX_ASYNC_CLIENTS,  \* slots
  MAX_CHALLENGES,     \* challenges remembered
  si_maxPlayers,      \* clients the game allows
  MIN_RECONNECT_TIME, \* ticks a client that has a slot may not connect again
  serverZombieTimeout,\* ticks of silence after which a zombie's slot is free
  serverClientTimeout,\* ticks of silence after which a client is dropped
  Settings,           \* settings the server and its clients are run with
  MaxChallenge        \* bound: challenges drawn

Slot == 0 .. MAX_ASYNC_CLIENTS - 1

(***************************************************************************)
(* What SetPureServerChecksums says: the paks are in order, in order after *)
(* a restart of the file system, or not there.                             *)
(***************************************************************************)
PakState == {"ok", "restart", "missing"}

(***************************************************************************)
(* A zombie's slot is kept for as long as a datagram of its client may be  *)
(* under way (the default of net_serverZombieTimeout is 5 seconds).        *)
(* "other" and "elsewhere" are the players from elsewhere.                 *)
(***************************************************************************)
ASSUME HandshakeAssumption ==
  /\ {MAX_ASYNC_CLIENTS, MAX_CHALLENGES, si_maxPlayers, MaxChallenge} \subseteq Nat \ {0}
  /\ {MIN_RECONNECT_TIME, serverZombieTimeout, serverClientTimeout} \subseteq Nat
  /\ serverZombieTimeout >= 2
  /\ \A c, d \in Client : Host[c] = Host[d] => c = d
  /\ "other" \notin Client /\ \A c \in Client : Host[c] # "elsewhere"

(***************************************************************************)
(* net_LANServer admits clients of the local network only, si_pure those   *)
(* with the server's paks, and paks is what a client does with the list of *)
(* those.  The rest are bounds: attempts to connect of each client, starts *)
(* of its program and of the server, other players that connect, datagrams *)
(* under way (more are lost).                                              *)
(***************************************************************************)
ASSUME SettingsAssumption ==
  Settings \subseteq [LANServer : BOOLEAN, pure : BOOLEAN, paks : [Client -> PakState],
                     MaxSession : [Client -> Nat], MaxPort : Nat, MaxServer : Nat,
                     MaxOther : Nat, MaxNet : Nat]

VARIABLES
  set,      \* the settings of this run
  cl,       \* cl[c]: the client's state
  slot,     \* slot[s]: serverClient_t
  chal,     \* challenges in use, the oldest first
  drawn,    \* challenges drawn so far
  others,   \* players from elsewhere that have connected
  serverId, \* the server's id, one for each of its lives
  net,      \* datagrams sent in this tick: each may arrive, several times or never
  late,     \* datagrams sent in the last tick
  refused   \* history: challenges the master told the server not to let in yet

serverVars == <<set, slot, chal, drawn, others, serverId, refused>>
vars == <<cl, serverVars, net, late>>

-----------------------------------------------------------------------------
(* Addresses, messages *)

\* The address of a client; every start of the program opens another port.
Addr(c) == [host |-> Host[c], port |-> <<c, cl[c].port>>]

SameHost(a, b) == a.host = b.host

\* The random id of this attempt to connect.
ClientId(c) == <<c, cl[c].session>>

Nobody == [host |-> "none", port |-> <<"none", 0>>]
NoId == <<"none", 0>>

ToServer(type, c) == [type |-> type, from |-> Addr(c), id |-> ClientId(c)]
ToClient(type, to) == [type |-> type, to |-> to]

ChallengeMsg(c) == ToServer("challenge", c)
ConnectMsg(c) ==
  [type |-> "connect", from |-> Addr(c), id |-> ClientId(c), challenge |-> cl[c].challenge]
PureClientMsg(c) ==
  [type |-> "pureClient", from |-> Addr(c), id |-> ClientId(c), challenge |-> cl[c].challenge]
SequencedMsg(c, last) ==
  [type |-> "sequenced", from |-> Addr(c), id |-> ClientId(c), last |-> last]
ChallengeResponse(to, n) ==
  [type |-> "challengeResponse", to |-> to, challenge |-> n, serverId |-> serverId]
ConnectResponse(to, s) == [type |-> "connectResponse", to |-> to, clientNum |-> s]
ServerSequenced(s) ==
  [type |-> "serverSequenced", to |-> slot[s].addr, serverId |-> serverId,
   clientNum |-> s, session |-> slot[s].id]

\* Sends ms in answer to the datagram p, which may come again, or to None.  All
\* of ms may be lost.
Send(p, ms) ==
  \E gone \in SUBSET ({p} \cap (net \cup late)), sent \in {{}, ms} :
    /\ late' = late \ gone
    /\ net' = (net \ gone) \cup sent
    /\ Cardinality(net' \cup late') <= set.MaxNet                \* bound

None == [type |-> "none"]

IsToServer(p) == p.type \in {"challenge", "connect", "pureClient", "sequenced"}
IsToClient(p) == p.type \in {"challengeResponse", "connectResponse", "disconnect",
                             "badChallenge", "pureServer", "serverSequenced"}

-----------------------------------------------------------------------------
(* The client *)

Connected(c) == cl[c].state = "CONNECTED"

\* DisconnectFromServer: the DISCONNECT goes out in three empty messages.
Goodbye(c) == IF Connected(c) THEN {SequencedMsg(c, TRUE)} ELSE {}

\* session->Stop
Stopped(c) ==
  [cl[c] EXCEPT !.state = IF @ = "PURERESTART" THEN @ ELSE "DISCONNECTED"]

\* ConnectToServer: a new id; nothing else of the last attempt is kept.
Anew(c) ==
  IF cl[c].session = set.MaxSession[c]                                \* bound
    THEN [cl[c] EXCEPT !.state = "DISCONNECTED"]
    ELSE [cl[c] EXCEPT !.state = "CHALLENGING", !.session = @ + 1,
                       !.challenge = 0, !.serverId = 0, !.clientNum = 0]

\* "connect" or "reconnect", typed, run after the restart for the pure check, or
\* asked for by the server's BADCHALLENGE, p.
ConnectToServer(c, p) ==
  /\ cl' = [cl EXCEPT ![c] = Anew(c)]
  /\ Send(p, Goodbye(c))
  /\ UNCHANGED serverVars

\* The player leaves, CheckTimeout finds the server silent, or p says so.
DisconnectFromServer(c, p) ==
  /\ cl[c].state # "DISCONNECTED"
  /\ cl' = [cl EXCEPT ![c] = Stopped(c)]
  /\ Send(p, Goodbye(c))
  /\ UNCHANGED serverVars

\* The program ends without a word and is started again; by then, what was under
\* way to it or from it has arrived or is lost.
Crash(c) ==
  LET Others(p) == /\ IsToClient(p) => p.to # Addr(c)
                   /\ IsToServer(p) => p.from # Addr(c)
  IN  /\ cl[c].state # "DISCONNECTED"
      /\ cl[c].port < set.MaxPort                                    \* bound
      /\ cl' = [cl EXCEPT ![c].state = "DISCONNECTED", ![c].port = @ + 1]
      /\ net' = {p \in net : Others(p)}
      /\ late' = {p \in late : Others(p)}
      /\ UNCHANGED serverVars

SetupConnection(c) ==
  /\ \/ cl[c].state = "CHALLENGING" /\ Send(None, {ChallengeMsg(c)})
     \/ cl[c].state = "CONNECTING" /\ Send(None, {ConnectMsg(c)})
  /\ UNCHANGED <<cl, serverVars>>

\* Empty messages, ping responses, user commands.
SendToServer(c) ==
  /\ Connected(c)
  /\ Send(None, {SequencedMsg(c, FALSE)})
  /\ UNCHANGED <<cl, serverVars>>

ProcessChallengeResponse(c, p) ==
  /\ p.type = "challengeResponse"
  /\ cl[c].state = "CHALLENGING"
  /\ cl' = [cl EXCEPT ![c].state = "CONNECTING",
                      ![c].challenge = p.challenge,
                      ![c].serverId = p.serverId]
  /\ Send(p, {})
  /\ UNCHANGED serverVars

ProcessConnectResponse(c, p) ==
  /\ p.type = "connectResponse"
  /\ cl[c].state = "CONNECTING"
  /\ cl' = [cl EXCEPT ![c].state = "CONNECTED", ![c].clientNum = p.clientNum]
  /\ Send(p, {})
  /\ UNCHANGED serverVars

\* The server does not know the sender of a sequenced packet.
ProcessDisconnect(c, p) ==
  /\ p.type = "disconnect"
  /\ DisconnectFromServer(c, p)

ProcessBadChallenge(c, p) ==
  /\ p.type = "badChallenge"
  /\ cl[c].state \in {"CONNECTING", "CONNECTED"}
  /\ ConnectToServer(c, p)

\* ValidatePureServerChecksums: confirm, restart with the right paks and come
\* back, or give up.
ProcessPure(c, p) ==
  /\ p.type = "pureServer"
  /\ cl[c].state = "CONNECTING"
  /\ \/ /\ cl[c].paks = "ok"
        /\ Send(p, {PureClientMsg(c)})
        /\ UNCHANGED cl
     \/ /\ cl[c].paks = "restart"
        /\ cl' = [cl EXCEPT ![c].state = "PURERESTART", ![c].paks = "ok"]
        /\ Send(p, {})
     \/ /\ cl[c].paks = "missing"
        /\ cl' = [cl EXCEPT ![c].state = "DISCONNECTED"]
        /\ Send(p, {})
  /\ UNCHANGED serverVars

\* A sequenced packet of the server that brings the DISCONNECT; others change
\* nothing here.  Only the server's id is compared: one of the client's last
\* session is taken for one of this, if its numbers fit.
ProcessSequenced(c, p) ==
  /\ p.type = "serverSequenced"
  /\ Connected(c)
  /\ p.serverId = cl[c].serverId
  /\ p.clientNum = cl[c].clientNum
  /\ DisconnectFromServer(c, p)

\* What comes when nobody waits for it.
Ignore(c, p) ==
  /\ Send(p, {})
  /\ UNCHANGED <<cl, serverVars>>

ClientReceive(c, p) ==
  /\ p.to = Addr(c)
  /\ \/ ProcessChallengeResponse(c, p)
     \/ ProcessConnectResponse(c, p)
     \/ ProcessDisconnect(c, p)
     \/ ProcessBadChallenge(c, p)
     \/ ProcessPure(c, p)
     \/ ProcessSequenced(c, p)
     \/ Ignore(c, p)

-----------------------------------------------------------------------------
(* The server's challenges *)

NewChallenge(from, id) ==
  [challenge |-> drawn + 1, from |-> from, id |-> id, connected |-> FALSE,
   auth |-> "WAIT", reply |-> "NONE", guid |-> FALSE]

\* Only a challenge that is not marked as connected is used again.
Asked(from, id) ==
  {i \in DOMAIN chal : /\ ~chal[i].connected
                       /\ SameHost(from, chal[i].from)
                       /\ id = chal[i].id}

\* A new challenge takes the place of the oldest one when there is no room.
Remembered(c) ==
  Append(IF Len(chal) < MAX_CHALLENGES THEN chal ELSE Tail(chal), c)

\* What ProcessChallengeMessage makes of the state of the key check.
AuthAfter(from, auth) ==
  IF from.host \in Lan THEN "OK" ELSE IF set.LANServer THEN "ONLYLAN" ELSE auth

ProcessChallenge(p) ==
  /\ p.type = "challenge"
  /\ \/ \E i \in Asked(p.from, p.id) :
          /\ Send(p, {ChallengeResponse(p.from, chal[i].challenge)})
          /\ chal' = [chal EXCEPT ![i].auth = AuthAfter(p.from, @)]
          /\ UNCHANGED drawn
     \/ /\ Asked(p.from, p.id) = {}
        /\ drawn < MaxChallenge                                  \* bound
        /\ drawn' = drawn + 1
        /\ Send(p, {ChallengeResponse(p.from, drawn + 1)})
        /\ chal' = Remembered([NewChallenge(p.from, p.id) EXCEPT
                                  !.auth = AuthAfter(p.from, @)])
  /\ UNCHANGED <<set, cl, slot, others, serverId, refused>>

\* The first slot, free ones aside, that has this address and this id or port
\* decides whether the client comes back too soon.
Holding(from, id) ==
  {s \in Slot : /\ SameHost(from, slot[s].addr)
                /\ id = slot[s].id \/ from.port = slot[s].addr.port}

First(S) == CHOOSE s \in S : \A t \in S : s <= t

\* A mutated form: a client may come back at once.
NeverTooSoon(from, id) == FALSE

TooSoon(from, id) ==
  LET S == {s \in Holding(from, id) : slot[s].state # "FREE"}
  IN  S # {} /\ slot[First(S)].age < MIN_RECONNECT_TIME

Valid(p) == {i \in DOMAIN chal : chal[i].from = p.from /\ chal[i].challenge = p.challenge}

-----------------------------------------------------------------------------
(* The server's slots *)

InUse(s) == slot[s].state = "CONNECTED"

\* A mutated form: the slot that the client still has is not looked for.
CandidatesFree(from, id) == {s \in Slot : slot[s].state = "FREE"}

\* The slot for a client: the one it has or had, else one that is not in use
\* and was last used from its address, else a free one.
Candidates(from, id) ==
  IF Holding(from, id) # {} THEN Holding(from, id)
  ELSE LET same == {s \in Slot : ~InUse(s) /\ SameHost(from, slot[s].addr)}
       IN  IF same # {} THEN same ELSE {s \in Slot : slot[s].state = "FREE"}

\* channel.Init and InitClient, for a client with the challenge n.
InitClient(s, p, n) ==
  slot' = [slot EXCEPT ![s] = [state |-> "CONNECTED", addr |-> p.from, id |-> p.id,
                               age |-> 0, silent |-> 0, challenge |-> n]]

WithoutChallenge(i) == SubSeq(chal, 1, i - 1) \o SubSeq(chal, i + 1, Len(chal))

\* The client has passed all checks: it gets a slot and the challenge is
\* cleared, or there is none and the challenge stays, marked as connected.
Admit(p, i) ==
  IF Candidates(p.from, p.id) = {}
    THEN /\ chal' = [chal EXCEPT ![i].connected = TRUE]
         /\ UNCHANGED slot
         /\ Send(p, {})
    ELSE LET s == First(Candidates(p.from, p.id))
         IN  /\ InitClient(s, p, chal[i].challenge)
             /\ Send(p, {ConnectResponse(p.from, s)})
             /\ chal' = WithoutChallenge(i)

\* CDK_WAIT: the key is not confirmed.  The master server is asked unless it
\* has said no for good.
AskMaster(p, i) ==
  /\ chal' = [chal EXCEPT ![i].guid = TRUE]
  /\ IF chal[i].reply = "DENY" THEN Send(p, {})
     ELSE Send(p, {[type |-> "srvAuth", id |-> p.id]})
  /\ UNCHANGED slot

\* A mutated form: the master server's refusal does not count.
MayTimeOutRefused(i) == chal[i].auth = "WAIT"

\* When the master server has not answered for AUTHORIZE_TIMEOUT it is taken
\* to be down and the client is let in.
MayTimeOut(i) == chal[i].auth = "WAIT" /\ chal[i].reply = "NONE"

KeyOk(i) == chal[i].auth \in {"OK", "PUREOK"}

Players == Cardinality({s \in Slot : InUse(s)})

\* ServerAllowClient; the pure check, once; then a slot.
Allow(p, i) ==
  IF Players >= si_maxPlayers THEN UNCHANGED <<slot, chal>> /\ Send(p, {})
  ELSE IF set.pure /\ chal[i].auth # "PUREOK"
    THEN /\ Send(p, {ToClient("pureServer", p.from)})
         /\ chal' = [chal EXCEPT ![i].auth = "PUREWAIT"]
         /\ UNCHANGED slot
    ELSE Admit(p, i)

ProcessConnect(p) ==
  /\ p.type = "connect"
  /\ \/ /\ TooSoon(p.from, p.id)
        /\ UNCHANGED <<slot, chal>> /\ Send(p, {})
     \/ /\ ~TooSoon(p.from, p.id)
        /\ Valid(p) = {}
        /\ Send(p, {ToClient("badChallenge", p.from)})
        /\ UNCHANGED <<slot, chal>>
     \/ /\ ~TooSoon(p.from, p.id)
        /\ \E i \in Valid(p) :
             \/ /\ chal[i].auth = "PUREWAIT"
                /\ Send(p, {ToClient("pureServer", p.from)})
                /\ UNCHANGED <<slot, chal>>
             \/ chal[i].auth = "ONLYLAN" /\ UNCHANGED <<slot, chal>> /\ Send(p, {})
             \/ chal[i].auth = "WAIT" /\ AskMaster(p, i)
             \/ (KeyOk(i) \/ MayTimeOut(i)) /\ Allow(p, i)
  /\ UNCHANGED <<set, cl, drawn, others, serverId, refused>>

\* The client's list is the server's: clients in between restart or give up.
ProcessPureClient(p) ==
  /\ p.type = "pureClient"
  /\ IF TooSoon(p.from, p.id) THEN UNCHANGED chal /\ Send(p, {})
     ELSE \/ /\ Valid(p) = {}
             /\ Send(p, {ToClient("badChallenge", p.from)})
             /\ UNCHANGED chal
          \/ \E i \in Valid(p) :
               /\ chal' = [chal EXCEPT ![i].auth = IF @ = "PUREWAIT" THEN "PUREOK" ELSE @]
               /\ Send(p, {})
  /\ UNCHANGED <<set, cl, slot, drawn, others, serverId, refused>>

\* The master's answer counts for the first challenge of that client id, once
\* the client has said who it is, and only while the key is to be checked.
ProcessAuth(p) ==
  /\ p.type = "auth"
  /\ LET S == {i \in DOMAIN chal : ~chal[i].connected /\ chal[i].id = p.id}
         W == {i \in S : i = First(S) /\ chal[i].guid /\ chal[i].auth = "WAIT"}
     IN  IF W = {} THEN UNCHANGED <<chal, refused>>
         ELSE /\ chal' = IF p.reply = "OK" THEN [chal EXCEPT ![First(W)].auth = "OK"]
                         ELSE [chal EXCEPT ![First(W)].reply = p.reply]
              /\ refused' = IF p.reply = "OK"
                              THEN refused \ {chal[First(W)].challenge}
                              ELSE refused \cup {chal[First(W)].challenge}
  /\ Send(p, {})
  /\ UNCHANGED <<set, cl, slot, drawn, others, serverId>>

\* A sequenced packet belongs to the first slot with its address and id; the
\* port may have been translated.  Its sender is told if there is none.
ProcessClientPacket(p) ==
  /\ p.type = "sequenced"
  /\ LET S == {s \in Slot : /\ slot[s].state # "FREE"
                            /\ SameHost(p.from, slot[s].addr)
                            /\ p.id = slot[s].id}
     IN  IF S = {}
           THEN /\ Send(p, {ToClient("disconnect", p.from)})
                /\ UNCHANGED slot
           ELSE /\ slot' = [slot EXCEPT
                     ![First(S)].addr.port = p.from.port,
                     ![First(S)].silent = IF InUse(First(S)) THEN 0 ELSE @,
                     ![First(S)].state = IF p.last THEN "ZOMBIE" ELSE @]
                /\ Send(p, {})
  /\ UNCHANGED <<set, cl, chal, drawn, others, serverId, refused>>

ServerReceive(p) ==
  \/ ProcessChallenge(p)
  \/ ProcessConnect(p)
  \/ ProcessPureClient(p)
  \/ ProcessAuth(p)
  \/ ProcessClientPacket(p)

\* RunFrame sends empty messages to zombies, which bring the DISCONNECT.
SendEmptyToClient(s) ==
  /\ slot[s].state = "ZOMBIE"
  /\ Send(None, {ServerSequenced(s)})
  /\ UNCHANGED <<cl, serverVars>>

\* DropClient, of a client that is kicked.
DropClient(s) ==
  /\ InUse(s)
  /\ slot' = [slot EXCEPT ![s].state = "ZOMBIE"]
  /\ UNCHANGED <<set, cl, chal, drawn, others, serverId, net, refused, late>>

\* A player from elsewhere connects, with all that it takes.
OtherConnects ==
  LET other == <<"other", others + 1>>
      from == [host |-> "elsewhere", port |-> other]
  IN  /\ others < set.MaxOther                                    \* bound
      /\ others' = others + 1
      /\ Candidates(from, other) # {}
      /\ InitClient(First(Candidates(from, other)), [from |-> from, id |-> other], 0)
      /\ UNCHANGED <<set, cl, chal, drawn, serverId, net, refused, late>>

\* A mutated form: a zombie's slot is free in the next frame.
AfterTimeoutAtOnce(s) ==
  IF slot[s].state = "ZOMBIE" THEN "FREE"
  ELSE IF InUse(s) /\ slot[s].silent > serverClientTimeout THEN "ZOMBIE"
  ELSE slot[s].state

\* What CheckClientTimeouts, run in every frame, makes of a slot.
AfterTimeout(s) ==
  LET silent == slot[s].silent
  IN  IF slot[s].state = "ZOMBIE" /\ silent > serverZombieTimeout THEN "FREE"
      ELSE IF InUse(s) /\ silent > serverClientTimeout THEN "ZOMBIE"
      ELSE slot[s].state

\* Nobody reads the times of a free slot.
Freed(addr, id) ==
  [state |-> "FREE", addr |-> addr, id |-> id, age |-> 0, silent |-> 0, challenge |-> 0]

CheckClientTimeouts ==
  /\ \E s \in Slot : AfterTimeout(s) # slot[s].state
  /\ slot' = [s \in Slot |->
                IF AfterTimeout(s) = "FREE" THEN Freed(slot[s].addr, slot[s].id)
                ELSE [slot[s] EXCEPT !.state = AfterTimeout(s)]]
  /\ UNCHANGED <<set, cl, chal, drawn, others, serverId, net, refused, late>>

\* The server is killed, with a last round of messages to its clients, or ends
\* without one, and is started again with a new id.
Spawn ==
  /\ serverId < set.MaxServer                                        \* bound
  /\ serverId' = serverId + 1
  /\ slot' = [s \in Slot |-> Freed(Nobody, NoId)]
  /\ chal' = <<>>
  /\ UNCHANGED <<set, cl, drawn, others, refused>>

Restart ==
  /\ Spawn
  /\ net' \in {{}, {ServerSequenced(s) : s \in {t \in Slot : slot[t].state # "FREE"}}}
  /\ late' = {}

-----------------------------------------------------------------------------
(* The master server, the network and time *)

\* It confirms the key, tells the server to wait, or says no.
MasterAnswers(p) ==
  /\ p.type = "srvAuth"
  /\ \E reply \in {"OK", "WAIT", "DENY"} :
       Send(p, {[type |-> "auth", id |-> p.id, reply |-> reply]})
  /\ UNCHANGED <<cl, serverVars>>

MaxSilent == 1 + IF serverZombieTimeout > serverClientTimeout
                   THEN serverZombieTimeout ELSE serverClientTimeout

\* Counts up to n, no further than a comparison needs.
UpTo(n, k) == IF k < n THEN k + 1 ELSE n

Tick ==
  /\ net' = {}
  /\ late' = net
  /\ slot' = [s \in Slot |->
                IF slot[s].state = "FREE" THEN slot[s]
                ELSE [slot[s] EXCEPT !.age = UpTo(MIN_RECONNECT_TIME, @),
                                     !.silent = UpTo(MaxSilent, @)]]
  /\ UNCHANGED <<set, cl, chal, drawn, others, serverId, refused>>

-----------------------------------------------------------------------------

Init ==
  /\ set \in Settings
  /\ cl = [c \in Client |-> [state |-> "DISCONNECTED", session |-> 0, port |-> 1,
                             challenge |-> 0, serverId |-> 0, clientNum |-> 0,
                             paks |-> set.paks[c]]]
  /\ slot = [s \in Slot |-> Freed(Nobody, NoId)]
  /\ chal = <<>>
  /\ drawn = 0
  /\ others = 0
  /\ serverId = 1
  /\ net = {}
  /\ late = {}
  /\ refused = {}

Next ==
  \/ \E c \in Client : \/ ConnectToServer(c, None)
                       \/ DisconnectFromServer(c, None)
                       \/ Crash(c)
                       \/ SetupConnection(c)
                       \/ SendToServer(c)
                       \/ \E p \in {q \in net \cup late : IsToClient(q)} : ClientReceive(c, p)
  \/ \E p \in net \cup late : ServerReceive(p) \/ MasterAnswers(p)
  \/ \E s \in Slot : \/ SendEmptyToClient(s)
                     \/ DropClient(s)
  \/ OtherConnects
  \/ CheckClientTimeouts
  \/ Restart
  \/ Tick

Spec == Init /\ [][Next]_vars

-----------------------------------------------------------------------------
(* Properties *)

Holds(s, c) == InUse(s) /\ slot[s].addr = Addr(c) /\ slot[s].id = ClientId(c)

\* However often a client has tried, been cut off or come back, it has one
\* slot: no two slots in use belong to one address and port.
OneSlotEach ==
  \A s, t \in Slot : InUse(s) /\ InUse(t) /\ slot[s].addr = slot[t].addr => s = t

\* A connected client that has a slot knows which, and knows the server's id,
\* although the answer that told it may have been that to an earlier attempt.
ClientNumAgrees ==
  \A c \in Client, s \in Slot :
    Connected(c) /\ Holds(s, c) =>
      cl[c].clientNum = s /\ cl[c].serverId = serverId

\* Nobody who has a slot on a pure server lacks the server's paks.
PureChecked ==
  \A c \in Client, s \in Slot : set.pure /\ Holds(s, c) => cl[c].paks = "ok"

\* Nobody has a slot by a challenge that the master server has told the server
\* to hold back.  Not so the session it was asked about: the server does not
\* compare the session of a connect message with that of its challenge.
KeyChecked == \A s \in Slot : InUse(s) => slot[s].challenge \notin refused

\* Nobody gets past either check, by whatever detour.
OnlyAdmitted == PureChecked /\ KeyChecked

=============================================================================
