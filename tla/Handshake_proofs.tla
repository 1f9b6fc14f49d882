-------------------------- MODULE Handshake_proofs --------------------------
(***************************************************************************)
(* Proofs about Handshake, for any number of clients, slots, challenges    *)
(* and attempts.  Three facts carry them: the sessions of one start of a   *)
(* program have one port, so that whoever has the id or the port of a slot *)
(* has its address; the number of a challenge is drawn once; and an answer *)
(* that is under way finds the slot it tells of still taken, since a       *)
(* zombie's slot is kept for longer than the answer lives.                 *)
(***************************************************************************)
EXTENDS Handshake, SequenceTheorems, NaturalsInduction, WellFoundedInduction, TLAPS

ClientStates == {"DISCONNECTED", "PURERESTART", "CHALLENGING", "CONNECTING", "CONNECTED"}
SlotStates == {"FREE", "CONNECTED", "ZOMBIE"}
AuthStates == {"WAIT", "OK", "ONLYLAN", "PUREWAIT", "PUREOK"}

Ids == (Client \cup {"none", "other"}) \X Nat
Hosts == {Host[c] : c \in Client} \cup {"none", "elsewhere"}
Address == [host : Hosts, port : Ids]
ClientType ==
  [state : ClientStates, session : Nat, port : Nat, challenge : Nat, serverId : Nat,
   clientNum : Slot, paks : PakState]
SlotType ==
  [state : SlotStates, addr : Address, id : Ids, age : Nat, silent : Nat, challenge : Nat]
ChallengeType ==
  [challenge : Nat, from : Address, id : Ids, connected : BOOLEAN, auth : AuthStates,
   reply : {"NONE", "WAIT", "DENY"}, guid : BOOLEAN]

UnderWay == net \cup late

Types ==
  /\ set \in Settings
  /\ cl \in [Client -> ClientType]
  /\ slot \in [Slot -> SlotType]
  /\ chal \in Seq(ChallengeType)
  /\ drawn \in Nat /\ others \in Nat /\ serverId \in Nat
  /\ \A p \in UnderWay : p.type = "challengeResponse" => p.challenge \in Nat /\ p.serverId \in Nat
  /\ \A p \in UnderWay : p.type = "connectResponse" => p.clientNum \in Slot
  /\ \A p \in UnderWay : p.type = "auth" => p.reply \in {"OK", "WAIT", "DENY"}

\* first[c] is the first session of this start of c's program: its sessions
\* since then have its port, those before had another.
Known(v, first) ==
  \/ v.addr = Nobody /\ v.id = NoId
  \/ \E n \in Nat : /\ 1 <= n /\ n <= others
                    /\ v.addr = [host |-> "elsewhere", port |-> <<"other", n>>]
                    /\ v.id = <<"other", n>>
  \/ \E c \in Client, k, m \in Nat :
       /\ 1 <= k /\ k <= cl[c].session /\ 1 <= m /\ m <= cl[c].port
       /\ v.addr = [host |-> Host[c], port |-> <<c, m>>] /\ v.id = <<c, k>>
       /\ m = cl[c].port <=> k >= first[c]

FromProgram(p, first) ==
  \E c \in Client, k \in Nat :
    first[c] <= k /\ k <= cl[c].session /\ p.from = Addr(c) /\ p.id = <<c, k>>

Programs(first) ==
  /\ \A c \in Client : cl[c].port >= 1 /\ first[c] <= cl[c].session + 1
  /\ \A c \in Client : cl[c].state # "DISCONNECTED" => first[c] <= cl[c].session
  /\ \A p \in UnderWay : IsToServer(p) => FromProgram(p, first)
  /\ \A s \in Slot : Known(slot[s], first)

Firsts == [Client -> Nat \ {0}]

\* No two slots, in use or not, were last given to one address.
Apart ==
  /\ \A s, t \in Slot : slot[s].addr = slot[t].addr => s = t \/ slot[s].addr = Nobody
  /\ \A s \in Slot : InUse(s) => slot[s].addr # Nobody

\* The address is one of c's.
Of(a, c) == \E n \in Nat : a = [host |-> Host[c], port |-> <<c, n>>]

Paks ==
  \A c \in Client : cl[c].paks # "ok" =>
    /\ \A p \in UnderWay : p.type = "pureClient" => ~Of(p.from, c)
    /\ \A i \in DOMAIN chal : chal[i].auth = "PUREOK" => ~Of(chal[i].from, c)
    /\ set.pure => \A s \in Slot : InUse(s) => ~Of(slot[s].addr, c)

\* A challenge is drawn once, and is used up by whoever gets a slot by it.
Numbered ==
  /\ \A i \in DOMAIN chal : 1 <= chal[i].challenge /\ chal[i].challenge <= drawn
  /\ \A i, j \in DOMAIN chal : chal[i].challenge = chal[j].challenge => i = j
  /\ refused \subseteq 1 .. drawn
  /\ \A s \in Slot : slot[s].challenge <= drawn
  /\ \A s \in Slot, i \in DOMAIN chal : slot[s].challenge # chal[i].challenge

\* A challenge that the master server refused is not confirmed by something else.
Refusals ==
  /\ \A i \in DOMAIN chal :
       chal[i].auth \in {"WAIT", "ONLYLAN"} => chal[i].from.host \notin Lan
  /\ \A i \in DOMAIN chal : chal[i].challenge \in refused =>
       chal[i].auth \in {"WAIT", "ONLYLAN"} /\ chal[i].reply # "NONE"
  /\ KeyChecked

Waiting(c) == cl[c].state \in {"CONNECTING", "CONNECTED"}

\* Who has a challenge of this life of the server knows the server's id.
Current ==
  /\ \A c \in Client : cl[c].challenge <= drawn
  /\ \A p \in UnderWay : p.type = "challengeResponse" => 1 <= p.challenge /\ p.challenge <= drawn
  /\ \A c \in Client, i \in DOMAIN chal :
       cl[c].challenge = chal[i].challenge => cl[c].serverId = serverId
  /\ \A p \in UnderWay, i \in DOMAIN chal :
       p.type = "challengeResponse" /\ p.challenge = chal[i].challenge => p.serverId = serverId
  /\ \A p \in UnderWay, c \in Client :
       p.type = "connect" /\ p.id = ClientId(c) =>
         cl[c].state # "CHALLENGING" /\ (Waiting(c) => p.challenge = cl[c].challenge)
  /\ \A s \in Slot, c \in Client :
       slot[s].id = ClientId(c) =>
         cl[c].state # "CHALLENGING" /\ (Waiting(c) => cl[c].serverId = serverId)

\* The slot s is still c's, and was n ticks ago.
Kept(s, c, n) == slot[s].addr = Addr(c) /\ slot[s].state # "FREE" /\ slot[s].silent <= n

\* An answer under way tells of a slot that is taken, and so does one that has
\* come while a question is still under way.
Answers ==
  /\ \A p \in UnderWay : p.type = "connectResponse" =>
       \E c \in Client : p.to = Addr(c) /\ Kept(p.clientNum, c, IF p \in net THEN 0 ELSE 1)
  /\ \A p \in UnderWay, c \in Client :
       p.type = "connect" /\ p.id = ClientId(c) /\ Connected(c) =>
         Kept(cl[c].clientNum, c, IF p \in net THEN 1 ELSE 2)
  /\ \A c \in Client, s \in Slot :
       Connected(c) /\ slot[s].addr = Addr(c) /\ slot[s].id = ClientId(c) => cl[c].clientNum = s

\* The inductive invariant.
IInv ==
  /\ Types
  /\ \E first \in Firsts : Programs(first)
  /\ Apart
  /\ Paks
  /\ Numbered
  /\ Refusals
  /\ Current
  /\ Answers

-----------------------------------------------------------------------------
(* Places in their order, addresses, messages *)

LEMMA NatLeast ==
  ASSUME NEW T \in SUBSET Nat, T # {}
  PROVE  \E x \in T : \A y \in T : x <= y
<1>1. IsWellFoundedOn(OpToRel(<, Nat), Nat)
  BY NatLessThanWellFounded
<1>2. PICK x \in T : \A y \in T : ~ (<<y, x>> \in OpToRel(<, Nat))
  BY <1>1, WFMin
<1>3. ASSUME NEW y \in T PROVE x <= y
  <2>1. ~ (<<y, x>> \in {ss \in Nat \X Nat : ss[1] < ss[2]})
    BY <1>2 DEF OpToRel
  <2> QED BY <2>1
<1> QED BY <1>3

LEMMA FirstIs ==
  ASSUME NEW S \in SUBSET Nat, S # {}
  PROVE  First(S) \in S /\ \A t \in S : First(S) <= t
BY NatLeast DEF First

LEMMA SlotsAreNumbers == Slot \subseteq Nat /\ 0 \in Slot
BY HandshakeAssumption DEF Slot

\* Addresses of clients tell them and the starts of their programs apart.
LEMMA AddressIs ==
  ASSUME NEW c \in Client, NEW d \in Client, NEW m \in Nat, NEW n \in Nat,
         [host |-> Host[c], port |-> <<c, m>>] = [host |-> Host[d], port |-> <<d, n>>]
  PROVE  c = d /\ m = n
<1> DEFINE a == [host |-> Host[c], port |-> <<c, m>>]
           b == [host |-> Host[d], port |-> <<d, n>>]
<1>1. a.port = <<c, m>> /\ b.port = <<d, n>> /\ a = b
  OBVIOUS
<1>2. <<c, m>> = <<d, n>>
  BY <1>1
<1> QED BY <1>2

LEMMA OfWhom ==
  ASSUME NEW c \in Client, NEW d \in Client, NEW m \in Nat, NEW a,
         a = [host |-> Host[c], port |-> <<c, m>>], Of(a, d)
  PROVE  c = d
<1>1. PICK n \in Nat : a = [host |-> Host[d], port |-> <<d, n>>]
  BY DEF Of
<1> QED BY <1>1, AddressIs

LEMMA AddrIs ==
  ASSUME NEW c \in Client
  PROVE  Addr(c) = [host |-> Host[c], port |-> <<c, cl[c].port>>]
BY DEF Addr

\* What a send leaves under way.
LEMMA Sends ==
  ASSUME NEW p, NEW ms, Send(p, ms)
  PROVE  net' \subseteq net \cup ms /\ late' \subseteq late
BY DEF Send

-----------------------------------------------------------------------------
(* Slots by address *)

LEMMA ProgramFacts ==
  ASSUME Types, NEW first \in Firsts, Programs(first), NEW p, FromProgram(p, first)
  PROVE  \E c \in Client, k \in Nat :
           /\ first[c] <= k /\ k <= cl[c].session /\ 1 <= k
           /\ p.from = [host |-> Host[c], port |-> <<c, cl[c].port>>] /\ p.from = Addr(c)
           /\ p.id = <<c, k>>
           /\ p.from \in Address /\ p.id \in Ids /\ p.from # Nobody
           /\ cl[c].port \in Nat /\ cl[c].port >= 1
<1>1. PICK c \in Client, k \in Nat :
        first[c] <= k /\ k <= cl[c].session /\ p.from = Addr(c) /\ p.id = <<c, k>>
  BY DEF FromProgram
<1>2. cl[c].port \in Nat /\ cl[c].port >= 1 /\ first[c] \in Nat \ {0}
  BY DEF Types, ClientType, Programs, Firsts
<1>3. p.from = [host |-> Host[c], port |-> <<c, cl[c].port>>]
  BY <1>1, AddrIs
<1>4. p.from \in Address /\ p.id \in Ids
  BY <1>1, <1>2, <1>3 DEF Address, Hosts, Ids
<1>5. p.from # Nobody
  <2>1. p.from.port = <<c, cl[c].port>> /\ Nobody.port = <<"none", 0>>
    BY <1>3 DEF Nobody
  <2>2. <<c, cl[c].port>> # <<"none", 0>>
    BY <1>2
  <2> QED BY <2>1, <2>2
<1>6. 1 <= k
  BY <1>1, <1>2
<1>7. /\ first[c] <= k /\ k <= cl[c].session /\ 1 <= k
      /\ p.from = [host |-> Host[c], port |-> <<c, cl[c].port>>] /\ p.from = Addr(c)
      /\ p.id = <<c, k>>
      /\ p.from \in Address /\ p.id \in Ids /\ p.from # Nobody
      /\ cl[c].port \in Nat /\ cl[c].port >= 1
  BY <1>1, <1>2, <1>3, <1>4, <1>5, <1>6
<1> QED BY <1>7

\* Who has the id or the port of a slot has its address.
LEMMA HoldingIs ==
  ASSUME Types, NEW first \in Firsts, Programs(first), NEW p, FromProgram(p, first)
  PROVE  Holding(p.from, p.id) = {s \in Slot : slot[s].addr = p.from}
<1>1. PICK c \in Client, k \in Nat :
           /\ first[c] <= k /\ k <= cl[c].session /\ 1 <= k
           /\ p.from = [host |-> Host[c], port |-> <<c, cl[c].port>>] /\ p.from = Addr(c)
           /\ p.id = <<c, k>>
           /\ p.from \in Address /\ p.id \in Ids /\ p.from # Nobody
           /\ cl[c].port \in Nat /\ cl[c].port >= 1
  BY ProgramFacts
<1>2. p.from.port = <<c, cl[c].port>> /\ p.from.host = Host[c]
  BY <1>1
<1>3. ASSUME NEW s \in Slot
      PROVE  (/\ SameHost(p.from, slot[s].addr)
              /\ p.id = slot[s].id \/ p.from.port = slot[s].addr.port) <=> slot[s].addr = p.from
  <2> DEFINE v == slot[s]
  <2>0. Known(v, first)
    BY DEF Programs
  <2>1. CASE v.addr = Nobody /\ v.id = NoId
    <3>1. v.addr.port = <<"none", 0>> /\ v.id = <<"none", 0>>
      BY <2>1 DEF Nobody, NoId
    <3>2. p.id # v.id /\ p.from.port # v.addr.port
      BY <1>1, <1>2, <3>1
    <3> QED BY <1>1, <2>1, <3>2
  <2>2. CASE \E n \in Nat : /\ 1 <= n /\ n <= others
                            /\ v.addr = [host |-> "elsewhere", port |-> <<"other", n>>]
                            /\ v.id = <<"other", n>>
    <3>1. PICK n \in Nat : /\ v.addr = [host |-> "elsewhere", port |-> <<"other", n>>]
                           /\ v.id = <<"other", n>>
      BY <2>2
    <3>2. v.addr.port = <<"other", n>>
      BY <3>1
    <3>3. "other" # c
      BY HandshakeAssumption
    <3>4. p.id # v.id /\ p.from.port # v.addr.port
      BY <1>1, <1>2, <3>1, <3>2, <3>3
    <3> QED BY <3>4
  <2>3. CASE \E d \in Client, j, m \in Nat :
               /\ 1 <= j /\ j <= cl[d].session /\ 1 <= m /\ m <= cl[d].port
               /\ v.addr = [host |-> Host[d], port |-> <<d, m>>] /\ v.id = <<d, j>>
               /\ m = cl[d].port <=> j >= first[d]
    <3>1. PICK d \in Client, j \in Nat, m \in Nat :
               /\ v.addr = [host |-> Host[d], port |-> <<d, m>>] /\ v.id = <<d, j>>
               /\ m = cl[d].port <=> j >= first[d]
      BY <2>3
    <3>2. v.addr.port = <<d, m>> /\ v.addr.host = Host[d]
      BY <3>1
    <3>3. p.id = v.id => c = d /\ k = j
      BY <1>1, <3>1
    <3>4. p.id = v.id => m = cl[c].port
      BY <1>1, <3>1, <3>3
    <3>5. p.from.port = v.addr.port => c = d /\ m = cl[c].port
      BY <1>2, <3>2
    <3>6. c = d /\ m = cl[c].port => v.addr = p.from
      BY <1>1, <3>1
    <3>7. p.id = v.id => c = d /\ m = cl[c].port
      BY <3>3, <3>4
    <3>8. p.id = v.id \/ p.from.port = v.addr.port => v.addr = p.from
      BY <3>5, <3>6, <3>7
    <3> QED BY <3>8 DEF SameHost
  <2> QED BY <2>0, <2>1, <2>2, <2>3 DEF Known
<1> QED BY <1>3 DEF Holding

LEMMA HoldingElsewhere ==
  ASSUME Types, NEW first \in Firsts, Programs(first)
  PROVE  LET other == <<"other", others + 1>>
             from == [host |-> "elsewhere", port |-> other]
         IN  /\ Holding(from, other) = {}
             /\ from \in Address /\ other \in Ids /\ from # Nobody
             /\ \A s \in Slot : slot[s].addr # from
<1> DEFINE other == <<"other", others + 1>>
           from == [host |-> "elsewhere", port |-> other]
<1>1. from \in Address /\ other \in Ids
  BY DEF Types, Address, Hosts, Ids
<1>2. from.host = "elsewhere" /\ from.port = <<"other", others + 1>> /\ others \in Nat
  BY DEF Types
<1>3. from # Nobody
  <2>1. Nobody.port = <<"none", 0>>
    BY DEF Nobody
  <2> QED BY <1>2, <2>1
<1>4. ASSUME NEW s \in Slot PROVE slot[s].id # other /\ slot[s].addr.port # other
  <2> DEFINE v == slot[s]
  <2>0. Known(v, first)
    BY DEF Programs
  <2>1. CASE v.addr = Nobody /\ v.id = NoId
    BY <2>1 DEF Nobody, NoId
  <2>2. CASE \E n \in Nat : /\ 1 <= n /\ n <= others
                            /\ v.addr = [host |-> "elsewhere", port |-> <<"other", n>>]
                            /\ v.id = <<"other", n>>
    <3>1. PICK n \in Nat : /\ n <= others
                           /\ v.addr = [host |-> "elsewhere", port |-> <<"other", n>>]
                           /\ v.id = <<"other", n>>
      BY <2>2
    <3>2. v.addr.port = <<"other", n>> /\ n # others + 1
      BY <1>2, <3>1
    <3> QED BY <3>1, <3>2
  <2>3. CASE \E d \in Client, j, m \in Nat :
               /\ 1 <= j /\ j <= cl[d].session /\ 1 <= m /\ m <= cl[d].port
               /\ v.addr = [host |-> Host[d], port |-> <<d, m>>] /\ v.id = <<d, j>>
               /\ m = cl[d].port <=> j >= first[d]
    <3>1. PICK d \in Client, j \in Nat, m \in Nat :
               v.addr = [host |-> Host[d], port |-> <<d, m>>] /\ v.id = <<d, j>>
      BY <2>3
    <3>2. v.addr.port = <<d, m>> /\ d # "other"
      BY <3>1, HandshakeAssumption
    <3> QED BY <3>1, <3>2
  <2> QED BY <2>0, <2>1, <2>2, <2>3 DEF Known
<1>5. Holding(from, other) = {}
  BY <1>2, <1>4 DEF Holding
<1>6. \A s \in Slot : slot[s].addr # from
  BY <1>2, <1>4
<1> QED BY <1>1, <1>3, <1>5, <1>6

\* The slot chosen: the one with the address if there is one; else nobody's of
\* the same host that is in use, nor anybody's of another host that is not free.
LEMMA Chosen ==
  ASSUME Types, NEW from, NEW id, Candidates(from, id) # {},
         Holding(from, id) = {s \in Slot : slot[s].addr = from}
  PROVE  LET s == First(Candidates(from, id))
         IN  /\ s \in Slot
             /\ (\E t \in Slot : slot[t].addr = from) => slot[s].addr = from
             /\ (\A t \in Slot : slot[t].addr # from) =>
                  SameHost(from, slot[s].addr) \/ slot[s].state = "FREE"
<1> DEFINE C == Candidates(from, id)
<1>1. C \subseteq Slot
  BY DEF Candidates, Holding
<1>2. First(C) \in C
  BY <1>1, FirstIs, SlotsAreNumbers
<1> QED BY <1>1, <1>2 DEF Candidates

-----------------------------------------------------------------------------
(* The initial states *)

LEMMA Initially == Init => IInv
<1> SUFFICES ASSUME Init PROVE IInv
  OBVIOUS
<1>1. UnderWay = {} /\ chal = <<>> /\ drawn = 0 /\ others = 0 /\ serverId = 1 /\ refused = {}
  BY DEF Init, UnderWay
<1>2. \A s \in Slot : /\ slot[s] = Freed(Nobody, NoId)
                      /\ slot[s].addr = Nobody /\ slot[s].id = NoId
                      /\ slot[s].state = "FREE" /\ slot[s].challenge = 0
  BY DEF Init, Freed
<1>3. \A c \in Client : /\ cl[c].state = "DISCONNECTED" /\ cl[c].port = 1 /\ cl[c].session = 0
                        /\ cl[c].challenge = 0
  BY DEF Init
<1>4. Types
  <2>1. set \in Settings
    BY DEF Init
  <2>2. \A c \in Client : set.paks[c] \in PakState
    BY <2>1, SettingsAssumption
  <2>3. cl \in [Client -> ClientType]
    BY <2>2, SlotsAreNumbers DEF Init, ClientType, ClientStates
  <2>4. Nobody \in Address /\ NoId \in Ids
    BY DEF Nobody, NoId, Address, Hosts, Ids
  <2>5. Freed(Nobody, NoId) \in SlotType
    BY <2>4 DEF Freed, SlotType, SlotStates
  <2>6. slot \in [Slot -> SlotType]
    BY <2>5 DEF Init
  <2> QED BY <1>1, <2>1, <2>3, <2>6 DEF Types
<1>5. \E first \in Firsts : Programs(first)
  <2> DEFINE first == [c \in Client |-> 1]
  <2>1. first \in Firsts
    BY DEF Firsts
  <2>2. Programs(first)
    BY <1>1, <1>2, <1>3 DEF Programs, Known
  <2> QED BY <2>1, <2>2
<1>6. Apart
  BY <1>2 DEF Apart, InUse
<1>7. Paks
  BY <1>1, <1>2 DEF Paks, InUse
<1>8. Numbered
  BY <1>1, <1>2 DEF Numbered
<1>9. Refusals
  BY <1>1 DEF Refusals, KeyChecked
<1>10. Current
  BY <1>1, <1>3 DEF Current, Waiting
<1>11. Answers
  BY <1>1, <1>3 DEF Answers, Connected
<1> QED BY <1>4, <1>5, <1>6, <1>7, <1>8, <1>9, <1>10, <1>11 DEF IInv

-----------------------------------------------------------------------------
(* The steps of a client *)

\* What c may send.
MessageOf(c, m) ==
  /\ IsToServer(m)
  /\ m.from = Addr(c) /\ m.id = ClientId(c)
  /\ cl[c].state # "DISCONNECTED"
  /\ m.type = "connect" => cl[c].state = "CONNECTING" /\ m.challenge = cl[c].challenge
  /\ m.type = "pureClient" => cl[c].paks = "ok"

\* A step of c that leaves it in the state r.
ClientStep(c, r) ==
  /\ cl' = [cl EXCEPT ![c] = r]
  /\ \A m \in net' : m \in net \/ MessageOf(c, m)
  /\ late' \subseteq late
  /\ UNCHANGED serverVars

Tries(c, r) ==
  r = [cl[c] EXCEPT !.state = "CHALLENGING", !.session = @ + 1,
                    !.challenge = 0, !.serverId = 0, !.clientNum = 0]
Ends(c, r) ==
  /\ r.state \in {"DISCONNECTED", "PURERESTART"}
  /\ r.state = "PURERESTART" => cl[c].state # "DISCONNECTED"
  /\ r.session = cl[c].session /\ r.port = cl[c].port /\ r.challenge = cl[c].challenge
  /\ r.serverId = cl[c].serverId /\ r.clientNum = cl[c].clientNum
  /\ r.paks \in PakState
  /\ cl[c].paks = "ok" => r.paks = "ok"
Learns(c, r) ==
  /\ cl[c].state = "CHALLENGING"
  /\ \E p \in UnderWay :
       /\ p.type = "challengeResponse"
       /\ r = [cl[c] EXCEPT !.state = "CONNECTING", !.challenge = p.challenge,
                            !.serverId = p.serverId]
Enters(c, r) ==
  /\ cl[c].state = "CONNECTING"
  /\ \E p \in UnderWay :
       /\ p.type = "connectResponse" /\ p.to = Addr(c)
       /\ r = [cl[c] EXCEPT !.state = "CONNECTED", !.clientNum = p.clientNum]

LEMMA GoodbyeIs ==
  ASSUME NEW c \in Client, NEW m \in Goodbye(c)
  PROVE  MessageOf(c, m)
<1>1. m = SequencedMsg(c, TRUE) /\ cl[c].state = "CONNECTED"
  BY DEF Goodbye, Connected
<1>2. m.type = "sequenced" /\ m.from = Addr(c) /\ m.id = ClientId(c)
  BY <1>1 DEF SequencedMsg
<1> QED BY <1>1, <1>2 DEF MessageOf, IsToServer

LEMMA SendStep ==
  ASSUME NEW c \in Client, NEW p, NEW ms, Send(p, ms), \A m \in ms : MessageOf(c, m),
         UNCHANGED serverVars, NEW r, cl' = [cl EXCEPT ![c] = r]
  PROVE  ClientStep(c, r)
BY Sends DEF ClientStep

LEMMA SilentStep ==
  ASSUME NEW c \in Client, NEW p, Send(p, {}), UNCHANGED serverVars,
         NEW r, cl' = [cl EXCEPT ![c] = r]
  PROVE  ClientStep(c, r)
<1>1. net' \subseteq net /\ late' \subseteq late
  BY Sends
<1> QED BY <1>1 DEF ClientStep

LEMMA ConnectStep ==
  ASSUME Types, NEW c \in Client, NEW p, ConnectToServer(c, p)
  PROVE  \E r \in ClientType : ClientStep(c, r) /\ (Tries(c, r) \/ Ends(c, r))
<1> DEFINE r == Anew(c)
<1>0. cl[c] \in ClientType
  BY DEF Types
<1>1. ClientStep(c, r)
  BY GoodbyeIs, SendStep DEF ConnectToServer
<1>2. r \in ClientType /\ (Tries(c, r) \/ Ends(c, r))
  <2>1. CASE cl[c].session = set.MaxSession[c]
    <3>1. r = [cl[c] EXCEPT !.state = "DISCONNECTED"]
      BY <2>1 DEF Anew
    <3> HIDE DEF r
    <3> QED BY <1>0, <3>1 DEF Ends, ClientType, ClientStates
  <2>2. CASE cl[c].session # set.MaxSession[c]
    <3>1. r = [cl[c] EXCEPT !.state = "CHALLENGING", !.session = @ + 1,
                            !.challenge = 0, !.serverId = 0, !.clientNum = 0]
      BY <2>2 DEF Anew
    <3>2. Tries(c, r)
      BY <3>1 DEF Tries
    <3> HIDE DEF r
    <3>3. r = [state |-> "CHALLENGING", session |-> cl[c].session + 1, port |-> cl[c].port,
               challenge |-> 0, serverId |-> 0, clientNum |-> 0, paks |-> cl[c].paks]
      BY <1>0, <3>1 DEF ClientType
    <3>4. r \in ClientType
      BY <1>0, <3>3, SlotsAreNumbers DEF ClientType, ClientStates
    <3> QED BY <3>2, <3>4
  <2> QED BY <2>1, <2>2
<1> QED BY <1>1, <1>2

LEMMA DisconnectStep ==
  ASSUME Types, NEW c \in Client, NEW p, DisconnectFromServer(c, p)
  PROVE  \E r \in ClientType : ClientStep(c, r) /\ Ends(c, r)
<1> DEFINE r == Stopped(c)
<1>0. cl[c] \in ClientType
  BY DEF Types
<1>1. ClientStep(c, r)
  BY GoodbyeIs, SendStep DEF DisconnectFromServer
<1>2. r \in ClientType /\ Ends(c, r)
  BY <1>0 DEF Stopped, Ends, ClientType, ClientStates
<1> QED BY <1>1, <1>2

Client1(c) ==
  \/ ConnectToServer(c, None)
  \/ DisconnectFromServer(c, None)
  \/ SetupConnection(c)
  \/ SendToServer(c)
  \/ \E p \in {q \in UnderWay : IsToClient(q)} : ClientReceive(c, p)

LEMMA ClientSteps ==
  ASSUME Types, NEW c \in Client, Client1(c)
  PROVE  \E r \in ClientType :
           /\ ClientStep(c, r)
           /\ Tries(c, r) \/ Ends(c, r) \/ r = cl[c] \/ Learns(c, r) \/ Enters(c, r)
<1>0. cl[c] \in ClientType /\ cl = [cl EXCEPT ![c] = cl[c]]
  BY DEF Types
<1>1. CASE ConnectToServer(c, None)
  BY <1>1, ConnectStep
<1>2. CASE DisconnectFromServer(c, None)
  BY <1>2, DisconnectStep
<1>3. CASE SetupConnection(c)
  <2>1. CASE cl[c].state = "CHALLENGING" /\ Send(None, {ChallengeMsg(c)})
    <3>1. MessageOf(c, ChallengeMsg(c))
      BY <2>1 DEF MessageOf, ChallengeMsg, ToServer, IsToServer
    <3>2. ClientStep(c, cl[c])
      BY <1>0, <1>3, <2>1, <3>1, SendStep DEF SetupConnection
    <3> QED BY <1>0, <3>2
  <2>2. CASE cl[c].state = "CONNECTING" /\ Send(None, {ConnectMsg(c)})
    <3>1. MessageOf(c, ConnectMsg(c))
      BY <2>2 DEF MessageOf, ConnectMsg, IsToServer
    <3>2. ClientStep(c, cl[c])
      BY <1>0, <1>3, <2>2, <3>1, SendStep DEF SetupConnection
    <3> QED BY <1>0, <3>2
  <2> QED BY <1>3, <2>1, <2>2 DEF SetupConnection
<1>4. CASE SendToServer(c)
  <2>1. MessageOf(c, SequencedMsg(c, FALSE))
    BY <1>4 DEF SendToServer, Connected, MessageOf, SequencedMsg, IsToServer
  <2>2. Send(None, {SequencedMsg(c, FALSE)}) /\ UNCHANGED cl /\ UNCHANGED serverVars
    BY <1>4 DEF SendToServer
  <2>3. ClientStep(c, cl[c])
    <3>1. net' \subseteq net \cup {SequencedMsg(c, FALSE)} /\ late' \subseteq late
      BY <2>2, Sends
    <3> QED BY <1>0, <2>1, <2>2, <3>1 DEF ClientStep
  <2> QED BY <1>0, <2>3
<1>5. CASE \E p \in {q \in UnderWay : IsToClient(q)} : ClientReceive(c, p)
  <2>1. PICK p \in UnderWay : ClientReceive(c, p)
    BY <1>5
  <2>2. p.to = Addr(c)
    BY <2>1 DEF ClientReceive
  <2>3. CASE ProcessChallengeResponse(c, p)
    <3> DEFINE r == [cl[c] EXCEPT !.state = "CONNECTING", !.challenge = p.challenge,
                                  !.serverId = p.serverId]
    <3>1. cl' = [cl EXCEPT ![c] = r]
      BY <1>0, <2>3 DEF ProcessChallengeResponse, Types
    <3>2. ClientStep(c, r)
      BY <2>3, <3>1, SilentStep DEF ProcessChallengeResponse
    <3>3. p.challenge \in Nat /\ p.serverId \in Nat
      BY <2>3 DEF ProcessChallengeResponse, Types
    <3>4. r \in ClientType
      BY <1>0, <3>3 DEF ClientType, ClientStates
    <3>5. Learns(c, r)
      BY <2>3 DEF ProcessChallengeResponse, Learns
    <3> QED BY <3>2, <3>4, <3>5
  <2>4. CASE ProcessConnectResponse(c, p)
    <3> DEFINE r == [cl[c] EXCEPT !.state = "CONNECTED", !.clientNum = p.clientNum]
    <3>1. cl' = [cl EXCEPT ![c] = r]
      BY <1>0, <2>4 DEF ProcessConnectResponse, Types
    <3>2. ClientStep(c, r)
      BY <2>4, <3>1, SilentStep DEF ProcessConnectResponse
    <3>3. p.clientNum \in Slot
      BY <2>4 DEF ProcessConnectResponse, Types
    <3>4. r \in ClientType
      BY <1>0, <3>3 DEF ClientType, ClientStates
    <3>5. Enters(c, r)
      BY <2>2, <2>4 DEF ProcessConnectResponse, Enters
    <3> QED BY <3>2, <3>4, <3>5
  <2>5. CASE ProcessDisconnect(c, p)
    BY <2>5, DisconnectStep DEF ProcessDisconnect
  <2>6. CASE ProcessBadChallenge(c, p)
    BY <2>6, ConnectStep DEF ProcessBadChallenge
  <2>7. CASE ProcessPure(c, p)
    <3>1. CASE cl[c].paks = "ok" /\ Send(p, {PureClientMsg(c)}) /\ UNCHANGED cl
      <4>1. MessageOf(c, PureClientMsg(c))
        BY <2>7, <3>1 DEF ProcessPure, MessageOf, PureClientMsg, IsToServer
      <4>2. ClientStep(c, cl[c])
        BY <1>0, <2>7, <3>1, <4>1, SendStep DEF ProcessPure
      <4> QED BY <1>0, <4>2
    <3>2. CASE /\ cl[c].paks = "restart"
               /\ cl' = [cl EXCEPT ![c].state = "PURERESTART", ![c].paks = "ok"]
               /\ Send(p, {})
      <4> DEFINE r == [cl[c] EXCEPT !.state = "PURERESTART", !.paks = "ok"]
      <4>1. cl' = [cl EXCEPT ![c] = r]
        BY <1>0, <3>2 DEF Types
      <4>2. ClientStep(c, r)
        BY <2>7, <3>2, <4>1, SilentStep DEF ProcessPure
      <4>3. r \in ClientType /\ Ends(c, r)
        BY <1>0, <2>7 DEF ClientType, ClientStates, PakState, Ends, ProcessPure
      <4> QED BY <4>2, <4>3
    <3>3. CASE /\ cl[c].paks = "missing"
               /\ cl' = [cl EXCEPT ![c].state = "DISCONNECTED"]
               /\ Send(p, {})
      <4> DEFINE r == [cl[c] EXCEPT !.state = "DISCONNECTED"]
      <4>1. cl' = [cl EXCEPT ![c] = r]
        BY <1>0, <3>3 DEF Types
      <4>2. ClientStep(c, r)
        BY <2>7, <3>3, <4>1, SilentStep DEF ProcessPure
      <4>3. r \in ClientType /\ Ends(c, r)
        BY <1>0 DEF ClientType, ClientStates, Ends
      <4> QED BY <4>2, <4>3
    <3> QED BY <2>7, <3>1, <3>2, <3>3 DEF ProcessPure
  <2>8. CASE ProcessSequenced(c, p)
    BY <2>8, DisconnectStep DEF ProcessSequenced
  <2>9. CASE Ignore(c, p)
    <3>1. ClientStep(c, cl[c])
      BY <1>0, <2>9, SilentStep DEF Ignore
    <3> QED BY <1>0, <3>1
  <2> QED BY <2>1, <2>3, <2>4, <2>5, <2>6, <2>7, <2>8, <2>9 DEF ClientReceive
<1> QED BY <1>1, <1>2, <1>3, <1>4, <1>5 DEF Client1

ClientStays(c, r) ==
  Tries(c, r) \/ Ends(c, r) \/ r = cl[c] \/ Learns(c, r) \/ Enters(c, r)

LEMMA ClientEffects ==
  ASSUME Types, NEW c \in Client, NEW r \in ClientType, ClientStep(c, r), ClientStays(c, r)
  PROVE  /\ cl' \in [Client -> ClientType] /\ cl'[c] = r
         /\ \A d \in Client : d # c => cl'[d] = cl[d] /\ ClientId(d)' = ClientId(d)
         /\ \A d \in Client : cl'[d].port = cl[d].port /\ Addr(d)' = Addr(d)
         /\ \A d \in Client : cl[d].session <= cl'[d].session
         /\ \A d \in Client : cl[d].paks = "ok" => cl'[d].paks = "ok"
         /\ \A p \in UnderWay' : p \in UnderWay \/ (p \in net' /\ MessageOf(c, p))
         /\ \A p \in net' : p \in net \/ MessageOf(c, p)
         /\ slot' = slot /\ chal' = chal /\ drawn' = drawn /\ others' = others
         /\ serverId' = serverId /\ set' = set /\ refused' = refused
<1>1. cl' \in [Client -> ClientType] /\ cl'[c] = r /\ \A d \in Client : d # c => cl'[d] = cl[d]
  BY DEF Types, ClientStep
<1>2. \A d \in Client : d # c => ClientId(d)' = ClientId(d)
  BY <1>1 DEF ClientId
<1>3. r.port = cl[c].port /\ cl[c].session <= r.session /\ (cl[c].paks = "ok" => r.paks = "ok")
  <2>0. cl[c] \in ClientType
    BY DEF Types
  <2>1. cl[c].session \in Nat
    BY <2>0 DEF ClientType
  <2>2. CASE Tries(c, r)
    <3>1. r.session = cl[c].session + 1 /\ r.port = cl[c].port /\ r.paks = cl[c].paks
      BY <2>0, <2>2 DEF Tries, ClientType
    <3> QED BY <2>1, <3>1
  <2>3. CASE Ends(c, r)
    BY <2>1, <2>3 DEF Ends
  <2>4. CASE r = cl[c]
    BY <2>1, <2>4
  <2>5. CASE Learns(c, r)
    <3>1. r.session = cl[c].session /\ r.port = cl[c].port /\ r.paks = cl[c].paks
      BY <2>0, <2>5 DEF Learns, ClientType
    <3> QED BY <2>1, <3>1
  <2>6. CASE Enters(c, r)
    <3>1. r.session = cl[c].session /\ r.port = cl[c].port /\ r.paks = cl[c].paks
      BY <2>0, <2>6 DEF Enters, ClientType
    <3> QED BY <2>1, <3>1
  <2> QED BY <2>2, <2>3, <2>4, <2>5, <2>6 DEF ClientStays
<1>4. \A d \in Client : cl'[d].port = cl[d].port
  BY <1>1, <1>3
<1>5. \A d \in Client : Addr(d)' = Addr(d)
  BY <1>4 DEF Addr
<1>6. \A d \in Client : cl[d].session <= cl'[d].session
  <2>0. \A d \in Client : cl[d].session \in Nat
    BY DEF Types, ClientType
  <2> QED BY <1>1, <1>3, <2>0
<1>7. \A d \in Client : cl[d].paks = "ok" => cl'[d].paks = "ok"
  BY <1>1, <1>3
<1>8. \A p \in net' : p \in net \/ MessageOf(c, p)
  BY DEF ClientStep
<1>9. \A p \in UnderWay' : p \in UnderWay \/ (p \in net' /\ MessageOf(c, p))
  BY <1>8 DEF ClientStep, UnderWay
<1>10. /\ slot' = slot /\ chal' = chal /\ drawn' = drawn /\ others' = others
       /\ serverId' = serverId /\ set' = set /\ refused' = refused
  BY DEF ClientStep, serverVars
<1> QED BY <1>1, <1>2, <1>4, <1>5, <1>6, <1>7, <1>8, <1>9, <1>10

LEMMA AddrDiffers ==
  ASSUME Types, NEW c \in Client, NEW d \in Client
  PROVE  (Addr(c) = Addr(d) => c = d) /\ (ClientId(c) = ClientId(d) => c = d)
<1>1. Addr(c).port = <<c, cl[c].port>> /\ Addr(d).port = <<d, cl[d].port>>
  BY DEF Addr
<1> QED BY <1>1 DEF ClientId

LEMMA AddrOfSomebody ==
  ASSUME Types, NEW first \in Firsts, Programs(first), NEW c \in Client
  PROVE  Addr(c) # Nobody
<1>1. Addr(c).port = <<c, cl[c].port>> /\ Nobody.port = <<"none", 0>>
  BY DEF Addr, Nobody
<1>2. cl[c].port # 0
  BY DEF Types, ClientType, Programs
<1>3. <<c, cl[c].port>> # <<"none", 0>>
  BY <1>2
<1> QED BY <1>1, <1>3

LEMMA KnownStays ==
  ASSUME NEW first \in Firsts, NEW v, Known(v, first), Types, Types',
         \A d \in Client : cl'[d].port = cl[d].port /\ cl[d].session <= cl'[d].session,
         others' >= others
  PROVE  Known(v, first)'
<1>0. others \in Nat /\ others' \in Nat /\ \A d \in Client : cl[d].session \in Nat /\ cl'[d].session \in Nat
  BY DEF Types, ClientType
<1>1. CASE v.addr = Nobody /\ v.id = NoId
  BY <1>1 DEF Known
<1>2. CASE \E n \in Nat : /\ 1 <= n /\ n <= others
                          /\ v.addr = [host |-> "elsewhere", port |-> <<"other", n>>]
                          /\ v.id = <<"other", n>>
  <2>1. PICK n \in Nat : /\ 1 <= n /\ n <= others
                         /\ v.addr = [host |-> "elsewhere", port |-> <<"other", n>>]
                         /\ v.id = <<"other", n>>
    BY <1>2
  <2>2. n <= others'
    BY <1>0, <2>1
  <2> QED BY <2>1, <2>2 DEF Known
<1>3. CASE \E d \in Client, j, m \in Nat :
             /\ 1 <= j /\ j <= cl[d].session /\ 1 <= m /\ m <= cl[d].port
             /\ v.addr = [host |-> Host[d], port |-> <<d, m>>] /\ v.id = <<d, j>>
             /\ m = cl[d].port <=> j >= first[d]
  <2>1. PICK d \in Client, j \in Nat, m \in Nat :
             /\ 1 <= j /\ j <= cl[d].session /\ 1 <= m /\ m <= cl[d].port
             /\ v.addr = [host |-> Host[d], port |-> <<d, m>>] /\ v.id = <<d, j>>
             /\ m = cl[d].port <=> j >= first[d]
    BY <1>3
  <2>2. j <= cl'[d].session
    BY <1>0, <2>1
  <2>3. cl'[d].port = cl[d].port
    OBVIOUS
  <2> QED BY <2>1, <2>2, <2>3 DEF Known
<1> QED BY <1>1, <1>2, <1>3 DEF Known

LEMMA ClientTypes ==
  ASSUME Types, NEW c \in Client, NEW r \in ClientType, ClientStep(c, r), ClientStays(c, r)
  PROVE  Types'
<1>1. \A p : MessageOf(c, p) => p.type \notin {"challengeResponse", "connectResponse", "auth"}
  BY DEF MessageOf, IsToServer
<1>2. UNCHANGED <<slot, chal, drawn, others, serverId, set>> /\ cl' \in [Client -> ClientType]
  BY ClientEffects
<1>3. \A p \in UnderWay' : p \in UnderWay \/ MessageOf(c, p)
  BY ClientEffects
<1>4. \A p \in UnderWay' : p.type \in {"challengeResponse", "connectResponse", "auth"} => p \in UnderWay
  BY <1>1, <1>3
<1> QED BY <1>2, <1>4 DEF Types

LEMMA ClientPrograms ==
  ASSUME Types, NEW c \in Client, NEW r \in ClientType, ClientStep(c, r), ClientStays(c, r),
         NEW first \in Firsts, Programs(first)
  PROVE  Programs(first)'
<1>0. Types'
  BY ClientTypes
<1>1. first \in [Client -> Nat] /\ \A d \in Client : first[d] \in Nat
  BY DEF Firsts
<1>2. \A d \in Client : /\ cl[d].session \in Nat /\ cl'[d].session \in Nat
                        /\ cl'[d].port = cl[d].port /\ cl[d].session <= cl'[d].session
  BY <1>0, ClientEffects DEF Types, ClientType
<1>3. \A d \in Client : cl'[d].port >= 1 /\ first[d] <= cl'[d].session + 1
  <2>1. \A d \in Client : cl[d].port >= 1 /\ first[d] <= cl[d].session + 1
    BY DEF Programs
  <2> QED BY <1>1, <1>2, <2>1
<1>4. \A d \in Client : cl'[d].state # "DISCONNECTED" => first[d] <= cl'[d].session
  <2>1. \A d \in Client : cl[d].state # "DISCONNECTED" => first[d] <= cl[d].session
    BY DEF Programs
  <2>2. \A d \in Client : d # c => cl'[d] = cl[d]
    BY ClientEffects
  <2>3. cl'[c] = r
    BY ClientEffects
  <2>4. cl[c] \in ClientType
    BY DEF Types
  <2>5. CASE Tries(c, r)
    <3>1. r.session = cl[c].session + 1
      BY <2>4, <2>5 DEF Tries, ClientType
    <3>2. first[c] <= cl[c].session + 1
      BY DEF Programs
    <3> QED BY <2>1, <2>2, <2>3, <3>1, <3>2
  <2>6. CASE ~Tries(c, r)
    <3>1. r.session = cl[c].session /\ (r.state # "DISCONNECTED" => cl[c].state # "DISCONNECTED")
      BY <2>4, <2>6 DEF ClientStays, Ends, Learns, Enters, ClientType
    <3> QED BY <2>1, <2>2, <2>3, <3>1
  <2> QED BY <2>5, <2>6
<1>5. ASSUME NEW p \in UnderWay', IsToServer(p) PROVE FromProgram(p, first)'
  <2>1. CASE p \in UnderWay
    <3>1. PICK d \in Client, k \in Nat :
            first[d] <= k /\ k <= cl[d].session /\ p.from = Addr(d) /\ p.id = <<d, k>>
      BY <1>5, <2>1 DEF Programs, FromProgram
    <3>2. Addr(d)' = Addr(d)
      BY ClientEffects
    <3>3. k <= cl'[d].session
      BY <1>2, <3>1
    <3> QED BY <3>1, <3>2, <3>3 DEF FromProgram
  <2>2. CASE MessageOf(c, p)
    <3>1. first[c] <= cl[c].session
      BY <2>2 DEF MessageOf, Programs
    <3>2. p.from = Addr(c)' /\ p.id = <<c, cl[c].session>>
      BY <2>2, ClientEffects DEF MessageOf, ClientId
    <3> QED BY <1>2, <3>1, <3>2 DEF FromProgram
  <2> QED BY <2>1, <2>2, ClientEffects
<1>6. ASSUME NEW s \in Slot PROVE Known(slot[s], first)'
  <2>1. others' = others /\ slot' = slot /\ others \in Nat
    BY ClientEffects DEF Types
  <2>2. PICK v : v = slot[s]
    OBVIOUS
  <2>3. Known(v, first)
    BY <2>2 DEF Programs
  <2>4. Known(v, first)'
    BY <1>0, <1>2, <2>1, <2>3, KnownStays
  <2> QED BY <2>1, <2>2, <2>4 DEF Known
<1>7. \A s \in Slot : Known(slot[s], first)'
  BY <1>6
<1> QED BY <1>3, <1>4, <1>5, <1>7 DEF Programs, IsToServer

LEMMA ClientPaks ==
  ASSUME IInv, NEW c \in Client, NEW r \in ClientType, ClientStep(c, r), ClientStays(c, r)
  PROVE  Paks'
<1>0. Types /\ Paks
  BY DEF IInv
<1>1. /\ \A d \in Client : cl[d].paks = "ok" => cl'[d].paks = "ok"
      /\ \A p \in UnderWay' : p \in UnderWay \/ MessageOf(c, p)
      /\ slot' = slot /\ chal' = chal /\ set' = set
  BY <1>0, ClientEffects
<1> SUFFICES ASSUME NEW d \in Client, cl'[d].paks # "ok"
             PROVE  /\ \A p \in UnderWay' : p.type = "pureClient" => ~Of(p.from, d)
                    /\ \A i \in DOMAIN chal' : chal'[i].auth = "PUREOK" => ~Of(chal'[i].from, d)
                    /\ set'.pure => \A s \in Slot : InUse(s)' => ~Of(slot'[s].addr, d)
  BY DEF Paks, Of
<1>2. cl[d].paks # "ok"
  BY <1>1
<1>3. /\ \A p \in UnderWay : p.type = "pureClient" => ~Of(p.from, d)
      /\ \A i \in DOMAIN chal : chal[i].auth = "PUREOK" => ~Of(chal[i].from, d)
      /\ set.pure => \A s \in Slot : InUse(s) => ~Of(slot[s].addr, d)
  BY <1>0, <1>2 DEF Paks
<1>4. ASSUME NEW p \in UnderWay', p.type = "pureClient", MessageOf(c, p) PROVE ~Of(p.from, d)
  <2>1. p.from = [host |-> Host[c], port |-> <<c, cl[c].port>>] /\ cl[c].paks = "ok"
    BY <1>4 DEF MessageOf, Addr
  <2>2. c # d
    BY <1>2, <2>1
  <2>3. cl[c].port \in Nat
    BY <1>0 DEF Types, ClientType
  <2> QED BY <2>1, <2>2, <2>3, OfWhom
<1> QED BY <1>1, <1>3, <1>4 DEF InUse

\* What a session of c that is new has not done.
LEMMA NewSession ==
  ASSUME Types, NEW first \in Firsts, Programs(first), NEW c \in Client, NEW k \in Nat,
         k > cl[c].session
  PROVE  /\ \A p \in UnderWay : IsToServer(p) => p.id # <<c, k>>
         /\ \A s \in Slot : slot[s].id # <<c, k>>
<1>0. cl[c].session \in Nat /\ c # "other"
  BY HandshakeAssumption DEF Types, ClientType
<1>1. ASSUME NEW p \in UnderWay, IsToServer(p) PROVE p.id # <<c, k>>
  <2>1. PICK d \in Client, j \in Nat : j <= cl[d].session /\ p.id = <<d, j>>
    BY <1>1 DEF Programs, FromProgram
  <2> QED BY <1>0, <2>1
<1>2. ASSUME NEW s \in Slot PROVE slot[s].id # <<c, k>>
  <2>1. Known(slot[s], first)
    BY DEF Programs
  <2>2. \/ slot[s].id = <<"none", 0>>
        \/ \E n \in Nat : slot[s].id = <<"other", n>>
        \/ \E d \in Client, j \in Nat : j <= cl[d].session /\ slot[s].id = <<d, j>>
    BY <2>1 DEF Known, NoId
  <2> QED BY <1>0, <2>2
<1> QED BY <1>1, <1>2

LEMMA ClientCurrent ==
  ASSUME IInv, NEW c \in Client, NEW r \in ClientType, ClientStep(c, r), ClientStays(c, r)
  PROVE  Current'
<1>0. Types /\ Current /\ Numbered
  BY DEF IInv
<1>1. PICK first \in Firsts : Programs(first)
  BY DEF IInv
<1>2. /\ \A d \in Client : d # c => cl'[d] = cl[d] /\ ClientId(d)' = ClientId(d)
      /\ cl'[c] = r
      /\ \A p \in UnderWay' : p \in UnderWay \/ MessageOf(c, p)
      /\ slot' = slot /\ chal' = chal /\ drawn' = drawn /\ serverId' = serverId
  BY <1>0, ClientEffects
<1>3. \A p : MessageOf(c, p) => p.type # "challengeResponse"
  BY DEF MessageOf, IsToServer
<1>4. \A p \in UnderWay' : p.type = "challengeResponse" => p \in UnderWay
  BY <1>2, <1>3
<1>5. cl[c] \in ClientType /\ drawn \in Nat /\ cl[c].challenge \in Nat
  BY <1>0 DEF Types, ClientType
<1>new. /\ \A p \in UnderWay : IsToServer(p) => p.id # <<c, cl[c].session + 1>>
        /\ \A s \in Slot : slot[s].id # <<c, cl[c].session + 1>>
  <2>0. cl[c].session \in Nat
    BY <1>5 DEF ClientType
  <2>new. PICK n \in Nat : n = cl[c].session
    BY <2>0
  <2>next. n + 1 \in Nat /\ n + 1 > n
    OBVIOUS
  <2>1. PICK k \in Nat : k = cl[c].session + 1 /\ k > cl[c].session
    BY <2>new, <2>next
  <2>2. /\ \A p \in UnderWay : IsToServer(p) => p.id # <<c, k>>
        /\ \A s \in Slot : slot[s].id # <<c, k>>
    BY <1>0, <1>1, <2>1, NewSession
  <2> QED BY <2>1, <2>2
<1>6. \/ r.challenge = 0
      \/ r.challenge = cl[c].challenge /\ r.serverId = cl[c].serverId
      \/ \E p \in UnderWay : /\ p.type = "challengeResponse"
                             /\ r.challenge = p.challenge /\ r.serverId = p.serverId
  BY <1>5 DEF ClientStays, Tries, Ends, Learns, Enters, ClientType
<1>7. \A d \in Client : cl'[d].challenge <= drawn
  BY <1>0, <1>2, <1>5, <1>6 DEF Current
<1>8. \A d \in Client, i \in DOMAIN chal :
        cl'[d].challenge = chal[i].challenge => cl'[d].serverId = serverId
  <2>1. \A i \in DOMAIN chal : chal[i].challenge # 0
    BY <1>0 DEF Numbered
  <2> QED BY <1>0, <1>2, <1>6, <2>1 DEF Current
\* The id of c is new, or it waits as before, or has only now begun to.
<1>9. \/ Tries(c, r) /\ ClientId(c)' = <<c, cl[c].session + 1>>
      \/ /\ ClientId(c)' = ClientId(c)
         /\ r.state # "CHALLENGING" \/ cl[c].state = "CHALLENGING"
         /\ \/ r.state \notin {"CONNECTING", "CONNECTED"}
            \/ cl[c].state = "CHALLENGING"
            \/ Waiting(c) /\ r.challenge = cl[c].challenge /\ r.serverId = cl[c].serverId
  <2>1. CASE Tries(c, r)
    <3>1. r.session = cl[c].session + 1
      BY <1>5, <2>1 DEF Tries, ClientType
    <3> QED BY <1>2, <2>1, <3>1 DEF ClientId
  <2>2. CASE ~Tries(c, r)
    <3>1. r.session = cl[c].session
      BY <1>5, <2>2 DEF ClientStays, Ends, Learns, Enters, ClientType
    <3>2. /\ r.state # "CHALLENGING" \/ cl[c].state = "CHALLENGING"
          /\ \/ r.state \notin {"CONNECTING", "CONNECTED"}
             \/ cl[c].state = "CHALLENGING"
             \/ /\ cl[c].state \in {"CONNECTING", "CONNECTED"}
                /\ r.challenge = cl[c].challenge /\ r.serverId = cl[c].serverId
      BY <1>5, <2>2 DEF ClientStays, Ends, Learns, Enters, ClientType
    <3> QED BY <1>2, <3>1, <3>2 DEF ClientId, Waiting
  <2> QED BY <2>1, <2>2
<1>10. ASSUME NEW p \in UnderWay', p.type = "connect", p.id = ClientId(c)'
       PROVE  /\ r.state # "CHALLENGING"
              /\ r.state \in {"CONNECTING", "CONNECTED"} => p.challenge = r.challenge
  <2>1. CASE Tries(c, r) /\ ClientId(c)' = <<c, cl[c].session + 1>>
    <3>0. cl[c].session \in Nat
      BY <1>5 DEF ClientType
    <3>1. p.id = <<c, cl[c].session + 1>>
      BY <1>10, <2>1
    <3>2. CASE p \in UnderWay
      <4>1. IsToServer(p)
        BY <1>10 DEF IsToServer
      <4> QED BY <1>new, <3>1, <3>2, <4>1
    <3>3. CASE MessageOf(c, p)
      <4>1. p.id = <<c, cl[c].session>>
        BY <3>3 DEF MessageOf, ClientId
      <4> QED BY <3>0, <3>1, <4>1
    <3> QED BY <1>2, <3>2, <3>3
  <2>2. CASE ~(Tries(c, r) /\ ClientId(c)' = <<c, cl[c].session + 1>>)
    <3>1. CASE p \in UnderWay
      <4>1. cl[c].state # "CHALLENGING" /\ (Waiting(c) => p.challenge = cl[c].challenge)
        BY <1>0, <1>9, <1>10, <2>2, <3>1 DEF Current
      <4> QED BY <1>9, <2>2, <4>1
    <3>2. CASE MessageOf(c, p)
      <4>1. cl[c].state = "CONNECTING" /\ p.challenge = cl[c].challenge
        BY <1>10, <3>2 DEF MessageOf
      <4> QED BY <1>9, <2>2, <4>1
    <3> QED BY <1>2, <3>1, <3>2
  <2> QED BY <2>1, <2>2
<1>11. ASSUME NEW d \in Client, d # c, NEW p \in UnderWay', p.type = "connect", p.id = ClientId(d)
       PROVE  cl[d].state # "CHALLENGING" /\ (Waiting(d) => p.challenge = cl[d].challenge)
  <2>1. ~MessageOf(c, p)
    BY <1>0, <1>11, AddrDiffers DEF MessageOf
  <2> QED BY <1>0, <1>2, <1>11, <2>1 DEF Current
<1>12. ASSUME NEW s \in Slot, slot[s].id = ClientId(c)'
       PROVE  /\ r.state # "CHALLENGING"
              /\ r.state \in {"CONNECTING", "CONNECTED"} => r.serverId = serverId
  <2>1. CASE Tries(c, r) /\ ClientId(c)' = <<c, cl[c].session + 1>>
    <3> QED BY <1>new, <1>12, <2>1
  <2>2. CASE ~(Tries(c, r) /\ ClientId(c)' = <<c, cl[c].session + 1>>)
    <3>1. cl[c].state # "CHALLENGING" /\ (Waiting(c) => cl[c].serverId = serverId)
      BY <1>0, <1>9, <1>12, <2>2 DEF Current
    <3> QED BY <1>9, <2>2, <3>1
  <2> QED BY <2>1, <2>2
<1>13. \A p \in UnderWay', d \in Client :
         p.type = "connect" /\ p.id = ClientId(d)' =>
           cl'[d].state # "CHALLENGING" /\ (Waiting(d)' => p.challenge = cl'[d].challenge)
  BY <1>2, <1>10, <1>11 DEF Waiting
<1>14. \A s \in Slot, d \in Client :
         slot'[s].id = ClientId(d)' =>
           cl'[d].state # "CHALLENGING" /\ (Waiting(d)' => cl'[d].serverId = serverId)
  <2>1. ASSUME NEW s \in Slot, NEW d \in Client, d # c, slot'[s].id = ClientId(d)'
        PROVE  cl'[d].state # "CHALLENGING" /\ (Waiting(d)' => cl'[d].serverId = serverId)
    BY <1>0, <1>2, <2>1 DEF Current, Waiting
  <2>2. ASSUME NEW s \in Slot, slot'[s].id = ClientId(c)'
        PROVE  cl'[c].state # "CHALLENGING" /\ (Waiting(c)' => cl'[c].serverId = serverId)
    BY <1>2, <1>12, <2>2 DEF Waiting
  <2> QED BY <2>1, <2>2
<1>15. \A p \in UnderWay' : p.type = "challengeResponse" => 1 <= p.challenge /\ p.challenge <= drawn
  BY <1>0, <1>4 DEF Current
<1>16. \A p \in UnderWay', i \in DOMAIN chal :
         p.type = "challengeResponse" /\ p.challenge = chal[i].challenge => p.serverId = serverId
  BY <1>0, <1>4 DEF Current
<1> QED BY <1>2, <1>7, <1>8, <1>13, <1>14, <1>15, <1>16 DEF Current

LEMMA KeptLonger ==
  ASSUME Types, NEW s \in Slot, NEW c \in Client, NEW m \in Nat, NEW n \in Nat, Kept(s, c, m), m <= n
  PROVE  Kept(s, c, n)
<1>1. slot[s].silent \in Nat
  BY DEF Types, SlotType
<1> QED BY <1>1 DEF Kept

LEMMA ClientAnswers ==
  ASSUME IInv, NEW c \in Client, NEW r \in ClientType, ClientStep(c, r), ClientStays(c, r)
  PROVE  Answers'
<1>0. Types /\ Answers /\ Apart /\ Current
  BY DEF IInv
<1>1. PICK first \in Firsts : Programs(first)
  BY DEF IInv
<1>2. /\ \A d \in Client : d # c => cl'[d] = cl[d] /\ ClientId(d)' = ClientId(d)
      /\ cl'[c] = r
      /\ \A d \in Client : Addr(d)' = Addr(d)
      /\ \A p \in UnderWay' : p \in UnderWay \/ (p \in net' /\ MessageOf(c, p))
      /\ \A p \in net' : p \in net \/ MessageOf(c, p)
      /\ slot' = slot
  BY <1>0, ClientEffects
<1>3. \A s \in Slot, d \in Client, n \in Nat : Kept(s, d, n)' <=> Kept(s, d, n)
  BY <1>2 DEF Kept
<1>4. \A p : MessageOf(c, p) => p.type # "connectResponse" /\ p.id = ClientId(c)
  BY DEF MessageOf, IsToServer
<1>5. ASSUME NEW p \in UnderWay', p.type = "connectResponse"
      PROVE  \E d \in Client : p.to = Addr(d)' /\ Kept(p.clientNum, d, IF p \in net THEN 0 ELSE 1)'
  <2>1. p \in UnderWay /\ (p \in net' => p \in net)
    BY <1>2, <1>4, <1>5
  <2>2. p.clientNum \in Slot
    BY <1>0, <1>5, <2>1 DEF Types
  <2>3. PICK d \in Client : p.to = Addr(d) /\ Kept(p.clientNum, d, IF p \in net THEN 0 ELSE 1)
    BY <1>0, <1>5, <2>1 DEF Answers
  <2>4. Kept(p.clientNum, d, 1) /\ (p \in net' => Kept(p.clientNum, d, 0))
    BY <1>0, <2>1, <2>2, <2>3, KeptLonger
  <2>5. Kept(p.clientNum, d, IF p \in net THEN 0 ELSE 1)'
    BY <1>2, <2>4 DEF Kept
  <2> QED BY <1>2, <2>3, <2>5
<1>6. ASSUME NEW p \in UnderWay', NEW d \in Client, p.type = "connect", p.id = ClientId(d)',
             cl'[d].state = "CONNECTED"
      PROVE  Kept(cl'[d].clientNum, d, IF p \in net' THEN 1 ELSE 2)
  <2>1. CASE cl'[d] = cl[d] /\ ClientId(d)' = ClientId(d)
    <3>1. ~MessageOf(c, p)
      BY <1>0, <1>6, <2>1, AddrDiffers DEF MessageOf
    <3>2. p \in UnderWay /\ (p \in net' => p \in net)
      BY <1>2, <3>1
    <3>3. Kept(cl[d].clientNum, d, IF p \in net THEN 1 ELSE 2)
      BY <1>0, <1>6, <2>1, <3>2 DEF Answers, Connected
    <3>4. cl[d].clientNum \in Slot
      BY <1>0 DEF Types, ClientType
    <3>5. Kept(cl[d].clientNum, d, 2) /\ (p \in net' => Kept(cl[d].clientNum, d, 1))
      BY <1>0, <3>2, <3>3, <3>4, KeptLonger
    <3> QED BY <2>1, <3>5
  <2>2. CASE d = c /\ Enters(c, r)
    <3>1. PICK q \in UnderWay :
            /\ q.type = "connectResponse" /\ q.to = Addr(c)
            /\ r = [cl[c] EXCEPT !.state = "CONNECTED", !.clientNum = q.clientNum]
      BY <2>2 DEF Enters
    <3>2. r.clientNum = q.clientNum /\ q.clientNum \in Slot
      BY <1>0, <3>1 DEF Types, ClientType
    <3>3. PICK e \in Client : q.to = Addr(e) /\ Kept(q.clientNum, e, IF q \in net THEN 0 ELSE 1)
      BY <1>0, <3>1 DEF Answers
    <3>4. e = c
      BY <1>0, <3>1, <3>3, AddrDiffers
    <3>5. Kept(q.clientNum, c, 1) /\ Kept(q.clientNum, c, 2)
      BY <1>0, <3>2, <3>3, <3>4, KeptLonger
    <3> QED BY <1>2, <2>2, <3>2, <3>5
  <2>3. d # c \/ r = cl[c] \/ Enters(c, r)
    BY <1>0, <1>2, <1>6 DEF ClientStays, Tries, Ends, Learns, Types, ClientType
  <2>4. d # c \/ r = cl[c] => cl'[d] = cl[d] /\ ClientId(d)' = ClientId(d)
    BY <1>2 DEF ClientId
  <2>5. d = c \/ (cl'[d] = cl[d] /\ ClientId(d)' = ClientId(d))
    BY <1>2
  <2> QED BY <2>1, <2>2, <2>3, <2>4, <2>5
<1>7. ASSUME NEW d \in Client, NEW s \in Slot, cl'[d].state = "CONNECTED",
             slot[s].addr = Addr(d), slot[s].id = ClientId(d)'
      PROVE  cl'[d].clientNum = s
  <2>1. CASE cl'[d] = cl[d] /\ ClientId(d)' = ClientId(d)
    BY <1>0, <1>7, <2>1 DEF Answers, Connected
  <2>2. CASE d = c /\ Enters(c, r)
    <3>1. PICK q \in UnderWay :
            /\ q.type = "connectResponse" /\ q.to = Addr(c)
            /\ r = [cl[c] EXCEPT !.state = "CONNECTED", !.clientNum = q.clientNum]
      BY <2>2 DEF Enters
    <3>2. r.clientNum = q.clientNum /\ q.clientNum \in Slot
      BY <1>0, <3>1 DEF Types, ClientType
    <3>3. slot[q.clientNum].addr = Addr(c)
      BY <1>0, <3>1 DEF Answers, Kept
    <3>4. q.clientNum = s
      BY <1>0, <1>1, <1>7, <2>2, <3>2, <3>3, AddrOfSomebody DEF Apart
    <3> QED BY <1>2, <2>2, <3>2, <3>4
  <2>3. d # c \/ r = cl[c] \/ Enters(c, r)
    BY <1>0, <1>2, <1>7 DEF ClientStays, Tries, Ends, Learns, Types, ClientType
  <2>4. d # c \/ r = cl[c] => cl'[d] = cl[d] /\ ClientId(d)' = ClientId(d)
    BY <1>2 DEF ClientId
  <2> QED BY <2>1, <2>2, <2>3, <2>4
<1>8. \A p \in UnderWay', d \in Client :
        p.type = "connect" /\ p.id = ClientId(d)' /\ Connected(d)' =>
          Kept(cl[d].clientNum, d, IF p \in net THEN 1 ELSE 2)'
  BY <1>2, <1>6 DEF Connected, Kept
<1>9. \A d \in Client, s \in Slot :
        Connected(d)' /\ slot'[s].addr = Addr(d)' /\ slot'[s].id = ClientId(d)' =>
          cl'[d].clientNum = s
  BY <1>2, <1>7 DEF Connected
<1>10. \A p \in UnderWay' : p.type = "connectResponse" =>
         \E d \in Client : p.to = Addr(d)' /\ Kept(p.clientNum, d, IF p \in net THEN 0 ELSE 1)'
  BY <1>5
<1> QED BY <1>8, <1>9, <1>10 DEF Answers

LEMMA ClientKeeps ==
  ASSUME IInv, NEW c \in Client, Client1(c)
  PROVE  IInv'
<1>0. Types
  BY DEF IInv
<1>1. PICK r \in ClientType : ClientStep(c, r) /\ ClientStays(c, r)
  BY <1>0, ClientSteps DEF ClientStays
<1>2. Types' /\ Paks' /\ Current' /\ Answers'
  BY <1>0, <1>1, ClientTypes, ClientPaks, ClientCurrent, ClientAnswers
<1>3. \E first \in Firsts : Programs(first)'
  BY <1>0, <1>1, ClientPrograms DEF IInv
<1>4. slot' = slot /\ chal' = chal /\ drawn' = drawn /\ refused' = refused
  BY <1>0, <1>1, ClientEffects
<1>5. Apart' /\ Numbered' /\ Refusals'
  BY <1>4 DEF IInv, Apart, Numbered, Refusals, KeyChecked, InUse
<1> QED BY <1>2, <1>3, <1>5 DEF IInv, Firsts

LEMMA CrashKeeps ==
  ASSUME IInv, NEW c \in Client, Crash(c)
  PROVE  IInv'
<1> DEFINE Others(p) == /\ IsToClient(p) => p.to # Addr(c)
                        /\ IsToServer(p) => p.from # Addr(c)
<1>0. Types /\ Apart /\ Paks /\ Numbered /\ Refusals /\ Current /\ Answers
  BY DEF IInv
<1>1. /\ \A p \in UnderWay' : p \in UnderWay /\ Others(p) /\ (p \in net' => p \in net)
      /\ \A p \in net' : p \in net
  BY DEF Crash, UnderWay
<1>2. /\ slot' = slot /\ chal' = chal /\ drawn' = drawn /\ others' = others
      /\ serverId' = serverId /\ set' = set /\ refused' = refused
  BY DEF Crash, serverVars
<1>3. /\ cl' \in [Client -> ClientType]
      /\ cl'[c] = [cl[c] EXCEPT !.state = "DISCONNECTED", !.port = @ + 1]
      /\ \A d \in Client : d # c => cl'[d] = cl[d]
  <2>1. cl \in [Client -> ClientType]
    BY <1>0 DEF Types
  <2>2. cl' = [cl EXCEPT ![c] = [cl[c] EXCEPT !.state = "DISCONNECTED", !.port = @ + 1]]
    BY <2>1 DEF Crash
  <2>3. cl[c] \in ClientType
    BY <2>1
  <2> DEFINE r == [cl[c] EXCEPT !.state = "DISCONNECTED", !.port = @ + 1]
  <2>4. r = [cl[c] EXCEPT !.state = "DISCONNECTED", !.port = @ + 1]
    OBVIOUS
  <2> HIDE DEF r
  <2>5. r = [state |-> "DISCONNECTED", session |-> cl[c].session, port |-> cl[c].port + 1,
             challenge |-> cl[c].challenge, serverId |-> cl[c].serverId,
             clientNum |-> cl[c].clientNum, paks |-> cl[c].paks]
    BY <2>3, <2>4 DEF ClientType
  <2>6. r \in ClientType
    BY <2>3, <2>5 DEF ClientType, ClientStates
  <2>7. [cl[c] EXCEPT !.state = "DISCONNECTED", !.port = @ + 1] \in ClientType
    BY <2>4, <2>6
  <2> QED BY <2>1, <2>2, <2>7
<1>4. /\ cl'[c].state = "DISCONNECTED" /\ cl'[c].port = cl[c].port + 1
      /\ cl'[c].session = cl[c].session /\ cl'[c].challenge = cl[c].challenge
      /\ cl'[c].serverId = cl[c].serverId /\ cl'[c].paks = cl[c].paks
      /\ cl[c].port \in Nat /\ cl[c].session \in Nat
  <2>1. cl[c] \in ClientType
    BY <1>0 DEF Types
  <2> QED BY <1>3, <2>1 DEF ClientType
<1>5. \A d \in Client : d # c => Addr(d)' = Addr(d)
  BY <1>3 DEF Addr
<1>6. \A d \in Client : ClientId(d)' = ClientId(d)
  BY <1>3, <1>4 DEF ClientId
<1>7. Types'
  BY <1>0, <1>1, <1>2, <1>3 DEF Types
<1>8. \E first \in Firsts : Programs(first)'
  <2>1. PICK first \in Firsts : Programs(first)
    BY DEF IInv
  <2>2. PICK next \in Firsts :
          next[c] = cl[c].session + 1 /\ \A d \in Client : d # c => next[d] = first[d]
    <3>1. [first EXCEPT ![c] = cl[c].session + 1] \in Firsts
      BY <1>4 DEF Firsts
    <3>2. [first EXCEPT ![c] = cl[c].session + 1][c] = cl[c].session + 1
      BY DEF Firsts
    <3>3. \A d \in Client : d # c => [first EXCEPT ![c] = cl[c].session + 1][d] = first[d]
      BY DEF Firsts
    <3> QED BY <3>1, <3>2, <3>3
  <2>3. \A d \in Client : cl'[d].port >= 1 /\ next[d] <= cl'[d].session + 1
    <3>1. \A d \in Client : cl[d].port >= 1 /\ first[d] <= cl[d].session + 1
      BY <2>1 DEF Programs
    <3>2. \A d \in Client : d # c => cl'[d].port >= 1 /\ next[d] <= cl'[d].session + 1
      BY <1>3, <2>2, <3>1
    <3>3. cl'[c].port >= 1 /\ next[c] <= cl'[c].session + 1
      BY <1>4, <2>2
    <3> QED BY <3>2, <3>3
  <2>4. \A d \in Client : cl'[d].state # "DISCONNECTED" => next[d] <= cl'[d].session
    BY <1>3, <1>4, <2>1, <2>2 DEF Programs
  <2>5. ASSUME NEW p \in UnderWay', IsToServer(p) PROVE FromProgram(p, next)'
    <3>1. PICK d \in Client, k \in Nat :
            first[d] <= k /\ k <= cl[d].session /\ p.from = Addr(d) /\ p.id = <<d, k>>
      BY <1>1, <2>1, <2>5 DEF Programs, FromProgram
    <3>2. d # c
      BY <1>1, <2>5, <3>1
    <3> QED BY <1>3, <1>5, <2>2, <3>1, <3>2 DEF FromProgram
  <2>6. ASSUME NEW s \in Slot PROVE Known(slot[s], next)'
    <3>1. Known(slot[s], first)
      BY <2>1 DEF Programs
    <3>2. CASE slot[s].addr = Nobody /\ slot[s].id = NoId
      BY <1>2, <3>2 DEF Known
    <3>3. CASE \E n \in Nat : /\ 1 <= n /\ n <= others
                              /\ slot[s].addr = [host |-> "elsewhere", port |-> <<"other", n>>]
                              /\ slot[s].id = <<"other", n>>
      BY <1>2, <3>3 DEF Known
    <3>4. CASE \E d \in Client, j, m \in Nat :
             /\ 1 <= j /\ j <= cl[d].session /\ 1 <= m /\ m <= cl[d].port
             /\ slot[s].addr = [host |-> Host[d], port |-> <<d, m>>] /\ slot[s].id = <<d, j>>
             /\ m = cl[d].port <=> j >= first[d]
      <4>1. PICK d \in Client, j \in Nat, m \in Nat :
             /\ 1 <= j /\ j <= cl[d].session /\ 1 <= m /\ m <= cl[d].port
             /\ slot[s].addr = [host |-> Host[d], port |-> <<d, m>>] /\ slot[s].id = <<d, j>>
             /\ m = cl[d].port <=> j >= first[d]
        BY <3>4
      <4>2. j <= cl'[d].session /\ m <= cl'[d].port /\ (m = cl'[d].port <=> j >= next[d])
        <5>1. CASE d = c
          BY <1>4, <2>2, <4>1, <5>1
        <5>2. CASE d # c
          BY <1>3, <2>2, <4>1, <5>2
        <5> QED BY <5>1, <5>2
      <4> QED BY <1>2, <4>1, <4>2 DEF Known
    <3> QED BY <3>1, <3>2, <3>3, <3>4 DEF Known
  <2>7. Programs(next)'
    BY <2>3, <2>4, <2>5, <2>6 DEF Programs, IsToServer
  <2> QED BY <2>7
<1>9. Apart' /\ Numbered' /\ Refusals'
  BY <1>0, <1>2 DEF Apart, Numbered, Refusals, KeyChecked, InUse
<1>10. Paks'
  <2>1. \A d \in Client : cl'[d].paks = cl[d].paks
    BY <1>3, <1>4
  <2> QED BY <1>0, <1>1, <1>2, <2>1 DEF Paks, InUse, Of
<1>11. Current'
  <2>1. \A d \in Client : cl'[d].challenge = cl[d].challenge /\ cl'[d].serverId = cl[d].serverId
    BY <1>3, <1>4
  <2>2. \A d \in Client :
          /\ cl'[d].state = "CHALLENGING" => cl[d].state = "CHALLENGING"
          /\ Waiting(d)' => Waiting(d)
    BY <1>3, <1>4 DEF Waiting
  <2> QED BY <1>0, <1>1, <1>2, <1>6, <2>1, <2>2 DEF Current
<1>12. Answers'
  <2>1. \A d \in Client : Connected(d)' => d # c /\ Connected(d) /\ cl'[d] = cl[d] /\ cl[d].clientNum \in Slot
    BY <1>0, <1>3, <1>4 DEF Connected, Types, ClientType
  <2>2. \A s \in Slot, d \in Client, n \in Nat : d # c => (Kept(s, d, n)' <=> Kept(s, d, n))
    BY <1>2, <1>5 DEF Kept
  <2>3. ASSUME NEW p \in UnderWay', p.type = "connectResponse"
        PROVE  \E d \in Client : p.to = Addr(d)' /\ Kept(p.clientNum, d, IF p \in net THEN 0 ELSE 1)'
    <3>1. p.clientNum \in Slot
      BY <1>0, <1>1, <2>3 DEF Types
    <3>2. PICK d \in Client : p.to = Addr(d) /\ Kept(p.clientNum, d, IF p \in net THEN 0 ELSE 1)
      BY <1>0, <1>1, <2>3 DEF Answers
    <3>3. d # c
      BY <1>1, <2>3, <3>2 DEF IsToClient
    <3>4. Kept(p.clientNum, d, 1) /\ (p \in net' => Kept(p.clientNum, d, 0))
      BY <1>0, <1>1, <3>1, <3>2, KeptLonger
    <3>5. Kept(p.clientNum, d, IF p \in net THEN 0 ELSE 1)'
      BY <1>2, <1>5, <3>3, <3>4 DEF Kept
    <3> QED BY <1>5, <3>2, <3>3, <3>5
  <2>4. ASSUME NEW p \in UnderWay', NEW d \in Client, p.type = "connect", p.id = ClientId(d),
               Connected(d)'
        PROVE  Kept(cl[d].clientNum, d, IF p \in net THEN 1 ELSE 2)'
    <3>1. Kept(cl[d].clientNum, d, IF p \in net THEN 1 ELSE 2)
      BY <1>0, <1>1, <2>1, <2>4 DEF Answers
    <3>2. Kept(cl[d].clientNum, d, 2) /\ (p \in net' => Kept(cl[d].clientNum, d, 1))
      BY <1>0, <1>1, <2>1, <2>4, <3>1, KeptLonger
    <3> QED BY <1>2, <1>5, <2>1, <2>4, <3>2 DEF Kept
  <2>5. \A d \in Client, s \in Slot :
          Connected(d)' /\ slot'[s].addr = Addr(d)' /\ slot'[s].id = ClientId(d)' =>
            cl'[d].clientNum = s
    BY <1>0, <1>2, <1>5, <1>6, <2>1 DEF Answers
  <2> QED BY <1>6, <2>3, <2>4, <2>5 DEF Answers
<1> QED BY <1>7, <1>8, <1>9, <1>10, <1>11, <1>12 DEF IInv, Firsts

-----------------------------------------------------------------------------
(* The steps of the server that give nobody a slot *)

\* Nothing new is under way but what no invariant looks at, the number of a
\* challenge told again, and answers of the master server.
Harmless(p) ==
  \/ p.type \in {"disconnect", "badChallenge", "pureServer", "serverSequenced", "srvAuth"}
  \/ p.type = "auth" /\ p.reply \in {"OK", "WAIT", "DENY"}
  \/ /\ p.type = "challengeResponse" /\ p.serverId = serverId
     /\ \E i \in DOMAIN chal : p.challenge = chal[i].challenge

HarmlessMail ==
  /\ \A p \in net' : p \in net \/ Harmless(p)
  /\ late' \subseteq late

SlotsKept ==
  /\ slot' \in [Slot -> SlotType]
  /\ \A s \in Slot :
       /\ slot'[s].addr = slot[s].addr /\ slot'[s].id = slot[s].id
       /\ slot'[s].challenge \in {slot[s].challenge, 0}
       /\ slot'[s].state = "CONNECTED" => InUse(s) /\ slot'[s].challenge = slot[s].challenge
       /\ slot[s].state # "FREE" /\ slot[s].silent <= 2 =>
            slot'[s].state # "FREE" /\ slot'[s].silent <= slot[s].silent

ChallengesKept ==
  /\ chal' \in Seq(ChallengeType)
  /\ DOMAIN chal' = DOMAIN chal
  /\ \A i \in DOMAIN chal :
       /\ chal'[i].challenge = chal[i].challenge /\ chal'[i].from = chal[i].from
       /\ chal'[i].auth = "PUREOK" =>
            chal[i].auth = "PUREOK" \/ \A c \in Client : Of(chal[i].from, c) => cl[c].paks = "ok"
       /\ chal'[i].auth \in {"WAIT", "ONLYLAN"} => chal[i].from.host \notin Lan
       /\ chal[i].challenge \in refused' =>
            chal'[i].auth \in {"WAIT", "ONLYLAN"} /\ chal'[i].reply # "NONE"
  /\ \A n \in refused' : n \in refused \/ \E i \in DOMAIN chal : n = chal[i].challenge

LEMMA SameSlots ==
  ASSUME Types, slot' = slot
  PROVE  SlotsKept
<1>1. \A s \in Slot : slot[s].silent \in Nat
  BY DEF Types, SlotType
<1> QED BY <1>1 DEF Types, SlotsKept, InUse

LEMMA SameChallenges ==
  ASSUME Types, Refusals, chal' = chal, refused' = refused
  PROVE  ChallengesKept
BY DEF Types, ChallengesKept, Refusals

LEMMA ProgramsStay ==
  ASSUME IInv, UNCHANGED <<cl, others>>, \A p \in UnderWay' : IsToServer(p) => p \in UnderWay,
         \A s \in Slot : slot'[s].addr = slot[s].addr /\ slot'[s].id = slot[s].id
  PROVE  \E first \in Firsts : Programs(first)'
<1>1. PICK first \in Firsts : Programs(first)
  BY DEF IInv
<1>2. \A c \in Client : Addr(c)' = Addr(c)
  BY DEF Addr
<1>3. \A p \in UnderWay' : IsToServer(p) => FromProgram(p, first)'
  BY <1>1, <1>2 DEF Programs, FromProgram
<1>4. \A s \in Slot : Known(slot[s], first)'
  <2> SUFFICES ASSUME NEW s \in Slot PROVE Known(slot[s], first)'
    OBVIOUS
  <2>1. Known(slot[s], first) /\ slot'[s].addr = slot[s].addr /\ slot'[s].id = slot[s].id
    BY <1>1 DEF Programs
  <2> QED BY <2>1 DEF Known
<1>5. Programs(first)'
  BY <1>1, <1>3, <1>4 DEF Programs, IsToServer
<1> QED BY <1>5

LEMMA AnswersStay ==
  ASSUME IInv, cl' = cl,
         \A p \in UnderWay' : p.type \in {"connect", "connectResponse"} =>
           \/ p \in UnderWay /\ (p \in net' => p \in net)
           \/ /\ p.type = "connectResponse" /\ p \in net'
              /\ \E c \in Client : p.to = Addr(c) /\ Kept(p.clientNum, c, 0)',
         \A s \in Slot, c \in Client, n \in {0, 1, 2} : Kept(s, c, n) => Kept(s, c, n)',
         \A c \in Client, s \in Slot :
           Connected(c) /\ slot'[s].addr = Addr(c) /\ slot'[s].id = ClientId(c) => cl[c].clientNum = s
  PROVE  Answers'
<1>0. Types /\ Answers
  BY DEF IInv
<1>1. \A c \in Client : Addr(c)' = Addr(c) /\ ClientId(c)' = ClientId(c)
  BY DEF Addr, ClientId
<1>2. ASSUME NEW p \in UnderWay', p.type = "connectResponse"
      PROVE  \E c \in Client : p.to = Addr(c)' /\ Kept(p.clientNum, c, IF p \in net THEN 0 ELSE 1)'
  <2>1. CASE p \in UnderWay /\ (p \in net' => p \in net)
    <3>0. p \in UnderWay /\ (p \in net' => p \in net) /\ p.clientNum \in Slot
      BY <1>0, <1>2, <2>1 DEF Types
    <3>1. PICK c \in Client : p.to = Addr(c) /\ Kept(p.clientNum, c, IF p \in net THEN 0 ELSE 1)
      BY <1>0, <1>2, <3>0 DEF Answers
    <3>2. Kept(p.clientNum, c, 1) /\ (p \in net' => Kept(p.clientNum, c, 0))
      BY <1>0, <3>0, <3>1, KeptLonger
    <3>3. Kept(p.clientNum, c, 1)' /\ (p \in net' => Kept(p.clientNum, c, 0)')
      BY <3>0, <3>2
    <3> QED BY <1>1, <3>1, <3>3
  <2>2. CASE p \in net' /\ \E c \in Client : p.to = Addr(c) /\ Kept(p.clientNum, c, 0)'
    BY <1>1, <2>2
  <2> QED BY <1>2, <2>1, <2>2
<1>3. ASSUME NEW p \in UnderWay', NEW c \in Client, p.type = "connect", p.id = ClientId(c),
             Connected(c)
      PROVE  Kept(cl[c].clientNum, c, IF p \in net THEN 1 ELSE 2)'
  <2>0. p \in UnderWay /\ (p \in net' => p \in net)
    BY <1>3
  <2>1. Kept(cl[c].clientNum, c, IF p \in net THEN 1 ELSE 2) /\ cl[c].clientNum \in Slot
    BY <1>0, <1>3, <2>0 DEF Answers, Types, ClientType
  <2>2. Kept(cl[c].clientNum, c, 2) /\ (p \in net' => Kept(cl[c].clientNum, c, 1))
    BY <1>0, <2>0, <2>1, KeptLonger
  <2>3. PICK n \in Slot : n = cl[c].clientNum
    BY <2>1
  <2>4. Kept(n, c, 2)' /\ (p \in net' => Kept(n, c, 1)')
    BY <2>2, <2>3
  <2> QED BY <2>3, <2>4
<1> QED BY <1>1, <1>2, <1>3 DEF Answers, Connected

LEMMA QuietStep ==
  ASSUME IInv, HarmlessMail, SlotsKept, ChallengesKept,
         UNCHANGED <<set, cl, drawn, others, serverId>>
  PROVE  IInv'
<1>0. Types /\ Apart /\ Paks /\ Numbered /\ Refusals /\ Current /\ Answers
  BY DEF IInv
<1>1. /\ \A p \in UnderWay' : p \in UnderWay \/ (p \in net' /\ Harmless(p))
      /\ \A p \in net' : p \in net \/ Harmless(p)
  BY DEF HarmlessMail, UnderWay
<1>2. \A p : Harmless(p) => ~IsToServer(p) /\ p.type # "connectResponse"
  BY DEF Harmless, IsToServer
<1>3. \A p \in UnderWay' : IsToServer(p) \/ p.type = "connectResponse" => p \in UnderWay
  BY <1>1, <1>2
<1>4. \A c \in Client : Addr(c)' = Addr(c) /\ ClientId(c)' = ClientId(c)
  BY DEF Addr, ClientId
<1>5. \A p \in UnderWay' : p.type = "challengeResponse" =>
        \/ p \in UnderWay
        \/ p.serverId = serverId /\ \E i \in DOMAIN chal : p.challenge = chal[i].challenge
  BY <1>1 DEF Harmless
<1>6. \A i \in DOMAIN chal : chal[i].challenge \in Nat
  <2>1. chal \in Seq(ChallengeType)
    BY <1>0 DEF Types
  <2>2. \A i \in DOMAIN chal : chal[i] \in ChallengeType
    BY <2>1
  <2> QED BY <2>2 DEF ChallengeType
<1>7. Types'
  <2>1. serverId \in Nat
    BY <1>0 DEF Types
  <2>2. \A p \in UnderWay' : p.type = "challengeResponse" => p.challenge \in Nat /\ p.serverId \in Nat
    BY <1>0, <1>5, <1>6, <2>1 DEF Types
  <2>3. \A p \in UnderWay' : p.type = "connectResponse" => p.clientNum \in Slot
    BY <1>0, <1>3 DEF Types
  <2>4. \A p \in UnderWay' : p.type = "auth" => p.reply \in {"OK", "WAIT", "DENY"}
    BY <1>0, <1>1 DEF Types, Harmless
  <2> QED BY <1>0, <2>2, <2>3, <2>4 DEF Types, SlotsKept, ChallengesKept
<1>8. \E first \in Firsts : Programs(first)'
  BY <1>3, ProgramsStay DEF SlotsKept
<1>9. Apart'
  BY <1>0 DEF Apart, SlotsKept, InUse
<1>10. Paks'
  <2> SUFFICES ASSUME NEW c \in Client, cl[c].paks # "ok"
               PROVE  /\ \A p \in UnderWay' : p.type = "pureClient" => ~Of(p.from, c)
                      /\ \A i \in DOMAIN chal' : chal'[i].auth = "PUREOK" => ~Of(chal'[i].from, c)
                      /\ set.pure => \A s \in Slot : InUse(s)' => ~Of(slot'[s].addr, c)
    BY DEF Paks, Of
  <2>1. \A p \in UnderWay' : p.type = "pureClient" => ~Of(p.from, c)
    BY <1>0, <1>3 DEF Paks, IsToServer
  <2>2. \A i \in DOMAIN chal' : chal'[i].auth = "PUREOK" => ~Of(chal'[i].from, c)
    BY <1>0 DEF Paks, ChallengesKept
  <2>3. set.pure => \A s \in Slot : InUse(s)' => ~Of(slot'[s].addr, c)
    BY <1>0 DEF Paks, SlotsKept, InUse
  <2> QED BY <2>1, <2>2, <2>3
<1>11. Numbered'
  <2>1. \A i \in DOMAIN chal' : 1 <= chal'[i].challenge /\ chal'[i].challenge <= drawn
    BY <1>0 DEF Numbered, ChallengesKept
  <2>2. \A i, j \in DOMAIN chal' : chal'[i].challenge = chal'[j].challenge => i = j
    BY <1>0 DEF Numbered, ChallengesKept
  <2>3. \A n \in refused' : n \in 1 .. drawn
    <3>1. drawn \in Nat
      BY <1>0 DEF Types
    <3>2. \A i \in DOMAIN chal : chal[i].challenge \in 1 .. drawn
      BY <1>0, <1>6, <3>1 DEF Numbered
    <3>3. refused \subseteq 1 .. drawn
      BY <1>0 DEF Numbered
    <3>4. \A n \in refused' : n \in refused \/ \E i \in DOMAIN chal : n = chal[i].challenge
      BY DEF ChallengesKept
    <3> QED BY <3>2, <3>3, <3>4
  <2>4. \A s \in Slot : slot'[s].challenge <= drawn
    BY <1>0 DEF Numbered, SlotsKept, Types
  <2>5. \A s \in Slot, i \in DOMAIN chal' : slot'[s].challenge # chal'[i].challenge
    BY <1>0 DEF Numbered, SlotsKept, ChallengesKept
  <2> QED BY <2>1, <2>2, <2>3, <2>4, <2>5 DEF Numbered
<1>12. Refusals'
  <2>1. \A i \in DOMAIN chal' :
          chal'[i].auth \in {"WAIT", "ONLYLAN"} => chal'[i].from.host \notin Lan
    BY <1>0 DEF Refusals, ChallengesKept
  <2>2. \A i \in DOMAIN chal' : chal'[i].challenge \in refused' =>
          chal'[i].auth \in {"WAIT", "ONLYLAN"} /\ chal'[i].reply # "NONE"
    BY DEF ChallengesKept
  <2>3. ASSUME NEW s \in Slot, slot'[s].state = "CONNECTED", slot'[s].challenge \in refused'
        PROVE  FALSE
    <3>1. InUse(s) /\ slot'[s].challenge = slot[s].challenge
      BY <2>3 DEF SlotsKept
    <3>2. slot[s].challenge \notin refused
      BY <1>0, <3>1 DEF Refusals, KeyChecked
    <3>3. \E i \in DOMAIN chal : slot[s].challenge = chal[i].challenge
      BY <2>3, <3>1, <3>2 DEF ChallengesKept
    <3> QED BY <1>0, <3>3 DEF Numbered
  <2> QED BY <2>1, <2>2, <2>3 DEF Refusals, KeyChecked, InUse
<1>13. Current'
  <2>1. \A p \in UnderWay' : p.type = "challengeResponse" => 1 <= p.challenge /\ p.challenge <= drawn
    BY <1>0, <1>5 DEF Current, Numbered
  <2>2. \A c \in Client, i \in DOMAIN chal' :
          cl[c].challenge = chal'[i].challenge => cl[c].serverId = serverId
    BY <1>0 DEF Current, ChallengesKept
  <2>3. \A p \in UnderWay', i \in DOMAIN chal' :
          p.type = "challengeResponse" /\ p.challenge = chal'[i].challenge => p.serverId = serverId
    BY <1>0, <1>5 DEF Current, ChallengesKept
  <2>4. \A p \in UnderWay', c \in Client :
          p.type = "connect" /\ p.id = ClientId(c) =>
            cl[c].state # "CHALLENGING" /\ (Waiting(c) => p.challenge = cl[c].challenge)
    BY <1>0, <1>3 DEF Current, IsToServer
  <2>5. \A s \in Slot, c \in Client :
          slot'[s].id = ClientId(c) =>
            cl[c].state # "CHALLENGING" /\ (Waiting(c) => cl[c].serverId = serverId)
    BY <1>0 DEF Current, SlotsKept
  <2> QED BY <1>0, <1>4, <2>1, <2>2, <2>3, <2>4, <2>5 DEF Current, Waiting
<1>14. Answers'
  <2>1. ASSUME NEW s \in Slot, NEW c \in Client, NEW n \in {0, 1, 2}, Kept(s, c, n)
        PROVE  Kept(s, c, n)'
    <3>1. slot[s].silent \in Nat /\ slot'[s].silent \in Nat /\ slot[s].silent <= n
      BY <1>0, <1>7, <2>1 DEF Types, SlotType, Kept
    <3>2. slot[s].silent <= 2
      BY <3>1
    <3>3. slot'[s].addr = Addr(c) /\ slot'[s].state # "FREE" /\ slot'[s].silent <= slot[s].silent
      BY <2>1, <3>2 DEF Kept, SlotsKept
    <3> QED BY <1>4, <3>1, <3>3 DEF Kept
  <2>2. \A p \in UnderWay' : p.type \in {"connect", "connectResponse"} =>
          p \in UnderWay /\ (p \in net' => p \in net)
    BY <1>1, <1>2, <1>3 DEF IsToServer
  <2>3. \A c \in Client, s \in Slot :
          Connected(c) /\ slot'[s].addr = Addr(c) /\ slot'[s].id = ClientId(c) => cl[c].clientNum = s
    BY <1>0 DEF Answers, SlotsKept
  <2>4. \A s \in Slot, c \in Client, n \in {0, 1, 2} : Kept(s, c, n) => Kept(s, c, n)'
    BY <2>1
  <2> QED BY <2>2, <2>3, <2>4, AnswersStay
<1> QED BY <1>7, <1>8, <1>9, <1>10, <1>11, <1>12, <1>13, <1>14 DEF IInv, Firsts

LEMMA HarmlessAnswer ==
  ASSUME NEW p, NEW ms, Send(p, ms), \A m \in ms : Harmless(m)
  PROVE  HarmlessMail
BY Sends DEF HarmlessMail

\* A challenge i that becomes r.
LEMMA ChallengeChanges ==
  ASSUME IInv, NEW i \in DOMAIN chal, NEW r \in ChallengeType, chal' = [chal EXCEPT ![i] = r],
         r.challenge = chal[i].challenge, r.from = chal[i].from,
         r.auth = "PUREOK" =>
           chal[i].auth = "PUREOK" \/ \A c \in Client : Of(chal[i].from, c) => cl[c].paks = "ok",
         r.auth \in {"WAIT", "ONLYLAN"} => chal[i].from.host \notin Lan,
         chal[i].challenge \in refused' => r.auth \in {"WAIT", "ONLYLAN"} /\ r.reply # "NONE",
         \A n \in refused' : n \in refused \/ n = chal[i].challenge
  PROVE  ChallengesKept
<1>0. Types /\ Numbered /\ Refusals
  BY DEF IInv
<1>1. chal \in Seq(ChallengeType)
  BY <1>0 DEF Types
<1>2. chal' \in Seq(ChallengeType) /\ DOMAIN chal' = DOMAIN chal
  BY <1>1
<1>3. chal'[i] = r /\ \A j \in DOMAIN chal : j # i => chal'[j] = chal[j]
  BY <1>1
<1>4. ASSUME NEW j \in DOMAIN chal, j # i
      PROVE  /\ chal'[j].challenge = chal[j].challenge /\ chal'[j].from = chal[j].from
             /\ chal'[j].auth = "PUREOK" => chal[j].auth = "PUREOK"
             /\ chal'[j].auth \in {"WAIT", "ONLYLAN"} => chal[j].from.host \notin Lan
             /\ chal[j].challenge \in refused' =>
                  chal'[j].auth \in {"WAIT", "ONLYLAN"} /\ chal'[j].reply # "NONE"
  <2>1. chal[j].challenge # chal[i].challenge
    BY <1>0, <1>4 DEF Numbered
  <2>2. chal[j].challenge \in refused' => chal[j].challenge \in refused
    BY <2>1
  <2> QED BY <1>0, <1>3, <1>4, <2>2 DEF Refusals
<1> QED BY <1>2, <1>3, <1>4 DEF ChallengesKept

\* What a challenge is made of.
LEMMA ChallengeIs ==
  ASSUME Types, NEW i \in DOMAIN chal
  PROVE  /\ chal[i] \in ChallengeType /\ chal[i].challenge \in Nat /\ chal[i].from \in Address
         /\ chal[i].id \in Ids /\ chal[i].connected \in BOOLEAN /\ chal[i].auth \in AuthStates
         /\ chal[i].reply \in {"NONE", "WAIT", "DENY"} /\ chal[i].guid \in BOOLEAN
         /\ chal[i] = [challenge |-> chal[i].challenge, from |-> chal[i].from, id |-> chal[i].id,
                       connected |-> chal[i].connected, auth |-> chal[i].auth,
                       reply |-> chal[i].reply, guid |-> chal[i].guid]
<1>1. chal \in Seq(ChallengeType)
  BY DEF Types
<1>2. chal[i] \in ChallengeType
  BY <1>1
<1> QED BY <1>2 DEF ChallengeType

\* Whatever becomes of the auth, the reply, and the flags of a challenge, it is one.
LEMMA ChallengeWith ==
  ASSUME Types, NEW i \in DOMAIN chal, NEW auth \in AuthStates,
         NEW reply \in {"NONE", "WAIT", "DENY"}
  PROVE  /\ [chal[i] EXCEPT !.auth = auth] \in ChallengeType
         /\ [chal[i] EXCEPT !.reply = reply] \in ChallengeType
         /\ [chal[i] EXCEPT !.guid = TRUE] \in ChallengeType
         /\ [chal[i] EXCEPT !.connected = TRUE] \in ChallengeType
<1>1. chal[i] \in ChallengeType
  BY ChallengeIs
<1> QED BY <1>1 DEF ChallengeType

LEMMA FlagSet ==
  ASSUME IInv, NEW i \in DOMAIN chal, refused' = refused,
         \/ chal' = [chal EXCEPT ![i].guid = TRUE]
         \/ chal' = [chal EXCEPT ![i].connected = TRUE]
  PROVE  ChallengesKept
<1>0. Types /\ Refusals
  BY DEF IInv
<1>1. chal[i].auth \in AuthStates /\ chal[i].reply \in {"NONE", "WAIT", "DENY"} /\ chal[i] \in ChallengeType
  BY <1>0, ChallengeIs
<1>2. CASE chal' = [chal EXCEPT ![i].guid = TRUE]
  <2> DEFINE r == [chal[i] EXCEPT !.guid = TRUE]
  <2>1. r \in ChallengeType /\ chal' = [chal EXCEPT ![i] = r]
    BY <1>0, <1>1, <1>2, ChallengeWith
  <2>2. r.challenge = chal[i].challenge /\ r.from = chal[i].from /\ r.auth = chal[i].auth /\ r.reply = chal[i].reply
    BY <1>1 DEF ChallengeType
  <2> HIDE DEF r
  <2>3. r.auth \in {"WAIT", "ONLYLAN"} => chal[i].from.host \notin Lan
    BY <1>0, <2>2 DEF Refusals
  <2>4. chal[i].challenge \in refused' => r.auth \in {"WAIT", "ONLYLAN"} /\ r.reply # "NONE"
    BY <1>0, <2>2 DEF Refusals
  <2> QED BY <2>1, <2>2, <2>3, <2>4, ChallengeChanges
<1>3. CASE chal' = [chal EXCEPT ![i].connected = TRUE]
  <2> DEFINE r == [chal[i] EXCEPT !.connected = TRUE]
  <2>1. r \in ChallengeType /\ chal' = [chal EXCEPT ![i] = r]
    BY <1>0, <1>1, <1>3, ChallengeWith
  <2>2. r.challenge = chal[i].challenge /\ r.from = chal[i].from /\ r.auth = chal[i].auth /\ r.reply = chal[i].reply
    BY <1>1 DEF ChallengeType
  <2> HIDE DEF r
  <2>3. r.auth \in {"WAIT", "ONLYLAN"} => chal[i].from.host \notin Lan
    BY <1>0, <2>2 DEF Refusals
  <2>4. chal[i].challenge \in refused' => r.auth \in {"WAIT", "ONLYLAN"} /\ r.reply # "NONE"
    BY <1>0, <2>2 DEF Refusals
  <2> QED BY <2>1, <2>2, <2>3, <2>4, ChallengeChanges
<1> QED BY <1>2, <1>3

LEMMA AuthSet ==
  ASSUME IInv, NEW i \in DOMAIN chal, NEW auth \in AuthStates, chal' = [chal EXCEPT ![i].auth = auth],
         auth = "PUREOK" =>
           chal[i].auth = "PUREOK" \/ \A c \in Client : Of(chal[i].from, c) => cl[c].paks = "ok",
         auth \in {"WAIT", "ONLYLAN"} => chal[i].from.host \notin Lan,
         chal[i].challenge \in refused' => auth \in {"WAIT", "ONLYLAN"} /\ chal[i].reply # "NONE",
         \A n \in refused' : n \in refused \/ n = chal[i].challenge
  PROVE  ChallengesKept
<1>0. Types /\ Refusals
  BY DEF IInv
<1>1. chal[i].auth \in AuthStates /\ chal[i].reply \in {"NONE", "WAIT", "DENY"} /\ chal[i] \in ChallengeType
  BY <1>0, ChallengeIs
<1> DEFINE r == [chal[i] EXCEPT !.auth = auth]
<1>2. r \in ChallengeType /\ chal' = [chal EXCEPT ![i] = r]
  BY <1>0, <1>1, ChallengeWith
<1>3. r.challenge = chal[i].challenge /\ r.from = chal[i].from /\ r.auth = auth /\ r.reply = chal[i].reply
  BY <1>1 DEF ChallengeType
<1> HIDE DEF r
<1> QED BY <1>2, <1>3, ChallengeChanges

LEMMA ChallengeAgain ==
  ASSUME IInv, NEW p, NEW i \in Asked(p.from, p.id),
         Send(p, {ChallengeResponse(p.from, chal[i].challenge)}),
         chal' = [chal EXCEPT ![i].auth = AuthAfter(p.from, @)],
         UNCHANGED <<set, cl, slot, drawn, others, serverId, refused>>
  PROVE  IInv'
<1>0. Types /\ Refusals
  BY DEF IInv
<1>1. i \in DOMAIN chal /\ p.from.host = chal[i].from.host
  BY DEF Asked, SameHost
<1>2. chal[i].auth \in AuthStates /\ chal[i].reply \in {"NONE", "WAIT", "DENY"}
  BY <1>0, <1>1, ChallengeIs
<1> DEFINE auth == AuthAfter(p.from, chal[i].auth)
<1>3. /\ auth \in AuthStates
      /\ auth = "PUREOK" => chal[i].auth = "PUREOK"
      /\ auth \in {"WAIT", "ONLYLAN"} => p.from.host \notin Lan
  BY <1>2 DEF AuthAfter, AuthStates
<1>4. ASSUME chal[i].challenge \in refused'
      PROVE  auth \in {"WAIT", "ONLYLAN"} /\ chal[i].reply # "NONE"
  <2>1. chal[i].challenge \in refused
    BY <1>4
  <2>2. /\ chal[i].auth \in {"WAIT", "ONLYLAN"} /\ chal[i].reply # "NONE"
        /\ chal[i].from.host \notin Lan
    BY <1>0, <1>1, <2>1 DEF Refusals
  <2> QED BY <1>1, <2>2 DEF AuthAfter
<1>5. chal' = [chal EXCEPT ![i].auth = auth]
  OBVIOUS
<1> HIDE DEF auth
<1>6. ChallengesKept
  BY <1>1, <1>3, <1>4, <1>5, AuthSet
<1>7. HarmlessMail
  <2>1. Harmless(ChallengeResponse(p.from, chal[i].challenge))
    BY <1>1 DEF Harmless, ChallengeResponse
  <2> QED BY <2>1, HarmlessAnswer
<1>8. SlotsKept
  BY <1>0, SameSlots
<1> QED BY <1>6, <1>7, <1>8, QuietStep

\* What the server answers a connect message that gets no slot.
LEMMA AnswersAreHarmless ==
  ASSUME NEW to, NEW id
  PROVE  /\ Harmless(ToClient("badChallenge", to)) /\ Harmless(ToClient("pureServer", to))
         /\ Harmless(ToClient("disconnect", to)) /\ Harmless([type |-> "srvAuth", id |-> id])
BY DEF Harmless, ToClient

LEMMA NoSlot ==
  ASSUME IInv, UNCHANGED <<set, cl, slot, chal, drawn, others, serverId, refused>>,
         NEW p, NEW ms, Send(p, ms), \A m \in ms : Harmless(m)
  PROVE  IInv'
<1>0. Types /\ Refusals
  BY DEF IInv
<1> QED BY <1>0, HarmlessAnswer, SameSlots, SameChallenges, QuietStep

LEMMA NotRefused ==
  ASSUME IInv, NEW i \in DOMAIN chal, KeyOk(i) \/ MayTimeOut(i)
  PROVE  chal[i].challenge \notin refused
BY DEF IInv, Refusals, KeyOk, MayTimeOut

LEMMA PureAsked ==
  ASSUME IInv, NEW i \in DOMAIN chal, KeyOk(i) \/ MayTimeOut(i),
         chal' = [chal EXCEPT ![i].auth = "PUREWAIT"],
         UNCHANGED <<set, cl, slot, drawn, others, serverId, refused>>,
         NEW p, NEW ms, Send(p, ms), \A m \in ms : Harmless(m)
  PROVE  IInv'
<1>0. Types
  BY DEF IInv
<1>1. "PUREWAIT" \in AuthStates
  BY DEF AuthStates
<1>2. chal[i].challenge \notin refused
  BY NotRefused
<1>3. ChallengesKept
  BY <1>1, <1>2, AuthSet
<1> QED BY <1>0, <1>3, HarmlessAnswer, SameSlots, QuietStep

LEMMA Marked ==
  ASSUME IInv, NEW i \in DOMAIN chal,
         \/ chal' = [chal EXCEPT ![i].guid = TRUE]
         \/ chal' = [chal EXCEPT ![i].connected = TRUE],
         UNCHANGED <<set, cl, slot, drawn, others, serverId, refused>>,
         NEW p, NEW ms, Send(p, ms), \A m \in ms : Harmless(m)
  PROVE  IInv'
<1>0. Types
  BY DEF IInv
<1> QED BY <1>0, FlagSet, HarmlessAnswer, SameSlots, QuietStep

\* The message comes from a client that has the paks, if its list is confirmed.
LEMMA PureConfirmed ==
  ASSUME IInv, NEW p \in UnderWay, p.type = "pureClient", NEW i \in Valid(p),
         chal' = [chal EXCEPT ![i].auth = IF @ = "PUREWAIT" THEN "PUREOK" ELSE @], Send(p, {}),
         UNCHANGED <<set, cl, slot, drawn, others, serverId, refused>>
  PROVE  IInv'
<1>0. Types /\ Refusals /\ Paks
  BY DEF IInv
<1>1. i \in DOMAIN chal /\ chal[i].from = p.from
  BY DEF Valid
<1>2. chal[i].auth \in AuthStates
  BY <1>0, <1>1, ChallengeIs
<1> DEFINE auth == IF chal[i].auth = "PUREWAIT" THEN "PUREOK" ELSE chal[i].auth
<1>3. auth \in AuthStates /\ chal' = [chal EXCEPT ![i].auth = auth]
  BY <1>2 DEF AuthStates
<1>4. \A c \in Client : Of(chal[i].from, c) => cl[c].paks = "ok"
  BY <1>0, <1>1 DEF Paks
<1>5. auth \in {"WAIT", "ONLYLAN"} => chal[i].from.host \notin Lan
  BY <1>0, <1>1 DEF Refusals
<1>6. chal[i].challenge \in refused' => auth \in {"WAIT", "ONLYLAN"} /\ chal[i].reply # "NONE"
  BY <1>0, <1>1 DEF Refusals
<1> HIDE DEF auth
<1>7. ChallengesKept
  BY <1>1, <1>3, <1>4, <1>5, <1>6, AuthSet
<1>8. HarmlessMail
  BY HarmlessAnswer
<1> QED BY <1>0, <1>7, <1>8, SameSlots, QuietStep

LEMMA ProcessPureClientKeeps ==
  ASSUME IInv, NEW p \in UnderWay, ProcessPureClient(p)
  PROVE  IInv'
<1>1. CASE chal' = chal
  <2>1. \E ms : Send(p, ms) /\ \A m \in ms : Harmless(m)
    <3>1. CASE Send(p, {})
      BY <3>1
    <3>2. CASE Send(p, {ToClient("badChallenge", p.from)})
      <4>1. \A m \in {ToClient("badChallenge", p.from)} : Harmless(m)
        BY AnswersAreHarmless
      <4> QED BY <3>2, <4>1
    <3> QED BY <3>1, <3>2 DEF ProcessPureClient
  <2> QED BY <1>1, <2>1, NoSlot DEF ProcessPureClient
<1>2. CASE chal' # chal
  <2>1. PICK i \in Valid(p) :
          /\ chal' = [chal EXCEPT ![i].auth = IF @ = "PUREWAIT" THEN "PUREOK" ELSE @]
          /\ Send(p, {})
    BY <1>2 DEF ProcessPureClient
  <2>2. p.type = "pureClient"
    BY DEF ProcessPureClient
  <2> QED BY <2>1, <2>2, PureConfirmed DEF ProcessPureClient
<1> QED BY <1>1, <1>2

LEMMA MarkedByMaster ==
  ASSUME IInv, NEW p \in UnderWay, p.type = "auth", NEW i \in DOMAIN chal, chal[i].auth = "WAIT",
         chal' = IF p.reply = "OK" THEN [chal EXCEPT ![i].auth = "OK"]
                 ELSE [chal EXCEPT ![i].reply = p.reply],
         refused' = IF p.reply = "OK" THEN refused \ {chal[i].challenge}
                    ELSE refused \cup {chal[i].challenge}
  PROVE  ChallengesKept
<1>0. Types /\ Refusals
  BY DEF IInv
<1>1. p.reply \in {"OK", "WAIT", "DENY"}
  BY <1>0 DEF Types
<1>2. CASE p.reply = "OK"
  <2>1. "OK" \in AuthStates /\ chal' = [chal EXCEPT ![i].auth = "OK"]
    BY <1>2 DEF AuthStates
  <2>2. chal[i].challenge \notin refused' /\ \A n \in refused' : n \in refused
    BY <1>2
  <2> QED BY <2>1, <2>2, AuthSet
<1>3. CASE p.reply # "OK"
  <2> DEFINE r == [chal[i] EXCEPT !.reply = p.reply]
  <2>1. p.reply \in {"NONE", "WAIT", "DENY"} /\ p.reply # "NONE"
    BY <1>1, <1>3
  <2>2. chal[i].auth \in AuthStates /\ chal[i] \in ChallengeType
    BY <1>0, ChallengeIs
  <2>3. r \in ChallengeType /\ chal' = [chal EXCEPT ![i] = r]
    BY <1>0, <1>3, <2>1, <2>2, ChallengeWith
  <2>4. r.challenge = chal[i].challenge /\ r.from = chal[i].from /\ r.auth = "WAIT" /\ r.reply = p.reply
    BY <2>2 DEF ChallengeType
  <2>5. chal[i].from.host \notin Lan /\ \A n \in refused' : n \in refused \/ n = chal[i].challenge
    BY <1>0, <1>3 DEF Refusals
  <2> HIDE DEF r
  <2>6. r.auth # "PUREOK" /\ r.auth \in {"WAIT", "ONLYLAN"} /\ r.reply # "NONE"
    BY <2>1, <2>4
  <2> QED BY <2>3, <2>4, <2>5, <2>6, ChallengeChanges
<1> QED BY <1>2, <1>3

LEMMA ProcessAuthKeeps ==
  ASSUME IInv, NEW p \in UnderWay, ProcessAuth(p)
  PROVE  IInv'
<1> DEFINE S == {i \in DOMAIN chal : ~chal[i].connected /\ chal[i].id = p.id}
           W == {i \in S : i = First(S) /\ chal[i].guid /\ chal[i].auth = "WAIT"}
<1>0. Types /\ Refusals
  BY DEF IInv
<1>1. p.type = "auth" /\ Send(p, {}) /\ UNCHANGED <<set, cl, slot, drawn, others, serverId>>
  BY DEF ProcessAuth
<1>2. CASE W = {}
  <2>1. UNCHANGED <<chal, refused>>
    BY <1>2 DEF ProcessAuth
  <2> QED BY <1>1, <2>1, NoSlot
<1>3. CASE W # {}
  <2>1. DOMAIN chal \subseteq Nat
    BY <1>0 DEF Types
  <2>2. First(W) \in W
    BY <1>3, <2>1, FirstIs
  <2>3. PICK i \in DOMAIN chal : i = First(W) /\ chal[i].auth = "WAIT"
    BY <2>2
  <2>4. /\ chal' = IF p.reply = "OK" THEN [chal EXCEPT ![First(W)].auth = "OK"]
                         ELSE [chal EXCEPT ![First(W)].reply = p.reply]
        /\ refused' = IF p.reply = "OK"
                              THEN refused \ {chal[First(W)].challenge}
                              ELSE refused \cup {chal[First(W)].challenge}
    BY <1>3 DEF ProcessAuth
  <2> HIDE DEF W
  <2>5. ChallengesKept
    BY <1>1, <2>3, <2>4, MarkedByMaster
  <2> QED BY <1>0, <1>1, <2>5, HarmlessAnswer, SameSlots, QuietStep
<1> QED BY <1>2, <1>3

\* The slot s becomes v, which the server need not have seen for longer.
LEMMA SlotChanges ==
  ASSUME Types, NEW s \in Slot, NEW v \in SlotType, slot' = [slot EXCEPT ![s] = v],
         v.addr = slot[s].addr, v.id = slot[s].id, v.challenge = slot[s].challenge,
         v.state # "FREE", v.silent <= slot[s].silent,
         v.state = "CONNECTED" => InUse(s)
  PROVE  SlotsKept
<1>1. slot \in [Slot -> SlotType] /\ \A t \in Slot : slot[t].silent \in Nat
  BY DEF Types, SlotType
<1>2. slot' \in [Slot -> SlotType] /\ slot'[s] = v /\ \A t \in Slot : t # s => slot'[t] = slot[t]
  BY <1>1
<1> QED BY <1>1, <1>2 DEF SlotsKept, InUse

LEMMA ProcessClientPacketKeeps ==
  ASSUME IInv, NEW p \in UnderWay, ProcessClientPacket(p)
  PROVE  IInv'
<1> DEFINE S == {s \in Slot : /\ slot[s].state # "FREE"
                              /\ SameHost(p.from, slot[s].addr)
                              /\ p.id = slot[s].id}
<1>0. Types /\ Refusals
  BY DEF IInv
<1>1. p.type = "sequenced" /\ UNCHANGED <<set, cl, chal, drawn, others, serverId, refused>>
  BY DEF ProcessClientPacket
<1>2. CASE S = {}
  <2>1. Send(p, {ToClient("disconnect", p.from)}) /\ slot' = slot
    BY <1>2 DEF ProcessClientPacket
  <2>2. \A m \in {ToClient("disconnect", p.from)} : Harmless(m)
    BY AnswersAreHarmless
  <2> QED BY <1>1, <2>1, <2>2, NoSlot
<1>3. CASE S # {}
  <2>1. PICK first \in Firsts : Programs(first)
    BY DEF IInv
  <2>2. FromProgram(p, first)
    BY <1>1, <2>1 DEF Programs, IsToServer
  <2>3. First(S) \in S
    BY <1>3, FirstIs, SlotsAreNumbers
  <2>4. PICK s \in Slot : s = First(S)
    BY <2>3
  <2>5. slot[s].state # "FREE" /\ s \in Holding(p.from, p.id)
    BY <2>3, <2>4 DEF Holding
  <2>6. slot[s].addr = p.from
    BY <1>0, <2>1, <2>2, <2>5, HoldingIs
  <2>7. /\ slot' = [slot EXCEPT ![s].addr.port = p.from.port,
                                ![s].silent = IF InUse(s) THEN 0 ELSE @,
                                ![s].state = IF p.last THEN "ZOMBIE" ELSE @]
        /\ Send(p, {})
    BY <1>3, <2>4 DEF ProcessClientPacket
  <2> HIDE DEF S
  <2>8. /\ slot \in [Slot -> SlotType] /\ slot[s] \in SlotType /\ slot[s].addr \in Address
        /\ slot[s].silent \in Nat /\ slot[s].state \in SlotStates
    BY <1>0 DEF Types, SlotType
  <2> DEFINE silent == IF InUse(s) THEN 0 ELSE slot[s].silent
             state == IF p.last THEN "ZOMBIE" ELSE slot[s].state
             v == [slot[s] EXCEPT !.addr = slot[s].addr, !.silent = silent, !.state = state]
  <2>9. [slot[s].addr EXCEPT !.port = p.from.port] = slot[s].addr
    BY <2>6, <2>8 DEF Address
  <2>10. slot' = [slot EXCEPT ![s] = v]
    BY <2>7, <2>8, <2>9
  <2>11. silent \in Nat /\ silent <= slot[s].silent /\ state \in SlotStates /\ state # "FREE"
         /\ (state = "CONNECTED" => InUse(s))
    BY <2>5, <2>8 DEF SlotStates, InUse
  <2> HIDE DEF silent, state
  <2>12. v \in SlotType
    BY <2>8, <2>11 DEF SlotType
  <2>13. /\ v.addr = slot[s].addr /\ v.id = slot[s].id /\ v.challenge = slot[s].challenge
         /\ v.state = state /\ v.silent = silent
    BY <2>8 DEF SlotType
  <2> HIDE DEF v
  <2>14. SlotsKept
    BY <1>0, <2>10, <2>11, <2>12, <2>13, SlotChanges
  <2> QED BY <1>0, <1>1, <2>7, <2>14, HarmlessAnswer, SameChallenges, QuietStep
<1> QED BY <1>2, <1>3

LEMMA SendEmptyToClientKeeps ==
  ASSUME IInv, NEW s \in Slot, SendEmptyToClient(s)
  PROVE  IInv'
<1>1. \A m \in {ServerSequenced(s)} : Harmless(m)
  BY DEF Harmless, ServerSequenced
<1>2. Send(None, {ServerSequenced(s)}) /\ UNCHANGED <<set, cl, slot, chal, drawn, others, serverId, refused>>
  BY DEF SendEmptyToClient, serverVars
<1> QED BY <1>1, <1>2, NoSlot

LEMMA MasterAnswersKeeps ==
  ASSUME IInv, NEW p \in UnderWay, MasterAnswers(p)
  PROVE  IInv'
<1>1. PICK reply \in {"OK", "WAIT", "DENY"} : Send(p, {[type |-> "auth", id |-> p.id, reply |-> reply]})
  BY DEF MasterAnswers
<1>2. \A m \in {[type |-> "auth", id |-> p.id, reply |-> reply]} : Harmless(m)
  BY <1>1 DEF Harmless
<1>3. UNCHANGED <<set, cl, slot, chal, drawn, others, serverId, refused>>
  BY DEF MasterAnswers, serverVars
<1> QED BY <1>1, <1>2, <1>3, NoSlot

LEMMA NoMail ==
  ASSUME UNCHANGED <<net, late>>
  PROVE  HarmlessMail
BY DEF HarmlessMail

LEMMA DropClientKeeps ==
  ASSUME IInv, NEW s \in Slot, DropClient(s)
  PROVE  IInv'
<1>0. Types /\ Refusals
  BY DEF IInv
<1>1. /\ slot' = [slot EXCEPT ![s].state = "ZOMBIE"]
      /\ UNCHANGED <<set, cl, chal, drawn, others, serverId, net, refused, late>>
  BY DEF DropClient
<1>2. slot \in [Slot -> SlotType] /\ slot[s] \in SlotType /\ slot[s].silent \in Nat
  BY <1>0 DEF Types, SlotType
<1> DEFINE v == [slot[s] EXCEPT !.state = "ZOMBIE"]
<1>3. slot' = [slot EXCEPT ![s] = v]
  BY <1>1, <1>2
<1>4. v \in SlotType
  BY <1>2 DEF SlotType, SlotStates
<1>5. /\ v.addr = slot[s].addr /\ v.id = slot[s].id /\ v.challenge = slot[s].challenge
      /\ v.state = "ZOMBIE" /\ v.silent = slot[s].silent /\ v.silent <= slot[s].silent
  BY <1>2 DEF SlotType
<1> HIDE DEF v
<1>6. SlotsKept
  BY <1>0, <1>3, <1>4, <1>5, SlotChanges
<1> QED BY <1>0, <1>1, <1>6, NoMail, SameChallenges, QuietStep

\* A slot that its client has been heard of two ticks ago is not yet free.
LEMMA CheckClientTimeoutsKeeps ==
  ASSUME IInv, CheckClientTimeouts
  PROVE  IInv'
<1>0. Types /\ Refusals
  BY DEF IInv
<1>1. /\ slot' = [s \in Slot |->
                IF AfterTimeout(s) = "FREE" THEN Freed(slot[s].addr, slot[s].id)
                ELSE [slot[s] EXCEPT !.state = AfterTimeout(s)]]
      /\ UNCHANGED <<set, cl, chal, drawn, others, serverId, net, refused, late>>
  BY DEF CheckClientTimeouts
<1>2. ASSUME NEW s \in Slot
      PROVE  /\ slot'[s] \in SlotType
             /\ slot'[s].addr = slot[s].addr /\ slot'[s].id = slot[s].id
             /\ slot'[s].challenge \in {slot[s].challenge, 0}
             /\ slot'[s].state = "CONNECTED" => InUse(s) /\ slot'[s].challenge = slot[s].challenge
             /\ slot[s].state # "FREE" /\ slot[s].silent <= 2 =>
                  slot'[s].state # "FREE" /\ slot'[s].silent <= slot[s].silent
  <2>1. /\ slot[s] \in SlotType /\ slot[s].silent \in Nat /\ slot[s].state \in SlotStates
        /\ slot[s].addr \in Address /\ slot[s].id \in Ids
    BY <1>0 DEF Types, SlotType
  <2>2. /\ AfterTimeout(s) \in SlotStates
        /\ AfterTimeout(s) = "CONNECTED" => InUse(s)
        /\ AfterTimeout(s) = "FREE" /\ slot[s].state # "FREE" => slot[s].silent > serverZombieTimeout
    BY <2>1 DEF AfterTimeout, SlotStates, InUse
  <2>3. CASE AfterTimeout(s) = "FREE"
    <3>1. slot'[s] = Freed(slot[s].addr, slot[s].id)
      BY <1>1, <2>3
    <3>2. Freed(slot[s].addr, slot[s].id) \in SlotType
      BY <2>1 DEF Freed, SlotType, SlotStates
    <3>3. slot[s].state # "FREE" => slot[s].silent > 2
      BY <2>1, <2>2, <2>3, HandshakeAssumption
    <3> QED BY <2>1, <3>1, <3>2, <3>3 DEF Freed
  <2>4. CASE AfterTimeout(s) # "FREE"
    <3> DEFINE v == [slot[s] EXCEPT !.state = AfterTimeout(s)]
    <3>1. slot'[s] = v
      BY <1>1, <2>4
    <3>2. v \in SlotType /\ v.state = AfterTimeout(s) /\ v.addr = slot[s].addr /\ v.id = slot[s].id
          /\ v.challenge = slot[s].challenge /\ v.silent = slot[s].silent
      BY <2>1, <2>2 DEF SlotType
    <3> HIDE DEF v
    <3> QED BY <2>1, <2>2, <2>4, <3>1, <3>2
  <2> QED BY <2>3, <2>4
<1>3. slot' \in [Slot -> SlotType]
  BY <1>1, <1>2
<1>4. SlotsKept
  BY <1>2, <1>3 DEF SlotsKept
<1> QED BY <1>0, <1>1, <1>4, NoMail, SameChallenges, QuietStep

-----------------------------------------------------------------------------
(* A new challenge *)

\* Every challenge that is remembered was there before, or is c.
LEMMA RememberedIs ==
  ASSUME Types, NEW c \in ChallengeType,
         \A i, j \in DOMAIN chal : chal[i].challenge = chal[j].challenge => i = j,
         \A i \in DOMAIN chal : chal[i].challenge # c.challenge
  PROVE  /\ Remembered(c) \in Seq(ChallengeType)
         /\ \A i \in DOMAIN Remembered(c) :
              Remembered(c)[i] = c \/ \E j \in DOMAIN chal : Remembered(c)[i] = chal[j]
         /\ \A i, j \in DOMAIN Remembered(c) :
              Remembered(c)[i].challenge = Remembered(c)[j].challenge => i = j
<1> DEFINE room == IF Len(chal) < MAX_CHALLENGES THEN chal ELSE Tail(chal)
           shift == IF Len(chal) < MAX_CHALLENGES THEN 0 ELSE 1
<1>0. chal \in Seq(ChallengeType) /\ Len(chal) \in Nat /\ MAX_CHALLENGES \in Nat \ {0}
  BY HandshakeAssumption DEF Types
<1>1. /\ room \in Seq(ChallengeType) /\ shift \in {0, 1}
      /\ \A i \in DOMAIN room : i \in Nat /\ i + shift \in DOMAIN chal /\ room[i] = chal[i + shift]
  <2>1. CASE Len(chal) < MAX_CHALLENGES
    BY <1>0, <2>1
  <2>2. CASE ~(Len(chal) < MAX_CHALLENGES)
    <3>1. chal # <<>>
      BY <1>0, <2>2
    <3>2. Tail(chal) \in Seq(ChallengeType) /\ Len(Tail(chal)) = Len(chal) - 1
          /\ \A i \in 1 .. Len(Tail(chal)) : Tail(chal)[i] = chal[i + 1]
      BY <1>0, <3>1
    <3> QED BY <1>0, <2>2, <3>2
  <2> QED BY <2>1, <2>2
<1> HIDE DEF room, shift
<1>2. Remembered(c) = Append(room, c)
  BY DEF Remembered, room
<1>3. /\ Append(room, c) \in Seq(ChallengeType)
      /\ \A i \in DOMAIN Append(room, c) : \/ i \in DOMAIN room /\ Append(room, c)[i] = room[i]
                                           \/ i = Len(room) + 1 /\ Append(room, c)[i] = c
  BY <1>1
<1>4. \A i \in DOMAIN Append(room, c) :
        Append(room, c)[i] = c \/ \E j \in DOMAIN chal : Append(room, c)[i] = chal[j]
  BY <1>1, <1>3
<1>5. ASSUME NEW i \in DOMAIN Append(room, c), NEW j \in DOMAIN Append(room, c),
             Append(room, c)[i].challenge = Append(room, c)[j].challenge
      PROVE  i = j
  <2>1. CASE i \in DOMAIN room /\ j \in DOMAIN room
    <3>1. Append(room, c)[i] = room[i] /\ Append(room, c)[j] = room[j]
      BY <1>1, <2>1
    <3>2. i + shift = j + shift
      BY <1>1, <1>5, <2>1, <3>1
    <3> QED BY <1>1, <2>1, <3>2
  <2>2. CASE i \notin DOMAIN room /\ j \notin DOMAIN room
    BY <1>3, <2>2
  <2>3. CASE i \in DOMAIN room /\ j \notin DOMAIN room
    <3>1. Append(room, c)[i] = room[i] /\ Append(room, c)[j] = c
      BY <1>1, <1>3, <2>3
    <3> QED BY <1>1, <1>5, <2>3, <3>1
  <2>4. CASE i \notin DOMAIN room /\ j \in DOMAIN room
    <3>1. Append(room, c)[j] = room[j] /\ Append(room, c)[i] = c
      BY <1>1, <1>3, <2>4
    <3> QED BY <1>1, <1>5, <2>4, <3>1
  <2> QED BY <2>1, <2>2, <2>3, <2>4
<1> QED BY <1>2, <1>3, <1>4, <1>5

LEMMA ChallengeNew ==
  ASSUME IInv, NEW p \in UnderWay, p.type = "challenge", drawn' = drawn + 1,
         Send(p, {ChallengeResponse(p.from, drawn + 1)}),
         chal' = Remembered([NewChallenge(p.from, p.id) EXCEPT !.auth = AuthAfter(p.from, @)]),
         UNCHANGED <<set, cl, slot, others, serverId, refused>>
  PROVE  IInv'
<1> DEFINE c == [NewChallenge(p.from, p.id) EXCEPT !.auth = AuthAfter(p.from, @)]
           m == ChallengeResponse(p.from, drawn + 1)
<1>0. Types /\ Apart /\ Paks /\ Numbered /\ Refusals /\ Current /\ Answers
  BY DEF IInv
<1>1. PICK first \in Firsts : Programs(first)
  BY DEF IInv
<1>2. p.from \in Address /\ p.id \in Ids
  <2>1. FromProgram(p, first)
    BY <1>1 DEF Programs, IsToServer
  <2> QED BY <1>0, <1>1, <2>1, ProgramFacts
<1>3. drawn \in Nat /\ serverId \in Nat
  BY <1>0 DEF Types
<1>4. /\ c \in ChallengeType /\ c.challenge = drawn + 1 /\ c.from = p.from
      /\ c.auth = AuthAfter(p.from, "WAIT")
  <2>1. AuthAfter(p.from, "WAIT") \in AuthStates
    BY DEF AuthAfter, AuthStates
  <2>2. NewChallenge(p.from, p.id) \in ChallengeType
    BY <1>2, <1>3 DEF NewChallenge, ChallengeType, AuthStates
  <2>3. c = [NewChallenge(p.from, p.id) EXCEPT !.auth = AuthAfter(p.from, "WAIT")]
    BY DEF NewChallenge
  <2> QED BY <2>1, <2>2, <2>3 DEF NewChallenge, ChallengeType
<1>5. c.auth # "PUREOK" /\ (c.auth \in {"WAIT", "ONLYLAN"} => c.from.host \notin Lan)
  BY <1>4 DEF AuthAfter
<1> HIDE DEF c
<1>6. \A i \in DOMAIN chal : chal[i].challenge \in Nat /\ chal[i].challenge <= drawn
  BY <1>0, ChallengeIs DEF Numbered
<1>7. \A i \in DOMAIN chal : chal[i].challenge # c.challenge
  BY <1>3, <1>4, <1>6
<1>8. /\ chal' \in Seq(ChallengeType)
      /\ \A i \in DOMAIN chal' : chal'[i] = c \/ \E j \in DOMAIN chal : chal'[i] = chal[j]
      /\ \A i, j \in DOMAIN chal' : chal'[i].challenge = chal'[j].challenge => i = j
  <2>1. \A i, j \in DOMAIN chal : chal[i].challenge = chal[j].challenge => i = j
    BY <1>0 DEF Numbered
  <2>2. chal' = Remembered(c)
    BY DEF c
  <2>3. /\ Remembered(c) \in Seq(ChallengeType)
        /\ \A i \in DOMAIN Remembered(c) :
             Remembered(c)[i] = c \/ \E j \in DOMAIN chal : Remembered(c)[i] = chal[j]
        /\ \A i, j \in DOMAIN Remembered(c) :
             Remembered(c)[i].challenge = Remembered(c)[j].challenge => i = j
    BY <1>0, <1>4, <1>7, <2>1, RememberedIs
  <2> QED BY <2>2, <2>3
<1>9. /\ \A q \in UnderWay' : q \in UnderWay \/ q = m
      /\ \A q \in net' : q \in net \/ q = m
  BY Sends DEF UnderWay
<1>10. /\ m.type = "challengeResponse" /\ m.challenge = drawn + 1 /\ m.serverId = serverId
       /\ ~IsToServer(m)
  BY DEF ChallengeResponse, IsToServer
<1> HIDE DEF m
<1>11. \A q \in UnderWay' : q.type # "challengeResponse" => q \in UnderWay /\ (q \in net' => q \in net)
  BY <1>9, <1>10
<1>12. \A q \in UnderWay' : q.type = "challengeResponse" =>
         q \in UnderWay \/ (q.challenge = drawn + 1 /\ q.serverId = serverId)
  BY <1>9, <1>10
<1>13. Types'
  BY <1>0, <1>3, <1>8, <1>11, <1>12 DEF Types
<1>14. \E f \in Firsts : Programs(f)'
  <2>1. \A q \in UnderWay' : IsToServer(q) => q \in UnderWay
    BY <1>11 DEF IsToServer
  <2> QED BY <2>1, ProgramsStay
<1>15. Apart'
  BY <1>0 DEF Apart, InUse
<1>16. Paks'
  <2> SUFFICES ASSUME NEW d \in Client, cl[d].paks # "ok"
               PROVE  /\ \A q \in UnderWay' : q.type = "pureClient" => ~Of(q.from, d)
                      /\ \A i \in DOMAIN chal' : chal'[i].auth = "PUREOK" => ~Of(chal'[i].from, d)
                      /\ set.pure => \A s \in Slot : InUse(s)' => ~Of(slot'[s].addr, d)
    BY DEF Paks, Of
  <2>1. \A q \in UnderWay' : q.type = "pureClient" => ~Of(q.from, d)
    BY <1>0, <1>11 DEF Paks
  <2>2. \A i \in DOMAIN chal' : chal'[i].auth = "PUREOK" => ~Of(chal'[i].from, d)
    BY <1>0, <1>5, <1>8 DEF Paks
  <2>3. set.pure => \A s \in Slot : InUse(s)' => ~Of(slot'[s].addr, d)
    BY <1>0 DEF Paks, InUse
  <2> QED BY <2>1, <2>2, <2>3
<1>17. Numbered'
  <2>1. \A i \in DOMAIN chal' : 1 <= chal'[i].challenge /\ chal'[i].challenge <= drawn + 1
    BY <1>0, <1>3, <1>4, <1>6, <1>8 DEF Numbered
  <2>2. refused \subseteq 1 .. drawn + 1
    <3>1. refused \subseteq 1 .. drawn
      BY <1>0 DEF Numbered
    <3> QED BY <1>3, <3>1
  <2>3. \A s \in Slot : slot[s].challenge \in Nat /\ slot[s].challenge <= drawn
    BY <1>0 DEF Numbered, Types, SlotType
  <2>4. \A s \in Slot : slot[s].challenge <= drawn + 1
    BY <1>3, <2>3
  <2>5. \A s \in Slot, i \in DOMAIN chal' : slot[s].challenge # chal'[i].challenge
    BY SMTT(30), <1>0, <1>3, <1>4, <1>8, <2>3 DEF Numbered
  <2> QED BY <1>8, <2>1, <2>2, <2>4, <2>5 DEF Numbered
<1>18. Refusals'
  <2>1. c.challenge \notin refused
    BY <1>0, <1>3, <1>4 DEF Numbered
  <2>2. \A i \in DOMAIN chal' :
          /\ chal'[i].auth \in {"WAIT", "ONLYLAN"} => chal'[i].from.host \notin Lan
          /\ chal'[i].challenge \in refused =>
               chal'[i].auth \in {"WAIT", "ONLYLAN"} /\ chal'[i].reply # "NONE"
    BY <1>0, <1>5, <1>8, <2>1 DEF Refusals
  <2> QED BY <1>0, <2>2 DEF Refusals, KeyChecked, InUse
<1>19. Current'
  <2>0. \A d \in Client : cl[d].challenge \in Nat /\ cl[d].challenge <= drawn
    BY <1>0 DEF Current, Types, ClientType
  <2>1. \A d \in Client : cl[d].challenge <= drawn + 1
    BY <1>3, <2>0
  <2>2. \A q \in UnderWay : q.type = "challengeResponse" =>
          q.challenge \in Nat /\ 1 <= q.challenge /\ q.challenge <= drawn
    BY <1>0 DEF Current, Types
  <2>3. \A q \in UnderWay' : q.type = "challengeResponse" => 1 <= q.challenge /\ q.challenge <= drawn + 1
    BY <1>3, <1>12, <2>2
  <2>4. \A d \in Client, i \in DOMAIN chal' :
          cl[d].challenge = chal'[i].challenge => cl[d].serverId = serverId
    <3>1. \A d \in Client : cl[d].challenge # c.challenge
      BY <1>3, <1>4, <2>0
    <3> QED BY <1>0, <1>8, <3>1 DEF Current
  <2>5. ASSUME NEW q \in UnderWay', NEW i \in DOMAIN chal', q.type = "challengeResponse",
               q.challenge = chal'[i].challenge
        PROVE  q.serverId = serverId
    <3>1. CASE q \in UnderWay
      <4>1. q.challenge <= drawn /\ q.challenge \in Nat
        BY <2>2, <2>5, <3>1
      <4>2. chal'[i] # c
        BY <1>3, <1>4, <2>5, <4>1
      <4> QED BY <1>0, <1>8, <2>5, <3>1, <4>2 DEF Current
    <3> QED BY <1>12, <2>5, <3>1
  <2>6. \A q \in UnderWay', d \in Client :
          q.type = "connect" /\ q.id = ClientId(d) =>
            cl[d].state # "CHALLENGING" /\ (Waiting(d) => q.challenge = cl[d].challenge)
    BY <1>0, <1>11 DEF Current
  <2>7. \A d \in Client : ClientId(d)' = ClientId(d) /\ (Waiting(d)' <=> Waiting(d))
    BY DEF ClientId, Waiting
  <2> QED BY <1>0, <2>1, <2>3, <2>4, <2>5, <2>6, <2>7 DEF Current
<1>20. Answers'
  <2>1. \A s \in Slot, d \in Client, n \in {0, 1, 2} : Kept(s, d, n) => Kept(s, d, n)'
    BY DEF Kept, Addr
  <2>2. \A d \in Client, s \in Slot :
          Connected(d) /\ slot'[s].addr = Addr(d) /\ slot'[s].id = ClientId(d) => cl[d].clientNum = s
    BY <1>0 DEF Answers
  <2>3. \A q \in UnderWay' : q.type \in {"connect", "connectResponse"} =>
           q \in UnderWay /\ (q \in net' => q \in net)
    BY <1>11
  <2> QED BY <2>1, <2>2, <2>3, AnswersStay
<1> QED BY <1>13, <1>14, <1>15, <1>16, <1>17, <1>18, <1>19, <1>20 DEF IInv

LEMMA ProcessChallengeKeeps ==
  ASSUME IInv, NEW p \in UnderWay, ProcessChallenge(p)
  PROVE  IInv'
<1>1. CASE \E i \in Asked(p.from, p.id) :
          /\ Send(p, {ChallengeResponse(p.from, chal[i].challenge)})
          /\ chal' = [chal EXCEPT ![i].auth = AuthAfter(p.from, @)]
          /\ UNCHANGED drawn
  BY <1>1, ChallengeAgain DEF ProcessChallenge
<1>2. CASE /\ drawn' = drawn + 1
           /\ Send(p, {ChallengeResponse(p.from, drawn + 1)})
           /\ chal' = Remembered([NewChallenge(p.from, p.id) EXCEPT !.auth = AuthAfter(p.from, @)])
  BY <1>2, ChallengeNew DEF ProcessChallenge
<1> QED BY <1>1, <1>2 DEF ProcessChallenge

-----------------------------------------------------------------------------
(* A slot is given *)

\* A sequence without its element i.
Without(q, i) == SubSeq(q, 1, i - 1) \o SubSeq(q, i + 1, Len(q))

LEMMA WithoutPlace ==
  ASSUME NEW T, NEW q \in Seq(T), NEW i \in 1 .. Len(q)
  PROVE  /\ Without(q, i) \in Seq(T) /\ Len(Without(q, i)) = Len(q) - 1
         /\ \A k \in 1 .. Len(q) - 1 : Without(q, i)[k] = q[IF k < i THEN k ELSE k + 1]
<1> DEFINE before == SubSeq(q, 1, i - 1)
           after == SubSeq(q, i + 1, Len(q))
<1>1. before \in Seq(T) /\ after \in Seq(T)
  OBVIOUS
<1>2. Len(before) = i - 1 /\ Len(after) = Len(q) - i
  OBVIOUS
<1>3. \A k \in 1 .. i - 1 : before[k] = q[k]
  OBVIOUS
<1>4. \A k \in 1 .. Len(q) - i : after[k] = q[i + k]
  OBVIOUS
<1> HIDE DEF before, after
<1>5. /\ before \o after \in Seq(T)
      /\ Len(before \o after) = Len(before) + Len(after)
      /\ \A k \in 1 .. Len(before) + Len(after) : (before \o after)[k] =
            IF k <= Len(before) THEN before[k] ELSE after[k - Len(before)]
  BY <1>1, ConcatProperties
<1>6. Len(q) \in Nat /\ i \in Nat /\ 1 <= i /\ i <= Len(q)
  OBVIOUS
<1>7. Len(before) + Len(after) = Len(q) - 1
  BY <1>2, <1>6
<1> DEFINE w == before \o after
<1>8. /\ w \in Seq(T) /\ Len(w) = Len(q) - 1
      /\ \A k \in 1 .. Len(q) - 1 : w[k] = IF k <= i - 1 THEN before[k] ELSE after[k - (i - 1)]
  BY <1>2, <1>5, <1>7
<1> HIDE DEF w
<1>9. ASSUME NEW k \in 1 .. Len(q) - 1 PROVE w[k] = q[IF k < i THEN k ELSE k + 1]
  <2>1. CASE k < i
    <3>1. k \in 1 .. i - 1
      BY <1>6, <2>1
    <3>2. w[k] = before[k] /\ before[k] = q[k]
      BY <1>3, <1>8, <3>1
    <3> QED BY <2>1, <3>2
  <2>2. CASE ~(k < i)
    <3>1. k - (i - 1) \in 1 .. Len(q) - i /\ i + (k - (i - 1)) = k + 1 /\ ~(k <= i - 1)
      BY <1>6, <2>2
    <3>2. w[k] = after[k - (i - 1)]
      BY <1>8, <3>1
    <3>3. after[k - (i - 1)] = q[k + 1]
      BY <1>4, <3>1
    <3> QED BY <2>2, <3>2, <3>3
  <2> QED BY <2>1, <2>2
<1>10. Without(q, i) = w
  BY DEF Without, w, before, after
<1> QED BY <1>8, <1>9, <1>10

LEMMA WithoutIs ==
  ASSUME Types, NEW i \in DOMAIN chal,
         \A j, k \in DOMAIN chal : chal[j].challenge = chal[k].challenge => j = k
  PROVE  /\ WithoutChallenge(i) \in Seq(ChallengeType)
         /\ \A k \in DOMAIN WithoutChallenge(i) :
              \E j \in DOMAIN chal : j # i /\ WithoutChallenge(i)[k] = chal[j]
         /\ \A k, l \in DOMAIN WithoutChallenge(i) :
              WithoutChallenge(i)[k].challenge = WithoutChallenge(i)[l].challenge => k = l
<1> DEFINE W == WithoutChallenge(i)
           at(k) == IF k < i THEN k ELSE k + 1
<1>0. chal \in Seq(ChallengeType) /\ Len(chal) \in Nat /\ DOMAIN chal = 1 .. Len(chal) /\ i \in 1 .. Len(chal)
  BY DEF Types
<1>1. /\ W \in Seq(ChallengeType) /\ Len(W) = Len(chal) - 1
      /\ \A k \in 1 .. Len(chal) - 1 : W[k] = chal[at(k)]
  <2>1. W = Without(chal, i)
    BY DEF Without, WithoutChallenge
  <2> HIDE DEF W
  <2> QED BY ZenonT(60), <1>0, <2>1, WithoutPlace
<1> HIDE DEF W
<1>2. DOMAIN W = 1 .. Len(chal) - 1
  BY <1>1
<1>3. \A k \in DOMAIN W : at(k) \in DOMAIN chal /\ at(k) # i /\ W[k] = chal[at(k)]
  BY <1>0, <1>1, <1>2
<1>4. ASSUME NEW k \in DOMAIN W, NEW l \in DOMAIN W, W[k].challenge = W[l].challenge PROVE k = l
  <2>1. at(k) = at(l)
    BY <1>3, <1>4
  <2>2. k \in Nat /\ l \in Nat /\ i \in Nat
    BY <1>0, <1>2
  <2> QED BY <2>1, <2>2
<1>5. \A k \in DOMAIN W : \E j \in DOMAIN chal : j # i /\ W[k] = chal[j]
  BY <1>3
<1> QED BY <1>1, <1>4, <1>5 DEF W

\* The slot s is given, with the address from, to a client that has it or to
\* whom it is free: nobody who is counted on to have a slot loses it.
GivenTo(s, from) ==
  /\ (\E t \in Slot : slot[t].addr = from) => slot[s].addr = from
  /\ (\A t \in Slot : slot[t].addr # from) =>
       SameHost(from, slot[s].addr) \/ slot[s].state = "FREE"

SlotGiven(s, from, id, n) ==
  slot' = [slot EXCEPT ![s] = [state |-> "CONNECTED", addr |-> from, id |-> id,
                               age |-> 0, silent |-> 0, challenge |-> n]]

LEMMA GivenTypes ==
  ASSUME Types, NEW s \in Slot, NEW from \in Address, NEW id \in Ids, NEW n \in Nat,
         SlotGiven(s, from, id, n)
  PROVE  /\ slot' \in [Slot -> SlotType]
         /\ slot'[s].addr = from /\ slot'[s].id = id /\ slot'[s].state = "CONNECTED"
         /\ slot'[s].silent = 0 /\ slot'[s].challenge = n
         /\ \A t \in Slot : t # s => slot'[t] = slot[t]
<1>1. slot \in [Slot -> SlotType]
  BY DEF Types
<1> DEFINE v == [state |-> "CONNECTED", addr |-> from, id |-> id,
                 age |-> 0, silent |-> 0, challenge |-> n]
<1>2. v \in SlotType
  BY DEF SlotType, SlotStates
<1>3. v.addr = from /\ v.id = id /\ v.state = "CONNECTED" /\ v.silent = 0 /\ v.challenge = n
  OBVIOUS
<1>4. slot' = [slot EXCEPT ![s] = v]
  BY DEF SlotGiven
<1> HIDE DEF v
<1> QED BY <1>1, <1>2, <1>3, <1>4

LEMMA GivenApart ==
  ASSUME Types, Apart, NEW s \in Slot, NEW from \in Address, NEW id \in Ids, NEW n \in Nat,
         SlotGiven(s, from, id, n), GivenTo(s, from), from # Nobody
  PROVE  Apart'
<1>1. slot'[s].addr = from /\ \A t \in Slot : t # s => slot'[t] = slot[t]
  BY GivenTypes
<1>2. ASSUME NEW t \in Slot, t # s PROVE slot[t].addr # from
  <2>1. slot[t].addr = from => slot[s].addr = from
    BY DEF GivenTo
  <2> QED BY <1>2, <2>1 DEF Apart
<1>3. \A t, u \in Slot : slot'[t].addr = slot'[u].addr => t = u \/ slot'[t].addr = Nobody
  BY <1>1, <1>2 DEF Apart
<1>4. \A t \in Slot : InUse(t)' => slot'[t].addr # Nobody
  BY <1>1 DEF Apart, InUse
<1> QED BY <1>3, <1>4 DEF Apart

LEMMA GivenKept ==
  ASSUME Types, NEW s \in Slot, NEW from \in Address, NEW id \in Ids, NEW n \in Nat,
         SlotGiven(s, from, id, n), GivenTo(s, from), UNCHANGED cl,
         \A d \in Client : SameHost(from, Addr(d)) => from = Addr(d)
  PROVE  \A t \in Slot, d \in Client, k \in {0, 1, 2} : Kept(t, d, k) => Kept(t, d, k)'
<1> SUFFICES ASSUME NEW t \in Slot, NEW d \in Client, NEW k \in {0, 1, 2}, Kept(t, d, k)
             PROVE  Kept(t, d, k)'
  OBVIOUS
<1>0. Addr(d)' = Addr(d)
  BY DEF Addr
<1>1. /\ slot'[s].addr = from /\ slot'[s].state = "CONNECTED" /\ slot'[s].silent = 0
      /\ \A u \in Slot : u # s => slot'[u] = slot[u]
  BY GivenTypes
<1>2. CASE t # s
  BY <1>0, <1>1, <1>2 DEF Kept
<1>3. CASE t = s
  <2>1. slot[s].addr = Addr(d) /\ slot[s].state # "FREE"
    BY <1>3 DEF Kept
  <2>2. from = Addr(d)
    BY <2>1 DEF GivenTo
  <2> QED BY <1>0, <1>1, <1>3, <2>2 DEF Kept
<1> QED BY <1>2, <1>3

\* The client that is let in has its slot by a challenge that nobody refused.
LEMMA Admission ==
  ASSUME IInv, NEW p \in UnderWay, p.type = "connect", NEW i \in Valid(p),
         KeyOk(i) \/ MayTimeOut(i), set.pure => chal[i].auth = "PUREOK",
         NEW s \in Slot, GivenTo(s, p.from), SlotGiven(s, p.from, p.id, chal[i].challenge),
         Send(p, {ConnectResponse(p.from, s)}), chal' = WithoutChallenge(i),
         UNCHANGED <<set, cl, drawn, others, serverId, refused>>
  PROVE  IInv'
<1> DEFINE m == ConnectResponse(p.from, s)
<1>0. Types /\ Apart /\ Paks /\ Numbered /\ Refusals /\ Current /\ Answers
  BY DEF IInv
<1>1. PICK first \in Firsts : Programs(first)
  BY DEF IInv
<1>2. FromProgram(p, first)
  BY <1>1 DEF Programs, IsToServer
<1>3. PICK c \in Client, k \in Nat :
           /\ first[c] <= k /\ k <= cl[c].session /\ 1 <= k
           /\ p.from = [host |-> Host[c], port |-> <<c, cl[c].port>>] /\ p.from = Addr(c)
           /\ p.id = <<c, k>>
           /\ p.from \in Address /\ p.id \in Ids /\ p.from # Nobody
           /\ cl[c].port \in Nat /\ cl[c].port >= 1
  BY <1>0, <1>1, <1>2, ProgramFacts
<1>4. /\ i \in DOMAIN chal /\ chal[i].from = p.from /\ chal[i].challenge = p.challenge
      /\ chal[i].challenge \in Nat
  BY <1>0, ChallengeIs DEF Valid
<1>5. /\ slot' \in [Slot -> SlotType]
      /\ slot'[s].addr = p.from /\ slot'[s].id = p.id /\ slot'[s].state = "CONNECTED"
      /\ slot'[s].silent = 0 /\ slot'[s].challenge = chal[i].challenge
      /\ \A t \in Slot : t # s => slot'[t] = slot[t]
  BY <1>0, <1>3, <1>4, GivenTypes
<1>6. /\ chal' \in Seq(ChallengeType)
      /\ \A j \in DOMAIN chal' : \E l \in DOMAIN chal : l # i /\ chal'[j] = chal[l]
      /\ \A j, l \in DOMAIN chal' : chal'[j].challenge = chal'[l].challenge => j = l
  BY <1>0, <1>4, WithoutIs DEF Numbered
<1>7. /\ \A q \in UnderWay' : q \in UnderWay \/ (q = m /\ q \in net')
      /\ \A q \in net' : q \in net \/ q = m
  BY Sends DEF UnderWay
<1>8. m.type = "connectResponse" /\ m.to = p.from /\ m.clientNum = s
  BY DEF ConnectResponse
<1> HIDE DEF m
<1>9. \A q \in UnderWay' : q.type # "connectResponse" => q \in UnderWay /\ (q \in net' => q \in net)
  BY <1>7, <1>8
<1>10. \A d \in Client : /\ Addr(d)' = Addr(d) /\ ClientId(d)' = ClientId(d)
                         /\ (Waiting(d)' <=> Waiting(d)) /\ (Connected(d)' <=> Connected(d))
  BY DEF Addr, ClientId, Waiting, Connected
<1>11. \A d \in Client : SameHost(p.from, Addr(d)) => d = c /\ p.from = Addr(d)
  <2>1. \A d \in Client : Addr(d).host = Host[d]
    BY DEF Addr
  <2>2. p.from.host = Host[c]
    BY <1>3
  <2> QED BY <1>3, <2>1, <2>2, HandshakeAssumption DEF SameHost
<1>12. \A d \in Client : ClientId(d) = p.id => d = c
  BY <1>3 DEF ClientId
<1>13. Types'
  <2>1. \A q \in UnderWay' : q.type = "connectResponse" => q.clientNum \in Slot
    BY <1>0, <1>7, <1>8 DEF Types
  <2> QED BY <1>0, <1>5, <1>6, <1>9, <2>1 DEF Types
<1>14. \E f \in Firsts : Programs(f)'
  <2>1. \A q \in UnderWay' : IsToServer(q) => FromProgram(q, first)'
    <3>1. \A q \in UnderWay' : IsToServer(q) => q \in UnderWay
      BY <1>9 DEF IsToServer
    <3> QED BY <1>1, <1>10, <3>1 DEF Programs, FromProgram
  <2>2. \A t \in Slot : Known(slot[t], first)'
    <3> SUFFICES ASSUME NEW t \in Slot PROVE Known(slot[t], first)'
      OBVIOUS
    <3>1. CASE t # s
      <4>1. Known(slot[t], first) /\ slot'[t] = slot[t]
        BY <1>1, <1>5, <3>1 DEF Programs
      <4> QED BY SMTT(30), <4>1 DEF Known
    <3>2. CASE t = s
      <4>1. /\ slot'[t].addr = [host |-> Host[c], port |-> <<c, cl[c].port>>]
            /\ slot'[t].id = <<c, k>> /\ cl' = cl
        BY <1>3, <1>5, <3>2
      <4>2. PICK n \in Nat : n = cl[c].port /\ n = cl'[c].port /\ 1 <= n /\ n <= cl'[c].port
        BY <1>3
      <4>3. k <= cl'[c].session /\ k >= first[c]
        BY <1>3 DEF Firsts
      <4> QED BY <1>3, <4>1, <4>2, <4>3 DEF Known
    <3> QED BY <3>1, <3>2
  <2>3. Programs(first)'
    BY <1>1, <2>1, <2>2 DEF Programs, IsToServer
  <2> QED BY <2>3
<1>15. Apart'
  BY <1>0, <1>3, <1>4, GivenApart
<1>16. Paks'
  <2> SUFFICES ASSUME NEW d \in Client, cl[d].paks # "ok"
               PROVE  /\ \A q \in UnderWay' : q.type = "pureClient" => ~Of(q.from, d)
                      /\ \A j \in DOMAIN chal' : chal'[j].auth = "PUREOK" => ~Of(chal'[j].from, d)
                      /\ set.pure => \A t \in Slot : InUse(t)' => ~Of(slot'[t].addr, d)
    BY DEF Paks, Of
  <2>1. \A q \in UnderWay' : q.type = "pureClient" => ~Of(q.from, d)
    BY <1>0, <1>9 DEF Paks
  <2>2. \A j \in DOMAIN chal' : chal'[j].auth = "PUREOK" => ~Of(chal'[j].from, d)
    BY <1>0, <1>6 DEF Paks
  <2>3. ASSUME set.pure, NEW t \in Slot, InUse(t)' PROVE ~Of(slot'[t].addr, d)
    <3>1. CASE t # s
      BY <1>0, <1>5, <2>3, <3>1 DEF Paks, InUse
    <3>2. CASE t = s
      BY <1>0, <1>4, <1>5, <2>3, <3>2 DEF Paks
    <3> QED BY <3>1, <3>2
  <2> QED BY <2>1, <2>2, <2>3
<1>17. Numbered'
  <2>1. \A j \in DOMAIN chal' : 1 <= chal'[j].challenge /\ chal'[j].challenge <= drawn
    BY <1>0, <1>6 DEF Numbered
  <2>2. \A t \in Slot : slot'[t].challenge <= drawn
    BY <1>0, <1>4, <1>5 DEF Numbered
  <2>3. \A t \in Slot, j \in DOMAIN chal' : slot'[t].challenge # chal'[j].challenge
    BY <1>0, <1>4, <1>5, <1>6 DEF Numbered
  <2> QED BY <1>0, <1>6, <2>1, <2>2, <2>3 DEF Numbered
<1>18. Refusals'
  <2>1. chal[i].challenge \notin refused
    BY <1>4, NotRefused
  <2>2. \A j \in DOMAIN chal' :
          /\ chal'[j].auth \in {"WAIT", "ONLYLAN"} => chal'[j].from.host \notin Lan
          /\ chal'[j].challenge \in refused =>
               chal'[j].auth \in {"WAIT", "ONLYLAN"} /\ chal'[j].reply # "NONE"
    BY <1>0, <1>6 DEF Refusals
  <2>3. \A t \in Slot : InUse(t)' => slot'[t].challenge \notin refused
    BY <1>0, <1>5, <2>1 DEF Refusals, KeyChecked, InUse
  <2> QED BY <2>2, <2>3 DEF Refusals, KeyChecked
<1>19. Current'
  <2>1. \A q \in UnderWay' : q.type = "challengeResponse" => 1 <= q.challenge /\ q.challenge <= drawn
    BY <1>0, <1>9 DEF Current
  <2>2. \A d \in Client, j \in DOMAIN chal' :
          cl[d].challenge = chal'[j].challenge => cl[d].serverId = serverId
    BY <1>0, <1>6 DEF Current
  <2>3. \A q \in UnderWay', j \in DOMAIN chal' :
          q.type = "challengeResponse" /\ q.challenge = chal'[j].challenge => q.serverId = serverId
    BY <1>0, <1>6, <1>9 DEF Current
  <2>4. \A q \in UnderWay', d \in Client :
          q.type = "connect" /\ q.id = ClientId(d) =>
            cl[d].state # "CHALLENGING" /\ (Waiting(d) => q.challenge = cl[d].challenge)
    BY <1>0, <1>9 DEF Current
  <2>5. ASSUME NEW t \in Slot, NEW d \in Client, slot'[t].id = ClientId(d)
        PROVE  cl[d].state # "CHALLENGING" /\ (Waiting(d) => cl[d].serverId = serverId)
    <3>1. CASE t # s
      BY <1>0, <1>5, <2>5, <3>1 DEF Current
    <3>2. CASE t = s
      <4>1. p.id = ClientId(d)
        BY <1>5, <2>5, <3>2
      <4>2. cl[d].state # "CHALLENGING" /\ (Waiting(d) => p.challenge = cl[d].challenge)
        BY <1>0, <4>1 DEF Current
      <4> QED BY <1>0, <1>4, <4>2 DEF Current
    <3> QED BY <3>1, <3>2
  <2> QED BY <1>0, <1>10, <2>1, <2>2, <2>3, <2>4, <2>5 DEF Current
<1>20. Answers'
  <2>1. \A t \in Slot, d \in Client, n \in {0, 1, 2} : Kept(t, d, n) => Kept(t, d, n)'
    BY <1>0, <1>3, <1>4, <1>11, GivenKept
  <2>2. ASSUME NEW d \in Client, NEW t \in Slot, Connected(d), slot'[t].addr = Addr(d),
               slot'[t].id = ClientId(d)
        PROVE  cl[d].clientNum = t
    <3>1. CASE t # s
      BY <1>0, <1>5, <2>2, <3>1 DEF Answers
    <3>2. CASE t = s
      <4>1. p.id = ClientId(d) /\ p.from = Addr(d)
        BY <1>5, <2>2, <3>2
      <4>2. Kept(cl[d].clientNum, d, IF p \in net THEN 1 ELSE 2)
        BY <1>0, <2>2, <4>1 DEF Answers
      <4>3. cl[d].clientNum \in Slot /\ slot[cl[d].clientNum].addr = p.from
        BY <1>0, <4>1, <4>2 DEF Kept, Types, ClientType
      <4>4. slot[s].addr = p.from
        BY <4>3 DEF GivenTo
      <4> QED BY <1>0, <1>3, <3>2, <4>3, <4>4 DEF Apart
    <3> QED BY <3>1, <3>2
  <2>3. \A q \in UnderWay' : q.type = "connect" => q \in UnderWay /\ (q \in net' => q \in net)
    BY <1>9
  <2>4. Kept(s, c, 0)'
    BY <1>3, <1>5, <1>10 DEF Kept
  <2>5. ASSUME NEW q \in UnderWay', q.type = "connectResponse"
        PROVE  \/ q \in UnderWay /\ (q \in net' => q \in net)
               \/ q \in net' /\ \E d \in Client : q.to = Addr(d) /\ Kept(q.clientNum, d, 0)'
    <3>1. CASE q = m /\ q \in net'
      BY <1>3, <1>8, <2>4, <3>1
    <3>2. CASE ~(q = m /\ q \in net')
      BY <1>7, <3>2
    <3> QED BY <3>1, <3>2
  <2>6. \A q \in UnderWay' : q.type \in {"connect", "connectResponse"} =>
          \/ q \in UnderWay /\ (q \in net' => q \in net)
          \/ /\ q.type = "connectResponse" /\ q \in net'
             /\ \E d \in Client : q.to = Addr(d) /\ Kept(q.clientNum, d, 0)'
    BY <2>3, <2>5
  <2> QED BY <2>1, <2>2, <2>6, AnswersStay
<1> QED BY <1>13, <1>14, <1>15, <1>16, <1>17, <1>18, <1>19, <1>20 DEF IInv

LEMMA ChosenIs ==
  ASSUME Types, NEW from, NEW id, Candidates(from, id) # {},
         Holding(from, id) = {t \in Slot : slot[t].addr = from}
  PROVE  LET s == First(Candidates(from, id)) IN s \in Slot /\ GivenTo(s, from)
BY Chosen DEF GivenTo

LEMMA AdmitKeeps ==
  ASSUME IInv, NEW p \in UnderWay, p.type = "connect", NEW i \in Valid(p),
         KeyOk(i) \/ MayTimeOut(i), set.pure => chal[i].auth = "PUREOK", Admit(p, i),
         UNCHANGED <<set, cl, drawn, others, serverId, refused>>
  PROVE  IInv'
<1>0. Types /\ i \in DOMAIN chal
  BY DEF IInv, Valid
<1>1. CASE Candidates(p.from, p.id) = {}
  <2>1. chal' = [chal EXCEPT ![i].connected = TRUE] /\ slot' = slot /\ Send(p, {})
    BY <1>1 DEF Admit
  <2>2. PICK ms : Send(p, ms) /\ \A m \in ms : Harmless(m)
    BY <2>1
  <2>3. UNCHANGED <<set, cl, slot, drawn, others, serverId, refused>>
    BY <2>1
  <2>4. \/ chal' = [chal EXCEPT ![i].guid = TRUE]
        \/ chal' = [chal EXCEPT ![i].connected = TRUE]
    BY <2>1
  <2> QED BY <1>0, <2>1, <2>2, <2>3, <2>4, Marked
<1>2. CASE Candidates(p.from, p.id) # {}
  <2>1. PICK s : s = First(Candidates(p.from, p.id))
    OBVIOUS
  <2>2. /\ SlotGiven(s, p.from, p.id, chal[i].challenge)
        /\ Send(p, {ConnectResponse(p.from, s)}) /\ chal' = WithoutChallenge(i)
    BY <1>2, <2>1 DEF Admit, InitClient, SlotGiven
  <2>3. PICK first \in Firsts : Programs(first)
    BY DEF IInv
  <2>4. FromProgram(p, first)
    BY <2>3 DEF Programs, IsToServer
  <2>5. Holding(p.from, p.id) = {t \in Slot : slot[t].addr = p.from}
    BY <1>0, <2>3, <2>4, HoldingIs
  <2>6. s \in Slot /\ GivenTo(s, p.from)
    BY <1>0, <1>2, <2>1, <2>5, ChosenIs
  <2> QED BY <2>2, <2>6, Admission
<1> QED BY <1>1, <1>2

LEMMA ProcessConnectKeeps ==
  ASSUME IInv, NEW p \in UnderWay, ProcessConnect(p)
  PROVE  IInv'
<1>0. p.type = "connect" /\ UNCHANGED <<set, cl, drawn, others, serverId, refused>>
  BY DEF ProcessConnect
<1>1. \/ UNCHANGED <<slot, chal>> /\ Send(p, {})
      \/ UNCHANGED <<slot, chal>> /\ Send(p, {ToClient("badChallenge", p.from)})
      \/ UNCHANGED <<slot, chal>> /\ Send(p, {ToClient("pureServer", p.from)})
      \/ \E i \in Valid(p) : AskMaster(p, i)
      \/ \E i \in Valid(p) : (KeyOk(i) \/ MayTimeOut(i)) /\ Allow(p, i)
  BY DEF ProcessConnect
<1>2. ASSUME UNCHANGED <<slot, chal>>, NEW ms, Send(p, ms), \A m \in ms : Harmless(m) PROVE IInv'
  BY <1>0, <1>2, NoSlot
<1>3. /\ \A m \in {ToClient("badChallenge", p.from)} : Harmless(m)
      /\ \A m \in {ToClient("pureServer", p.from)} : Harmless(m)
      /\ \A m \in {[type |-> "srvAuth", id |-> p.id]} : Harmless(m)
      /\ \A m \in {} : Harmless(m)
  BY AnswersAreHarmless
<1>4. ASSUME NEW i \in Valid(p), AskMaster(p, i) PROVE IInv'
  <2>1. i \in DOMAIN chal /\ chal' = [chal EXCEPT ![i].guid = TRUE] /\ slot' = slot
    BY <1>4 DEF AskMaster, Valid
  <2>2. Send(p, {}) \/ Send(p, {[type |-> "srvAuth", id |-> p.id]})
    BY <1>4 DEF AskMaster
  <2>3. UNCHANGED <<set, cl, slot, drawn, others, serverId, refused>>
    BY <1>0, <2>1
  <2>4. \/ chal' = [chal EXCEPT ![i].guid = TRUE]
        \/ chal' = [chal EXCEPT ![i].connected = TRUE]
    BY <2>1
  <2>5. PICK ms : Send(p, ms) /\ \A m \in ms : Harmless(m)
    <3>1. CASE Send(p, {})
      BY <1>3, <3>1
    <3>2. CASE Send(p, {[type |-> "srvAuth", id |-> p.id]})
      BY <1>3, <3>2
    <3> QED BY <2>2, <3>1, <3>2
  <2> QED BY <2>1, <2>3, <2>4, <2>5, Marked
<1>5. ASSUME NEW i \in Valid(p), KeyOk(i) \/ MayTimeOut(i), Allow(p, i) PROVE IInv'
  <2>0. i \in DOMAIN chal
    BY DEF Valid
  <2>1. CASE UNCHANGED <<slot, chal>> /\ Send(p, {})
    BY <1>2, <1>3, <2>1
  <2>2. CASE /\ Send(p, {ToClient("pureServer", p.from)})
             /\ chal' = [chal EXCEPT ![i].auth = "PUREWAIT"]
             /\ UNCHANGED slot
    BY <1>0, <1>3, <1>5, <2>0, <2>2, PureAsked
  <2>3. CASE ~(set.pure /\ chal[i].auth # "PUREOK") /\ Admit(p, i)
    BY <1>0, <1>5, <2>3, AdmitKeeps
  <2> QED BY <1>5, <2>1, <2>2, <2>3 DEF Allow
<1> QED BY <1>1, <1>2, <1>3, <1>4, <1>5

LEMMA ServerReceiveKeeps ==
  ASSUME IInv, NEW p \in UnderWay, ServerReceive(p)
  PROVE  IInv'
BY ProcessChallengeKeeps, ProcessConnectKeeps, ProcessPureClientKeeps, ProcessAuthKeeps,
   ProcessClientPacketKeeps DEF ServerReceive

LEMMA OtherConnectsKeeps ==
  ASSUME IInv, OtherConnects
  PROVE  IInv'
<1> DEFINE other == <<"other", others + 1>>
           from == [host |-> "elsewhere", port |-> other]
<1>0. Types /\ Apart /\ Paks /\ Numbered /\ Refusals /\ Current /\ Answers
  BY DEF IInv
<1>1. PICK first \in Firsts : Programs(first)
  BY DEF IInv
<1>2. /\ Holding(from, other) = {}
      /\ from \in Address /\ other \in Ids /\ from # Nobody
      /\ \A t \in Slot : slot[t].addr # from
  BY <1>0, <1>1, HoldingElsewhere
<1>3. Holding(from, other) = {t \in Slot : slot[t].addr = from}
  BY <1>2
<1>4. /\ others' = others + 1 /\ UNCHANGED <<set, cl, chal, drawn, serverId, net, refused, late>>
      /\ Candidates(from, other) # {}
  BY DEF OtherConnects
<1>5. PICK s : s = First(Candidates(from, other))
  OBVIOUS
<1>6. SlotGiven(s, from, other, 0)
  BY <1>5 DEF OtherConnects, InitClient, SlotGiven
<1>7. s \in Slot /\ GivenTo(s, from)
  BY <1>0, <1>3, <1>4, <1>5, ChosenIs
<1>8. from.host = "elsewhere" /\ from.port = other
  OBVIOUS
<1>9. \A d \in Client : other # ClientId(d) /\ ~SameHost(from, Addr(d)) /\ ~Of(from, d)
  <2>1. \A d \in Client : Host[d] # "elsewhere" /\ d # "other"
    BY HandshakeAssumption
  <2>2. \A d \in Client : Addr(d).host = Host[d]
    BY DEF Addr
  <2>3. \A d \in Client : ~SameHost(from, Addr(d))
    BY <1>8, <2>1, <2>2 DEF SameHost
  <2>4. \A d \in Client : other # ClientId(d)
    BY <2>1 DEF ClientId
  <2>5. \A d \in Client : ~Of(from, d)
    BY <1>8, <2>1 DEF Of
  <2> QED BY <2>3, <2>4, <2>5
<1>10. others \in Nat /\ others' \in Nat
  BY <1>0, <1>4 DEF Types
<1>11. PICK id : id = other
  OBVIOUS
<1>12. PICK a : a = from
  OBVIOUS
<1>13. /\ slot' \in [Slot -> SlotType]
       /\ slot'[s].addr = a /\ slot'[s].id = id /\ slot'[s].state = "CONNECTED"
       /\ slot'[s].silent = 0 /\ slot'[s].challenge = 0
       /\ \A t \in Slot : t # s => slot'[t] = slot[t]
  BY <1>0, <1>2, <1>6, <1>7, <1>11, <1>12, GivenTypes
<1>14. /\ a \in Address /\ id \in Ids /\ a # Nobody /\ SlotGiven(s, a, id, 0) /\ GivenTo(s, a)
       /\ \A d \in Client : id # ClientId(d) /\ ~SameHost(a, Addr(d)) /\ ~Of(a, d)
  BY <1>2, <1>6, <1>7, <1>9, <1>11, <1>12
<1>15. /\ id = <<"other", others + 1>>
       /\ a = [host |-> "elsewhere", port |-> <<"other", others + 1>>]
  BY <1>11, <1>12
<1> HIDE DEF other, from
<1>16. UnderWay' = UnderWay
  BY <1>4 DEF UnderWay
<1>17. \A d \in Client : /\ Addr(d)' = Addr(d) /\ ClientId(d)' = ClientId(d)
                         /\ (Waiting(d)' <=> Waiting(d)) /\ (Connected(d)' <=> Connected(d))
  BY <1>4 DEF Addr, ClientId, Waiting, Connected
<1>18. Types'
  BY <1>0, <1>4, <1>10, <1>13, <1>16 DEF Types
<1>19. \E f \in Firsts : Programs(f)'
  <2>1. \A q \in UnderWay' : IsToServer(q) => FromProgram(q, first)'
    BY <1>1, <1>4, <1>16, <1>17 DEF Programs, FromProgram
  <2>2. \A t \in Slot : Known(slot[t], first)'
    <3> SUFFICES ASSUME NEW t \in Slot PROVE Known(slot[t], first)'
      OBVIOUS
    <3>1. CASE t # s
      <4>1. PICK v : v = slot[t]
        OBVIOUS
      <4>2. Known(v, first)
        BY <1>1, <4>1 DEF Programs
      <4>3. \A d \in Client : cl[d].session <= cl'[d].session /\ cl'[d].port = cl[d].port
        BY <1>0, <1>4 DEF Types, ClientType
      <4>4. Known(v, first)'
        BY <1>0, <1>4, <1>10, <1>18, <4>2, <4>3, KnownStays
      <4>5. slot'[t] = v
        BY <1>13, <3>1, <4>1
      <4> QED BY <4>4, <4>5 DEF Known
    <3>2. CASE t = s
      <4>1. PICK n \in Nat : n = others + 1 /\ n = others'
        BY <1>4, <1>10
      <4>2. slot'[t].addr = [host |-> "elsewhere", port |-> <<"other", n>>] /\ slot'[t].id = <<"other", n>>
        BY <1>13, <1>15, <3>2, <4>1
      <4>3. 1 <= n /\ n <= others'
        BY <1>10, <4>1
      <4>4. \E j \in Nat : /\ 1 <= j /\ j <= others'
                            /\ slot'[t].addr = [host |-> "elsewhere", port |-> <<"other", j>>]
                            /\ slot'[t].id = <<"other", j>>
        BY <4>2, <4>3
      <4> QED BY <4>4 DEF Known
    <3> QED BY <3>1, <3>2
  <2>3. Programs(first)'
    BY <1>1, <1>4, <2>1, <2>2 DEF Programs, IsToServer
  <2> QED BY <2>3
<1>20. Apart'
  BY <1>0, <1>7, <1>14, GivenApart
<1>21. Paks'
  <2>1. \A t \in Slot, d \in Client : InUse(t)' => ~Of(slot'[t].addr, d) \/ (t # s /\ InUse(t) /\ slot'[t] = slot[t])
    BY <1>13, <1>14 DEF InUse
  <2> QED BY <1>0, <1>4, <1>16, <2>1 DEF Paks, Of
<1>22. Numbered'
  <2>1. drawn \in Nat /\ \A j \in DOMAIN chal : chal[j].challenge # 0
    BY <1>0 DEF Numbered, Types
  <2>2. \A t \in Slot : slot'[t].challenge <= drawn
    BY <1>0, <1>13, <2>1 DEF Numbered
  <2>3. \A t \in Slot, j \in DOMAIN chal : slot'[t].challenge # chal[j].challenge
    BY <1>0, <1>13, <2>1 DEF Numbered
  <2> QED BY <1>0, <1>4, <2>2, <2>3 DEF Numbered
<1>23. Refusals'
  <2>1. 0 \notin refused
    BY <1>0 DEF Numbered
  <2>2. \A t \in Slot : InUse(t)' => slot'[t].challenge \notin refused
    BY <1>0, <1>13, <2>1 DEF Refusals, KeyChecked, InUse
  <2> QED BY <1>0, <1>4, <2>2 DEF Refusals, KeyChecked
<1>24. Current'
  <2>1. \A t \in Slot, d \in Client : slot'[t].id = ClientId(d) => slot[t].id = ClientId(d)
    BY <1>13, <1>14
  <2> QED BY <1>0, <1>4, <1>16, <1>17, <2>1 DEF Current
<1>25. Answers'
  <2>1. \A t \in Slot, d \in Client, n \in {0, 1, 2} : Kept(t, d, n) => Kept(t, d, n)'
    BY <1>0, <1>4, <1>7, <1>14, GivenKept
  <2>2. \A d \in Client, t \in Slot :
          Connected(d) /\ slot'[t].addr = Addr(d) /\ slot'[t].id = ClientId(d) => cl[d].clientNum = t
    BY <1>0, <1>13, <1>14 DEF Answers
  <2>3. \A q \in UnderWay' : q.type \in {"connect", "connectResponse"} =>
          q \in UnderWay /\ (q \in net' => q \in net)
    BY <1>4, <1>16
  <2> QED BY <1>4, <2>1, <2>2, <2>3, AnswersStay
<1> QED BY <1>18, <1>19, <1>20, <1>21, <1>22, <1>23, <1>24, <1>25 DEF IInv

-----------------------------------------------------------------------------
(* The server starts again; time passes *)

LEMMA RestartKeeps ==
  ASSUME IInv, Restart
  PROVE  IInv'
<1>0. Types /\ Numbered /\ Refusals /\ Current
  BY DEF IInv
<1>1. PICK first \in Firsts : Programs(first)
  BY DEF IInv
<1>2. /\ serverId' = serverId + 1 /\ chal' = <<>> /\ late' = {}
      /\ slot' = [s \in Slot |-> Freed(Nobody, NoId)]
      /\ UNCHANGED <<set, cl, drawn, others, refused>>
  BY DEF Restart, Spawn
<1>3. \A q \in UnderWay' : q.type = "serverSequenced"
  <2>1. \A q \in net' : \E s \in Slot : q = ServerSequenced(s)
    BY DEF Restart
  <2> QED BY <1>2, <2>1 DEF UnderWay, ServerSequenced
<1>4. \A q \in UnderWay' : ~IsToServer(q)
  BY <1>3 DEF IsToServer
<1>5. \A s \in Slot : /\ slot'[s] = Freed(Nobody, NoId) /\ slot'[s].addr = Nobody /\ slot'[s].id = NoId
                      /\ slot'[s].state = "FREE" /\ slot'[s].challenge = 0
  BY <1>2 DEF Freed
<1>6. DOMAIN chal' = {} /\ chal' \in Seq(ChallengeType)
  BY <1>2
<1>7. Types'
  <2>1. Nobody \in Address /\ NoId \in Ids
    BY DEF Nobody, NoId, Address, Hosts, Ids
  <2>2. Freed(Nobody, NoId) \in SlotType
    BY <2>1 DEF Freed, SlotType, SlotStates
  <2>3. slot' \in [Slot -> SlotType]
    BY <1>2, <2>2
  <2>4. serverId' \in Nat
    BY <1>0, <1>2 DEF Types
  <2>5. \A q \in UnderWay' : q.type \notin {"challengeResponse", "connectResponse", "auth"}
    BY <1>3
  <2> QED BY <1>0, <1>2, <1>6, <2>3, <2>4, <2>5 DEF Types
<1>8. \E f \in Firsts : Programs(f)'
  <2>1. \A s \in Slot : Known(slot[s], first)'
    BY <1>5 DEF Known
  <2>2. Programs(first)'
    BY <1>1, <1>2, <1>4, <2>1 DEF Programs, IsToServer
  <2> QED BY <2>2
<1>9. Apart'
  BY <1>5 DEF Apart, InUse
<1>10. Paks'
  <2>1. \A q \in UnderWay' : q.type # "pureClient"
    BY <1>3
  <2> QED BY <1>5, <1>6, <2>1 DEF Paks, InUse
<1>11. Numbered'
  <2>1. drawn \in Nat /\ refused \subseteq 1 .. drawn
    BY <1>0 DEF Types, Numbered
  <2> QED BY <1>2, <1>5, <1>6, <2>1 DEF Numbered
<1>12. Refusals'
  BY <1>5, <1>6 DEF Refusals, KeyChecked, InUse
<1>13. Current'
  <2>1. \A q \in UnderWay' : q.type \notin {"challengeResponse", "connect"}
    BY <1>3
  <2>2. \A c \in Client : cl[c].challenge <= drawn
    BY <1>0 DEF Current
  <2>3. ASSUME NEW c \in Client, NoId = ClientId(c) PROVE cl[c].state = "DISCONNECTED"
    <3>1. cl[c].session = 0
      BY <2>3 DEF NoId, ClientId
    <3>2. first[c] \in Nat \ {0}
      BY DEF Firsts
    <3>3. cl[c].state # "DISCONNECTED" => first[c] <= cl[c].session
      BY <1>1 DEF Programs
    <3> QED BY <3>1, <3>2, <3>3
  <2>4. \A c \in Client : ClientId(c)' = ClientId(c) /\ (Waiting(c)' <=> Waiting(c))
    BY <1>2 DEF ClientId, Waiting
  <2>5. \A s \in Slot, c \in Client :
          slot'[s].id = ClientId(c)' => cl'[c].state # "CHALLENGING" /\ ~Waiting(c)'
    BY <1>2, <1>5, <2>3, <2>4 DEF Waiting
  <2> QED BY <1>2, <1>6, <2>1, <2>2, <2>5 DEF Current
<1>14. Answers'
  <2>1. \A q \in UnderWay' : q.type \notin {"connectResponse", "connect"}
    BY <1>3
  <2>2. \A c \in Client : Addr(c)' # Nobody
    <3>1. \A c \in Client : Addr(c)' = Addr(c)
      BY <1>2 DEF Addr
    <3> QED BY <1>0, <1>1, <3>1, AddrOfSomebody
  <2> QED BY <1>5, <2>1, <2>2 DEF Answers
<1> QED BY <1>7, <1>8, <1>9, <1>10, <1>11, <1>12, <1>13, <1>14 DEF IInv

\* A slot is kept for a tick longer.
LEMMA TickKeeps ==
  ASSUME IInv, Tick
  PROVE  IInv'
<1>0. Types /\ Apart /\ Paks /\ Numbered /\ Refusals /\ Current /\ Answers
  BY DEF IInv
<1>1. /\ net' = {} /\ late' = net
      /\ UNCHANGED <<set, cl, chal, drawn, others, serverId, refused>>
  BY DEF Tick
<1>2. UnderWay' = net /\ net \subseteq UnderWay
  BY <1>1 DEF UnderWay
<1>3. MaxSilent \in Nat /\ MIN_RECONNECT_TIME \in Nat
  BY HandshakeAssumption DEF MaxSilent
<1>4. ASSUME NEW s \in Slot
      PROVE  /\ slot'[s] \in SlotType
             /\ slot'[s].addr = slot[s].addr /\ slot'[s].id = slot[s].id
             /\ slot'[s].challenge = slot[s].challenge /\ slot'[s].state = slot[s].state
             /\ slot'[s].silent <= slot[s].silent + 1
  <2>1. slot[s] \in SlotType /\ slot[s].age \in Nat /\ slot[s].silent \in Nat
    BY <1>0 DEF Types, SlotType
  <2>2. CASE slot[s].state = "FREE"
    <3>1. slot'[s] = slot[s]
      BY <2>2 DEF Tick
    <3> QED BY <2>1, <3>1
  <2>3. CASE slot[s].state # "FREE"
    <3> DEFINE age == UpTo(MIN_RECONNECT_TIME, slot[s].age)
               silent == UpTo(MaxSilent, slot[s].silent)
               v == [slot[s] EXCEPT !.age = age, !.silent = silent]
    <3>1. slot'[s] = v
      BY <2>3 DEF Tick
    <3>2. age \in Nat /\ silent \in Nat /\ silent <= slot[s].silent + 1
      BY <1>3, <2>1 DEF UpTo
    <3> HIDE DEF age, silent
    <3>3. /\ v \in SlotType
          /\ v.addr = slot[s].addr /\ v.id = slot[s].id
          /\ v.challenge = slot[s].challenge /\ v.state = slot[s].state /\ v.silent = silent
      BY <2>1, <3>2 DEF SlotType
    <3> HIDE DEF v
    <3> QED BY <3>1, <3>2, <3>3
  <2> QED BY <2>2, <2>3
<1>5. slot' \in [Slot -> SlotType]
  <2>1. slot' = [s \in Slot |-> slot'[s]]
    BY DEF Tick
  <2> QED BY <1>4, <2>1
<1>6. \A s \in Slot : InUse(s)' <=> InUse(s)
  BY <1>4 DEF InUse
<1>7. \A c \in Client : /\ Addr(c)' = Addr(c) /\ ClientId(c)' = ClientId(c)
                        /\ (Waiting(c)' <=> Waiting(c)) /\ (Connected(c)' <=> Connected(c))
  BY <1>1 DEF Addr, ClientId, Waiting, Connected
<1>8. Types'
  BY <1>0, <1>1, <1>2, <1>5 DEF Types
<1>9. \E f \in Firsts : Programs(f)'
  <2>1. \A p \in UnderWay' : IsToServer(p) => p \in UnderWay
    BY <1>2
  <2> QED BY <1>1, <1>4, <2>1, ProgramsStay
<1>10. Apart'
  BY <1>0, <1>4, <1>6 DEF Apart
<1>11. Paks'
  BY <1>0, <1>1, <1>2, <1>4, <1>6 DEF Paks, Of
<1>12. Numbered'
  BY <1>0, <1>1, <1>4 DEF Numbered
<1>13. Refusals'
  BY <1>0, <1>1, <1>4, <1>6 DEF Refusals, KeyChecked
<1>14. Current'
  BY <1>0, <1>1, <1>2, <1>4, <1>7 DEF Current
<1>15. Answers'
  <2>1. ASSUME NEW s \in Slot, NEW c \in Client, NEW n \in {0, 1}, Kept(s, c, n)
        PROVE  Kept(s, c, n + 1)'
    <3>1. slot[s].silent \in Nat /\ slot'[s].silent \in Nat /\ slot[s].silent <= n
      BY <1>0, <1>4, <2>1 DEF Types, SlotType, Kept
    <3>2. slot'[s].silent <= n + 1
      BY <1>4, <3>1
    <3> QED BY <1>4, <1>7, <2>1, <3>2 DEF Kept
  <2>2. ASSUME NEW p \in UnderWay', p.type = "connectResponse"
        PROVE  \E c \in Client : p.to = Addr(c)' /\ Kept(p.clientNum, c, IF p \in net THEN 0 ELSE 1)'
    <3>1. p \in net /\ p \in UnderWay /\ p \notin net' /\ p.clientNum \in Slot
      BY <1>0, <1>1, <1>2, <2>2 DEF Types
    <3>2. PICK c \in Client : p.to = Addr(c) /\ Kept(p.clientNum, c, 0)
      BY <1>0, <2>2, <3>1 DEF Answers
    <3>3. Kept(p.clientNum, c, 0 + 1)'
      BY <2>1, <3>1, <3>2
    <3> QED BY <1>7, <3>1, <3>2, <3>3
  <2>3. ASSUME NEW p \in UnderWay', NEW c \in Client, p.type = "connect", p.id = ClientId(c),
               Connected(c)
        PROVE  Kept(cl[c].clientNum, c, IF p \in net THEN 1 ELSE 2)'
    <3>1. p \in net /\ p \in UnderWay /\ p \notin net'
      BY <1>1, <1>2, <2>3
    <3>2. Kept(cl[c].clientNum, c, 1) /\ cl[c].clientNum \in Slot
      BY <1>0, <2>3, <3>1 DEF Answers, Types, ClientType
    <3>3. PICK n \in Slot : n = cl[c].clientNum /\ n = cl'[c].clientNum
      BY <1>1, <3>2
    <3>4. Kept(n, c, 1 + 1)'
      BY <2>1, <3>2, <3>3
    <3> QED BY <3>1, <3>3, <3>4
  <2>4. \A c \in Client, s \in Slot :
          Connected(c) /\ slot'[s].addr = Addr(c) /\ slot'[s].id = ClientId(c) => cl[c].clientNum = s
    BY <1>0, <1>4 DEF Answers
  <2> QED BY <1>1, <1>7, <2>2, <2>3, <2>4 DEF Answers
<1> QED BY <1>8, <1>9, <1>10, <1>11, <1>12, <1>13, <1>14, <1>15 DEF IInv

-----------------------------------------------------------------------------
(* The invariant, and what it says *)

LEMMA StutterKeeps == IInv /\ UNCHANGED vars => IInv'
<1> SUFFICES ASSUME IInv, UNCHANGED vars PROVE IInv'
  OBVIOUS
<1>0. Types /\ Refusals
  BY DEF IInv
<1>1. /\ UNCHANGED <<set, cl, slot, chal, drawn, others, serverId, refused>>
      /\ UNCHANGED <<net, late>>
  BY DEF vars, serverVars
<1> QED BY <1>0, <1>1, NoMail, SameSlots, SameChallenges, QuietStep

LEMMA NextKeeps == IInv /\ Next => IInv'
<1> SUFFICES ASSUME IInv, Next PROVE IInv'
  OBVIOUS
<1>1. ASSUME NEW c \in Client, Client1(c) PROVE IInv'
  BY <1>1, ClientKeeps
<1>2. ASSUME NEW c \in Client, Crash(c) PROVE IInv'
  BY <1>2, CrashKeeps
<1>3. ASSUME NEW p \in UnderWay, ServerReceive(p) PROVE IInv'
  BY <1>3, ServerReceiveKeeps
<1>4. ASSUME NEW p \in UnderWay, MasterAnswers(p) PROVE IInv'
  BY <1>4, MasterAnswersKeeps
<1>5. ASSUME NEW s \in Slot, SendEmptyToClient(s) PROVE IInv'
  BY <1>5, SendEmptyToClientKeeps
<1>6. ASSUME NEW s \in Slot, DropClient(s) PROVE IInv'
  BY <1>6, DropClientKeeps
<1>7. CASE OtherConnects
  BY <1>7, OtherConnectsKeeps
<1>8. CASE CheckClientTimeouts
  BY <1>8, CheckClientTimeoutsKeeps
<1>9. CASE Restart
  BY <1>9, RestartKeeps
<1>10. CASE Tick
  BY <1>10, TickKeeps
<1>11. \/ \E c \in Client : Client1(c) \/ Crash(c)
       \/ \E p \in UnderWay : ServerReceive(p) \/ MasterAnswers(p)
       \/ \E s \in Slot : SendEmptyToClient(s) \/ DropClient(s)
       \/ OtherConnects \/ CheckClientTimeouts \/ Restart \/ Tick
  BY DEF Next, Client1, UnderWay
<1> QED BY <1>1, <1>2, <1>3, <1>4, <1>5, <1>6, <1>7, <1>8, <1>9, <1>10, <1>11

LEMMA Invariant == Spec => []IInv
<1>1. IInv /\ [Next]_vars => IInv'
  BY NextKeeps, StutterKeeps
<1> QED BY <1>1, Initially, PTL DEF Spec

\* However often clients try, are cut off, end and come back, and whichever of
\* their datagrams are lost or come twice, no two slots in use belong to one
\* address: the search for a slot finds the one its client still has.
THEOREM HasOneSlot == Spec => []OneSlotEach
<1>1. IInv => OneSlotEach
  BY DEF IInv, Apart, OneSlotEach
<1> QED BY <1>1, Invariant, PTL

\* A client that is connected and has a slot knows its number and the id of the
\* server, in whichever order the answers to its attempts have come.
THEOREM KnowsItsSlot == Spec => []ClientNumAgrees
<1>1. IInv => ClientNumAgrees
  <2> SUFFICES ASSUME IInv, NEW c \in Client, NEW s \in Slot, Connected(c), Holds(s, c)
               PROVE  cl[c].clientNum = s /\ cl[c].serverId = serverId
    BY DEF ClientNumAgrees
  <2>1. slot[s].addr = Addr(c) /\ slot[s].id = ClientId(c)
    BY DEF Holds
  <2>2. cl[c].clientNum = s
    BY <2>1 DEF IInv, Answers
  <2>3. Waiting(c)
    BY DEF Waiting, Connected
  <2>4. cl[c].serverId = serverId
    BY <2>1, <2>3 DEF IInv, Current
  <2> QED BY <2>2, <2>4
<1> QED BY <1>1, Invariant, PTL

\* Nobody gets a slot on a pure server without its paks, or by a challenge that
\* the master server has told the server to hold back.
THEOREM OnlyAdmittedGetIn == Spec => []OnlyAdmitted
<1>1. IInv => OnlyAdmitted
  <2> SUFFICES ASSUME IInv PROVE PureChecked /\ KeyChecked
    BY DEF OnlyAdmitted
  <2>1. KeyChecked
    BY DEF IInv, Refusals
  <2>2. ASSUME NEW c \in Client, NEW s \in Slot, set.pure, Holds(s, c) PROVE cl[c].paks = "ok"
    <3>1. cl[c].port \in Nat
      BY DEF IInv, Types, ClientType
    <3>2. Of(slot[s].addr, c) /\ InUse(s)
      BY <2>2, <3>1, AddrIs DEF Holds, Of
    <3> QED BY <2>2, <3>2 DEF IInv, Paks
  <2> QED BY <2>1, <2>2 DEF PureChecked
<1> QED BY <1>1, Invariant, PTL
=============================================================================
