----------------------------- MODULE MsgChannel -----------------------------
(***************************************************************************)
(* idMsgChannel (framework/async/MsgChannel.cpp:243-708): the two channels *)
(* of one connection, at the server and at the client, and the network     *)
(* between them.  A channel sends unreliable messages, cuts the long ones  *)
(* into fragments, drops what arrives late or twice, and repeats every     *)
(* reliable message on every message it sends until the other end          *)
(* acknowledges it.                                                        *)
(*                                                                         *)
(* Every member of the class that takes part is a variable, indexed by the *)
(* endpoint that owns it.  The data of an unreliable message is the        *)
(* sequence number it was sent with, which no other message of that sender *)
(* shares.  Compression is kept as what it does to the length: a message   *)
(* of n bytes goes out in any of the lengths of Wire[n].                   *)
(***************************************************************************)
EXTENDS FifoOps

CONSTANTS
  Server, Client,       \* the two endpoints
  Message,              \* reliable messages
  MAX_MESSAGE_SIZE,     \* longest message, counted before compression
  FRAGMENT_SIZE,        \* bytes of a message in a full fragment
  DataSize,             \* lengths of the unreliable messages callers send
  Wire,                 \* Wire[n]: lengths that n bytes may be packed into
  MaxSequence,          \* bound: MaxSequence[e] messages sent by e
  MaxReliable           \* bound: MaxReliable[e] reliable messages accepted

Endpoint == {Server, Client}

Peer(e) == IF e = Server THEN Client ELSE Server

(***************************************************************************)
(* A channel is between two hosts, a reliable message has at least its     *)
(* type byte, and the packed form of a message starts with its unpacked    *)
(* size, so it is never empty.                                             *)
(***************************************************************************)
ASSUME MsgChannelAssumption ==
  /\ Server # Client
  /\ SizeOf \in [Message -> Nat \ {0}]
  /\ MAX_MSG_QUEUE_SIZE \in Nat
  /\ MAX_MESSAGE_SIZE \in Nat
  /\ FRAGMENT_SIZE \in Nat \ {0}
  /\ DataSize \subseteq Nat
  /\ Wire \in [0 .. MAX_MESSAGE_SIZE -> SUBSET (Nat \ {0})]
  /\ MaxSequence \in [Endpoint -> Nat]
  /\ MaxReliable \in [Endpoint -> Nat]

(***************************************************************************)
(* The packed form of an unfragmented message stays shorter than a         *)
(* fragment.  The code does not see to it: it compares the length before   *)
(* compression with FRAGMENT_SIZE (MsgChannel.cpp:494), and run-length     *)
(* compression lengthens data with isolated zeros.                         *)
(***************************************************************************)
NoExpansion ==
  \A n \in 0 .. MAX_MESSAGE_SIZE :
    n < FRAGMENT_SIZE => Wire[n] \subseteq 1 .. FRAGMENT_SIZE - 1

VARIABLES
  outgoingSequence,     \* number of the message being sent or sent next
  unsentFragments,      \* a long message still has fragments to send
  unsentFragmentStart,  \* where its next fragment starts
  unsentMsg,            \* that message
  incomingSequence,     \* number of the last message processed
  fragmentSequence,     \* number of the message being put together
  fragmentLength,       \* bytes of it in fragmentBuffer
  fragmentBuffer,       \* the message they are the first bytes of
  reliableSend,         \* reliable messages not yet acknowledged
  reliableReceive,      \* reliable messages not yet read
  net,                  \* packets sent
  accepted,             \* history: what SendReliableMessage accepted
  delivered,            \* history: what GetReliableMessage returned
  handed                \* history: the messages Process returned

sendVars == <<outgoingSequence, unsentFragments, unsentFragmentStart, unsentMsg>>
recvVars == <<incomingSequence, fragmentSequence, fragmentLength, fragmentBuffer>>
vars == <<sendVars, recvVars, reliableSend, reliableReceive, net, accepted,
          delivered, handed>>

(***************************************************************************)
(* A message as WriteMessageData writes it: the unreliable data, the       *)
(* acknowledgement, the unacknowledged reliable messages (the first one's  *)
(* number and the messages), and the length of the packed result.  NoBody  *)
(* stands for an unused buffer, Torn for bytes that no sender wrote.       *)
(***************************************************************************)
Body == [data : Int, ack : Nat, first : Nat, msgs : Seq(Message), wire : Nat]

NoBody == [data |-> 0, ack |-> 0, first |-> 1, msgs |-> <<>>, wire |-> 0]
Torn == [NoBody EXCEPT !.data = -1]

Packet == [to : Endpoint, seq : Nat, fragmented : BOOLEAN, start : Nat,
           len : Nat, body : Body]

-----------------------------------------------------------------------------
(* Sending *)

SendReliableMessage(e, m) ==
  /\ Len(accepted[e]) < MaxReliable[e]                           \* bound
  /\ reliableSend' = [reliableSend EXCEPT ![e] = AddTo(@, m)]
  /\ accepted' = IF HasRoom(reliableSend[e], m)
                   THEN [accepted EXCEPT ![e] = Append(@, m)]
                   ELSE accepted
  /\ UNCHANGED <<sendVars, recvVars, reliableReceive, net, delivered, handed>>

\* A mutated form: the ack counts from the messages not yet read.
WriteMessageDataFromFirst(e, wire) ==
  [data  |-> outgoingSequence[e],
   ack   |-> reliableReceive[e].first - 1,
   first |-> reliableSend[e].first,
   msgs  |-> reliableSend[e].msgs,
   wire  |-> wire]

WriteMessageData(e, wire) ==
  [data  |-> outgoingSequence[e],
   ack   |-> LastOf(reliableReceive[e]),
   first |-> reliableSend[e].first,
   msgs  |-> reliableSend[e].msgs,
   wire  |-> wire]

\* The length SendMessage compares: the ack, the reliable messages, two
\* shorts and the data.
TotalLength(e, size) == 4 + TotalSize(reliableSend[e]) + 4 + size

PacketOf(e, fragmented, start, len, body) ==
  [to |-> Peer(e), seq |-> outgoingSequence[e], fragmented |-> fragmented,
   start |-> start, len |-> len, body |-> body]

\* A mutated form: no empty fragment after a message of full ones.
LastSentAtSize(body, start, len) == start + len = body.wire

\* The last fragment is a short one, of length 0 if need be.
LastSent(body, start, len) == start + len = body.wire /\ len # FRAGMENT_SIZE

\* The body of SendNextFragment, which SendMessage calls for the first one.
TransmitFragment(e, body, start) ==
  LET len  == IF start + FRAGMENT_SIZE > body.wire THEN body.wire - start
                                                   ELSE FRAGMENT_SIZE
      done == LastSent(body, start, len)
  IN  /\ net' = net \cup {PacketOf(e, TRUE, start, len, body)}
      /\ unsentFragmentStart' = [unsentFragmentStart EXCEPT ![e] = start + len]
      /\ unsentFragments' = [unsentFragments EXCEPT ![e] = ~done]
      /\ outgoingSequence' = [outgoingSequence EXCEPT ![e] = IF done THEN @ + 1
                                                                     ELSE @]

\* A call with unsent fragments left is a fatal error, and no step.
MaySend(e) ==
  /\ outgoingSequence[e] <= MaxSequence[e]                       \* bound
  /\ ~unsentFragments[e]

SendFragmented(e, total, wire) ==
  LET body == WriteMessageData(e, wire)
  IN  /\ MaySend(e)
      /\ total >= FRAGMENT_SIZE
      /\ unsentMsg' = [unsentMsg EXCEPT ![e] = body]
      /\ TransmitFragment(e, body, 0)
      /\ UNCHANGED <<recvVars, reliableSend, reliableReceive, accepted,
                     delivered, handed>>

SendWhole(e, total, wire) ==
  LET body == WriteMessageData(e, wire)
  IN  /\ MaySend(e)
      /\ total < FRAGMENT_SIZE
      /\ unsentMsg' = [unsentMsg EXCEPT ![e] = body]
      /\ net' = net \cup {PacketOf(e, FALSE, 0, wire, body)}
      /\ outgoingSequence' = [outgoingSequence EXCEPT ![e] = @ + 1]
      /\ UNCHANGED <<unsentFragments, unsentFragmentStart, recvVars,
                     reliableSend, reliableReceive, accepted, delivered, handed>>

\* A message whose total length is above MAX_MESSAGE_SIZE is "too large":
\* the call sends nothing, and is no step.
SendMessage(e, size) ==
  \E total \in {TotalLength(e, size)} \cap (0 .. MAX_MESSAGE_SIZE) :
    \E wire \in Wire[total] :
      SendFragmented(e, total, wire) \/ SendWhole(e, total, wire)

SendNextFragment(e) ==
  /\ unsentFragments[e]
  /\ TransmitFragment(e, unsentMsg[e], unsentFragmentStart[e])
  /\ UNCHANGED <<unsentMsg, recvVars, reliableSend, reliableReceive, accepted,
                 delivered, handed>>

-----------------------------------------------------------------------------
(* Receiving *)

\* A mutated form: the ack is taken for the number of the next message.
AcknowledgedOneMore(q, ack) ==
  IF ack + 1 < q.first THEN 0
  ELSE IF ack - q.first + 2 <= Len(q.msgs) THEN ack - q.first + 2
  ELSE Len(q.msgs)

\* How many queued messages an acknowledgement removes.
Acknowledged(q, ack) ==
  IF ack < q.first THEN 0
  ELSE IF ack - q.first + 1 <= Len(q.msgs) THEN ack - q.first + 1
  ELSE Len(q.msgs)

\* A mutated form: the numbers of the messages are not looked at.
FreshUnnumbered(e, b) == b.msgs

\* The reliable messages of b from the one that e waits for on.
Fresh(e, b) ==
  LET seen == LastOf(reliableReceive[e]) + 1 - b.first
  IN  IF seen \in 0 .. Len(b.msgs) THEN SubSeq(b.msgs, seen + 1, Len(b.msgs))
                                   ELSE <<>>

\* A mutated form: one message is taken from a packet.
TakesOne(q, ms, n) == n = IF ms = <<>> THEN 0 ELSE 1

(***************************************************************************)
(* The loop of ReadMessageData adds the messages that carry the number it  *)
(* waits for.  The result of Add is not looked at, but once a message does *)
(* not fit no later one has the right number: a prefix is taken.           *)
(***************************************************************************)
Takes(q, ms, n) ==
  /\ \A i \in 1 .. n : HasRoom(Extend(q, SubSeq(ms, 1, i - 1)), ms[i])
  /\ n < Len(ms) => ~HasRoom(Extend(q, SubSeq(ms, 1, n)), ms[n + 1])

ReadMessageData(e, b) ==
  /\ reliableSend' = [reliableSend EXCEPT
                        ![e] = Without(@, Acknowledged(@, b.ack))]
  /\ \E n \in 0 .. Len(Fresh(e, b)) :
       /\ Takes(reliableReceive[e], Fresh(e, b), n)
       /\ reliableReceive' = [reliableReceive EXCEPT
                                ![e] = Extend(@, SubSeq(Fresh(e, b), 1, n))]

\* A mutated form: a packet may come twice.
NewerOrSame(e, p) == p.seq >= incomingSequence[e]

Newer(e, p) == p.seq > incomingSequence[e]

\* A packet that is not newer than the last message processed is dropped.
ProcessStale(e, p) ==
  /\ ~Newer(e, p)
  /\ UNCHANGED <<sendVars, recvVars, reliableSend, reliableReceive, accepted,
                 delivered, handed>>

\* A mutated form: the buffer is not restarted for another message.
GatheredSoFar(e, p) == fragmentLength[e]

\* The bytes at hand of the message that fragment p belongs to.
Gathered(e, p) ==
  IF p.seq # fragmentSequence[e] THEN 0 ELSE fragmentLength[e]

\* A fragment that does not continue them, or that would not fit the buffer:
\* what there is so far is kept.
ProcessMissed(e, p) ==
  /\ Newer(e, p)
  /\ p.fragmented
  /\ \/ p.start # Gathered(e, p)
     \/ Gathered(e, p) + p.len > MAX_MESSAGE_SIZE
  /\ fragmentSequence' = [fragmentSequence EXCEPT ![e] = p.seq]
  /\ fragmentLength' = [fragmentLength EXCEPT ![e] = Gathered(e, p)]
  /\ UNCHANGED <<sendVars, incomingSequence, fragmentBuffer, reliableSend,
                 reliableReceive, accepted, delivered, handed>>

\* The buffer once the bytes of p are copied behind the first `have` bytes.
Filled(e, p, have) ==
  IF have = p.start /\ (have = 0 \/ fragmentBuffer[e] = p.body) THEN p.body
                                                                ELSE Torn

Continues(e, p) ==
  /\ Newer(e, p)
  /\ p.fragmented
  /\ p.start = Gathered(e, p)
  /\ Gathered(e, p) + p.len <= MAX_MESSAGE_SIZE

\* A full fragment is not the last one.
ProcessFragment(e, p) ==
  /\ Continues(e, p)
  /\ p.len = FRAGMENT_SIZE
  /\ fragmentBuffer' = [fragmentBuffer EXCEPT ![e] = Filled(e, p, Gathered(e, p))]
  /\ fragmentSequence' = [fragmentSequence EXCEPT ![e] = p.seq]
  /\ fragmentLength' = [fragmentLength EXCEPT ![e] = Gathered(e, p) + p.len]
  /\ UNCHANGED <<sendVars, incomingSequence, reliableSend, reliableReceive,
                 accepted, delivered, handed>>

(***************************************************************************)
(* The end of Process: the len bytes in the buffer are a message.  If they *)
(* are not what the sender packed, the message that comes out is recorded  *)
(* as torn, and what its random bytes would do to the queues is not        *)
(* followed any further.                                                   *)
(***************************************************************************)
Complete(e, p, buf, len) ==
  /\ incomingSequence' = [incomingSequence EXCEPT ![e] = p.seq]
  /\ fragmentBuffer' = [fragmentBuffer EXCEPT ![e] = buf]
  /\ fragmentLength' = [fragmentLength EXCEPT ![e] = len]
  /\ IF buf # Torn /\ buf.wire = len
       THEN /\ ReadMessageData(e, buf)
            /\ handed' = [handed EXCEPT ![e] = Append(@, buf.data)]
       ELSE /\ handed' = [handed EXCEPT ![e] = Append(@, Torn.data)]
            /\ UNCHANGED <<reliableSend, reliableReceive>>
  /\ UNCHANGED <<sendVars, accepted, delivered>>

ProcessLastFragment(e, p) ==
  /\ Continues(e, p)
  /\ p.len # FRAGMENT_SIZE
  /\ fragmentSequence' = [fragmentSequence EXCEPT ![e] = p.seq]
  /\ Complete(e, p, Filled(e, p, Gathered(e, p)), Gathered(e, p) + p.len)

\* An unfragmented message passes through the fragment buffer too.
ProcessWhole(e, p) ==
  /\ Newer(e, p)
  /\ ~p.fragmented
  /\ Complete(e, p, p.body, p.len)
  /\ UNCHANGED fragmentSequence

Process(e, p) ==
  \/ ProcessStale(e, p)
  \/ ProcessMissed(e, p)
  \/ ProcessFragment(e, p)
  \/ ProcessLastFragment(e, p)
  \/ ProcessWhole(e, p)

GetReliableMessage(e) ==
  /\ reliableReceive[e].msgs # <<>>
  /\ delivered' = [delivered EXCEPT ![e] = Append(@, Head(reliableReceive[e].msgs))]
  /\ reliableReceive' = [reliableReceive EXCEPT ![e] = Without(@, 1)]
  /\ UNCHANGED <<sendVars, recvVars, reliableSend, net, accepted, handed>>

-----------------------------------------------------------------------------
\* idMsgChannel::Init at both ends.
Init ==
  /\ outgoingSequence = [e \in Endpoint |-> 1]
  /\ unsentFragments = [e \in Endpoint |-> FALSE]
  /\ unsentFragmentStart = [e \in Endpoint |-> 0]
  /\ unsentMsg = [e \in Endpoint |-> NoBody]
  /\ incomingSequence = [e \in Endpoint |-> 0]
  /\ fragmentSequence = [e \in Endpoint |-> 0]
  /\ fragmentLength = [e \in Endpoint |-> 0]
  /\ fragmentBuffer = [e \in Endpoint |-> NoBody]
  /\ reliableSend = [e \in Endpoint |-> EmptyFifo(1)]
  /\ reliableReceive = [e \in Endpoint |-> EmptyFifo(0)]
  /\ net = {}
  /\ accepted = [e \in Endpoint |-> <<>>]
  /\ delivered = [e \in Endpoint |-> <<>>]
  /\ handed = [e \in Endpoint |-> <<>>]

Send(e) == \E size \in DataSize : SendMessage(e, size)

(***************************************************************************)
(* Packets stay in net: the network may deliver one any number of times,   *)
(* in any order, or never.                                                 *)
(***************************************************************************)
Receive(e) == \E p \in net : p.to = e /\ Process(e, p) /\ UNCHANGED net

Next ==
  \E e \in Endpoint :
    \/ \E m \in Message : SendReliableMessage(e, m)
    \/ Send(e)
    \/ SendNextFragment(e)
    \/ Receive(e)
    \/ GetReliableMessage(e)

Spec == Init /\ [][Next]_vars

-----------------------------------------------------------------------------

Fifo == [first : Nat, msgs : Seq(Message)]

\* The variables stay in their types.
TypeOK ==
  /\ outgoingSequence \in [Endpoint -> Nat \ {0}]
  /\ unsentFragments \in [Endpoint -> BOOLEAN]
  /\ unsentFragmentStart \in [Endpoint -> Nat]
  /\ unsentMsg \in [Endpoint -> Body]
  /\ incomingSequence \in [Endpoint -> Nat]
  /\ fragmentSequence \in [Endpoint -> Nat]
  /\ fragmentLength \in [Endpoint -> Nat]
  /\ fragmentBuffer \in [Endpoint -> Body]
  /\ reliableSend \in [Endpoint -> Fifo]
  /\ reliableReceive \in [Endpoint -> Fifo]
  /\ net \subseteq Packet
  /\ accepted \in [Endpoint -> Seq(Message)]
  /\ delivered \in [Endpoint -> Seq(Message)]
  /\ handed \in [Endpoint -> Seq(Int)]

(***************************************************************************)
(* A message that Process hands up is one that the other end sent, whole:  *)
(* fragments of two messages, or a fragment and a message that went        *)
(* through the same buffer, are never put together.                        *)
(***************************************************************************)
Intact == \A e \in Endpoint : \A i \in DOMAIN handed[e] : handed[e][i] > 0

(***************************************************************************)
(* Unreliable messages, "when they do [arrive], they arrive in order and   *)
(* without duplicates", however the network repeats and reorders packets.  *)
(***************************************************************************)
UnreliableInOrder ==
  \A e \in Endpoint : \A i, j \in DOMAIN handed[e] :
    i < j => handed[e][i] < handed[e][j]

(***************************************************************************)
(* A reliable message leaves the sender's queue only when the other end    *)
(* has it: the messages the receiver has, and the ones still queued, are   *)
(* all the messages accepted.  The acknowledgement that removes one may    *)
(* arrive late, twice, or in a message that was packed long before.        *)
(***************************************************************************)
NoReliableLost ==
  \A e \in Endpoint :
    /\ reliableSend[e].first <= LastOf(reliableReceive[Peer(e)]) + 1
    /\ LastOf(reliableSend[e]) = Len(accepted[e]) + 1

(***************************************************************************)
(* When a message is handed up, the receiver has every reliable message    *)
(* that was queued when it was sent, however many messages that would have *)
(* brought them were lost, unless its queue has no room for the next one:  *)
(* a handler of unreliable messages may rely on what was sent reliably     *)
(* before, since the frame loops empty the queue after every message.      *)
(***************************************************************************)
Carries ==
  [][\A e \in Endpoint :
       Len(handed'[e]) > Len(handed[e]) =>
         LET body == fragmentBuffer'[e]
             got  == LastOf(reliableReceive'[e])
         IN  got < body.first + Len(body.msgs) - 1 =>
               ~HasRoom(reliableReceive'[e], body.msgs[got + 2 - body.first])
    ]_vars

\* Reliable messages are delivered once each and in order: every step of the
\* two channels is a step of ReliableLink or changes nothing it sees.
Link == INSTANCE ReliableLink
ReliableInOrder == Link!Spec

=============================================================================
