-------------------------- MODULE MsgChannel_proofs --------------------------
(***************************************************************************)
(* Proofs about MsgChannel, for any messages, sizes, numbers of steps and  *)
(* choices of the network.  The properties follow from one inductive       *)
(* invariant: every copy of a message that still exists anywhere - in a    *)
(* packet, in the sender's or the receiver's fragment buffer - agrees with *)
(* the history of its sender.                                              *)
(***************************************************************************)
EXTENDS MsgChannel, SequenceTheorems, TLAPS

\* The reliable messages from number first on, as the sender accepted them.
Copies(sent, first, msgs) ==
  /\ first >= 1
  /\ first + Len(msgs) <= Len(sent) + 1
  /\ \A i \in 1 .. Len(msgs) : msgs[i] = sent[first + i - 1]

\* A message says what was true of its sender when it was packed, and what
\* still holds: its reliable messages are some that the sender accepted, and
\* the sender has seen what it acknowledges.
Truthful(sent, seen, b) ==
  /\ b.data > 0
  /\ b.ack <= seen
  /\ Copies(sent, b.first, b.msgs)

\* The number of reliable messages e has received.
Seen(e) == LastOf(reliableReceive[e])

\* A sender in the middle of a message has sent its first fragment.
Sending(e) ==
  unsentFragments[e] =>
    /\ unsentMsg[e].data = outgoingSequence[e]
    /\ Truthful(accepted[e], Seen(e), unsentMsg[e])
    /\ unsentFragmentStart[e] >= FRAGMENT_SIZE
    /\ unsentFragmentStart[e] <= unsentMsg[e].wire

\* A fragment starts the message or is behind a full one, and only the last
\* is short; a message that was not fragmented is shorter than a fragment.
WellCut(p) ==
  /\ p.fragmented => /\ p.start = 0 \/ p.start >= FRAGMENT_SIZE
                     /\ p.len # FRAGMENT_SIZE => p.start + p.len = p.body.wire
  /\ ~p.fragmented => p.len = p.body.wire /\ p.len < FRAGMENT_SIZE

\* A packet is a part of the message with its number.
Genuine(p) ==
  LET e == Peer(p.to)
  IN  /\ p.seq = p.body.data
      /\ Truthful(accepted[e], Seen(e), p.body)
      /\ p.seq <= outgoingSequence[e]
      /\ p.seq = outgoingSequence[e] =>
           unsentFragments[e] /\ p.body = unsentMsg[e]
      /\ WellCut(p)

\* Packets with one number are parts of one message.
OneBody == \A p, q \in net : p.to = q.to /\ p.seq = q.seq => p.body = q.body

\* As many bytes as a fragment in the buffer are the start of the message
\* with the number fragmentSequence; fewer are a whole message, done with.
Buffered(e) ==
  fragmentLength[e] >= FRAGMENT_SIZE =>
    \E p \in net : /\ p.to = e
                   /\ p.seq = fragmentSequence[e]
                   /\ p.body = fragmentBuffer[e]

SendQueue(e) ==
  /\ Copies(accepted[e], reliableSend[e].first, reliableSend[e].msgs)
  /\ LastOf(reliableSend[e]) = Len(accepted[e]) + 1
  /\ reliableSend[e].first <= Seen(Peer(e)) + 1

ReceiveQueue(e) ==
  /\ reliableReceive[e].first = Len(delivered[e])
  /\ \A i \in 1 .. Len(delivered[e]) : delivered[e][i] = accepted[Peer(e)][i]
  /\ Copies(accepted[Peer(e)], reliableReceive[e].first + 1,
            reliableReceive[e].msgs)

Handed(e) ==
  /\ \A i \in DOMAIN handed[e] :
       handed[e][i] > 0 /\ handed[e][i] <= incomingSequence[e]
  /\ \A i, j \in DOMAIN handed[e] : i < j => handed[e][i] < handed[e][j]

IInv ==
  /\ TypeOK
  /\ OneBody
  /\ \A p \in net : Genuine(p)
  /\ \A e \in Endpoint :
       Sending(e) /\ Buffered(e) /\ SendQueue(e) /\ ReceiveQueue(e) /\ Handed(e)

-----------------------------------------------------------------------------
(* The queue operators. *)

LEMMA PeerFacts ==
  \A e \in Endpoint : Peer(e) \in Endpoint /\ Peer(e) # e /\ Peer(Peer(e)) = e
BY MsgChannelAssumption DEF Endpoint, Peer

\* Adding messages keeps the ones in the queue and their numbers.
LEMMA ExtendFacts ==
  ASSUME NEW q \in Fifo, NEW ms \in Seq(Message)
  PROVE  /\ Extend(q, ms) \in Fifo
         /\ Extend(q, ms).first = q.first
         /\ Len(Extend(q, ms).msgs) = Len(q.msgs) + Len(ms)
         /\ LastOf(Extend(q, ms)) = LastOf(q) + Len(ms)
         /\ \A i \in 1 .. Len(q.msgs) : Extend(q, ms).msgs[i] = q.msgs[i]
         /\ \A i \in 1 .. Len(ms) : Extend(q, ms).msgs[Len(q.msgs) + i] = ms[i]
<1>1. q.msgs \in Seq(Message) /\ q.first \in Nat
  BY DEF Fifo
<1>2. Extend(q, ms) = [first |-> q.first, msgs |-> q.msgs \o ms]
  BY DEF Extend
<1>3. /\ q.msgs \o ms \in Seq(Message)
      /\ Len(q.msgs \o ms) = Len(q.msgs) + Len(ms)
      /\ \A i \in 1 .. Len(q.msgs) + Len(ms) :
           (q.msgs \o ms)[i] = IF i <= Len(q.msgs) THEN q.msgs[i]
                                                  ELSE ms[i - Len(q.msgs)]
  BY <1>1, ConcatProperties, Zenon
<1>4. Len(q.msgs) \in Nat /\ Len(ms) \in Nat
  BY <1>1
<1>5. \A i \in 1 .. Len(q.msgs) : (q.msgs \o ms)[i] = q.msgs[i]
  BY <1>3, <1>4
<1>6. \A i \in 1 .. Len(ms) : (q.msgs \o ms)[Len(q.msgs) + i] = ms[i]
  <2> TAKE i \in 1 .. Len(ms)
  <2>1. Len(q.msgs) + i \in 1 .. Len(q.msgs) + Len(ms) /\ ~(Len(q.msgs) + i <= Len(q.msgs))
    BY <1>4
  <2>2. (Len(q.msgs) + i) - Len(q.msgs) = i
    BY <1>4
  <2> QED BY <1>3, <2>1, <2>2
<1> QED BY <1>1, <1>2, <1>3, <1>4, <1>5, <1>6 DEF LastOf, Fifo

\* Removing the n oldest messages keeps the others and their numbers.
LEMMA WithoutFacts ==
  ASSUME NEW q \in Fifo, NEW n \in 0 .. Len(q.msgs)
  PROVE  /\ Without(q, n) \in Fifo
         /\ Without(q, n).first = q.first + n
         /\ Len(Without(q, n).msgs) = Len(q.msgs) - n
         /\ LastOf(Without(q, n)) = LastOf(q)
         /\ \A i \in 1 .. Len(q.msgs) - n : Without(q, n).msgs[i] = q.msgs[i + n]
<1>1. q.msgs \in Seq(Message) /\ q.first \in Nat /\ Len(q.msgs) \in Nat
  BY DEF Fifo
<1>2. \A i \in n + 1 .. Len(q.msgs) : q.msgs[i] \in Message
  BY <1>1
<1>3. /\ SubSeq(q.msgs, n + 1, Len(q.msgs)) \in Seq(Message)
      /\ Len(SubSeq(q.msgs, n + 1, Len(q.msgs))) =
           IF n + 1 <= Len(q.msgs) THEN Len(q.msgs) - (n + 1) + 1 ELSE 0
      /\ \A i \in 1 .. Len(q.msgs) - (n + 1) + 1 :
           SubSeq(q.msgs, n + 1, Len(q.msgs))[i] = q.msgs[(n + 1) + i - 1]
  <2>1. n + 1 \in Int /\ Len(q.msgs) \in Int
    BY <1>1
  <2> QED BY <1>2, <2>1, SubSeqProperties
<1>4. \A i \in 1 .. Len(q.msgs) - n :
        SubSeq(q.msgs, n + 1, Len(q.msgs))[i] = q.msgs[i + n]
  <2> TAKE i \in 1 .. Len(q.msgs) - n
  <2>1. i \in 1 .. Len(q.msgs) - (n + 1) + 1 /\ (n + 1) + i - 1 = i + n
    BY <1>1
  <2> QED BY <1>3, <2>1
<1>5. Len(SubSeq(q.msgs, n + 1, Len(q.msgs))) = Len(q.msgs) - n
  BY <1>1, <1>3
<1> QED BY <1>1, <1>3, <1>4, <1>5 DEF Without, LastOf, Fifo

LEMMA AcknowledgedFacts ==
  ASSUME NEW q \in Fifo, NEW ack \in Nat
  PROVE  /\ Acknowledged(q, ack) \in 0 .. Len(q.msgs)
         /\ Acknowledged(q, ack) = 0 \/ q.first + Acknowledged(q, ack) <= ack + 1
BY DEF Acknowledged, Fifo

-----------------------------------------------------------------------------
(* What histories that grow preserve. *)

Extends(s, t) == Len(s) <= Len(t) /\ \A i \in 1 .. Len(s) : t[i] = s[i]

LEMMA CopiesGrow ==
  ASSUME NEW s \in Seq(Message), NEW t \in Seq(Message), Extends(s, t),
         NEW first \in Nat, NEW msgs \in Seq(Message), Copies(s, first, msgs)
  PROVE  Copies(t, first, msgs)
<1>1. Len(s) \in Nat /\ Len(t) \in Nat /\ Len(msgs) \in Nat
  OBVIOUS
<1>2. \A i \in 1 .. Len(msgs) : first + i - 1 \in 1 .. Len(s)
  BY <1>1 DEF Copies
<1> QED BY <1>1, <1>2 DEF Copies, Extends

LEMMA TruthfulGrows ==
  ASSUME NEW s \in Seq(Message), NEW t \in Seq(Message), Extends(s, t),
         NEW k \in Nat, NEW l \in Nat, k <= l,
         NEW b \in Body, Truthful(s, k, b)
  PROVE  Truthful(t, l, b)
<1>1. b.first \in Nat /\ b.msgs \in Seq(Message) /\ b.ack \in Nat
  BY DEF Body
<1>2. Copies(t, b.first, b.msgs)
  BY <1>1, CopiesGrow DEF Truthful
<1> QED BY <1>1, <1>2 DEF Truthful

LEMMA SeenType == TypeOK => \A e \in Endpoint : Seen(e) \in Nat
BY DEF TypeOK, Seen, LastOf, Fifo

\* The history of a step.
Grew == \A e \in Endpoint : /\ Extends(accepted[e], accepted[e]')
                            /\ Seen(e) <= Seen(e)'

\* A step that sends no packet keeps what is known of the packets.
LEMMA KeepsPackets ==
  ASSUME IInv, TypeOK', Grew, UNCHANGED <<sendVars, net>>
  PROVE  /\ OneBody'
         /\ \A p \in net' : Genuine(p)'
         /\ \A e \in Endpoint : Sending(e)'
<1>1. OneBody'
  BY DEF IInv, OneBody
<1>2. \A e \in Endpoint : /\ accepted[e] \in Seq(Message)
                          /\ accepted'[e] \in Seq(Message)
                          /\ Seen(e) \in Nat /\ Seen(e)' \in Nat
                          /\ unsentMsg[e] \in Body
  <2>1. TypeOK /\ TypeOK'
    BY DEF IInv
  <2>2. \A e \in Endpoint : Seen(e)' \in Nat
    <3> TAKE e \in Endpoint
    <3>1. reliableReceive'[e] \in Fifo
      BY <2>1 DEF TypeOK
    <3>2. Seen(e)' = LastOf(reliableReceive'[e])
      BY DEF Seen
    <3> QED BY <3>1, <3>2 DEF LastOf, Fifo
  <2> QED BY <2>1, <2>2, SeenType DEF TypeOK
<1>3. \A e \in Endpoint, b \in Body :
        Truthful(accepted[e], Seen(e), b) => Truthful(accepted'[e], Seen(e)', b)
  BY <1>2, TruthfulGrows DEF Grew
<1>4. ASSUME NEW p \in net' PROVE Genuine(p)'
  <2>1. p \in net /\ Genuine(p)
    BY <1>4 DEF IInv
  <2>2. p.body \in Body /\ p.to \in Endpoint
    BY <2>1 DEF IInv, TypeOK, Packet
  <2>3. Peer(p.to) \in Endpoint
    BY <2>2, PeerFacts
  <2>4. Truthful(accepted'[Peer(p.to)], Seen(Peer(p.to))', p.body)
    BY <1>3, <2>1, <2>2, <2>3 DEF Genuine
  <2> QED BY <2>1, <2>4 DEF Genuine, sendVars
<1>5. ASSUME NEW e \in Endpoint PROVE Sending(e)'
  <2>1. Sending(e)
    BY DEF IInv
  <2> QED BY <1>2, <1>3, <2>1 DEF Sending, sendVars
<1> QED BY <1>1, <1>4, <1>5

\* A step that only sends keeps what is known of the receivers.
LEMMA KeepsReceivers ==
  ASSUME IInv, net \subseteq net',
         UNCHANGED <<recvVars, reliableSend, reliableReceive, accepted,
                     delivered, handed>>
  PROVE  \A e \in Endpoint :
           Buffered(e)' /\ SendQueue(e)' /\ ReceiveQueue(e)' /\ Handed(e)'
<1> TAKE e \in Endpoint
<1>1. Buffered(e) /\ SendQueue(e) /\ ReceiveQueue(e) /\ Handed(e)
  BY DEF IInv
<1>2. Buffered(e)'
  BY <1>1 DEF Buffered, recvVars
<1>3. SendQueue(e)'
  BY <1>1 DEF SendQueue, Seen
<1>4. ReceiveQueue(e)'
  BY <1>1 DEF ReceiveQueue
<1>5. Handed(e)'
  BY <1>1 DEF Handed, recvVars
<1> QED BY <1>2, <1>3, <1>4, <1>5

-----------------------------------------------------------------------------
(* Sending. *)

\* What one call of SendNextFragment sends, and where it leaves the sender.
LEMMA TransmitFacts ==
  ASSUME NEW e \in Endpoint, NEW body \in Body, NEW start \in Nat,
         start <= body.wire, start = 0 \/ start >= FRAGMENT_SIZE,
         TypeOK, TransmitFragment(e, body, start)
  PROVE  \E len \in Nat, done \in BOOLEAN :
           /\ net' = net \cup {PacketOf(e, TRUE, start, len, body)}
           /\ PacketOf(e, TRUE, start, len, body) \in Packet
           /\ WellCut(PacketOf(e, TRUE, start, len, body))
           /\ unsentFragmentStart' =
                [unsentFragmentStart EXCEPT ![e] = start + len]
           /\ unsentFragments' = [unsentFragments EXCEPT ![e] = ~done]
           /\ outgoingSequence' =
                [outgoingSequence EXCEPT ![e] = IF done THEN @ + 1 ELSE @]
           /\ ~done => start + len >= FRAGMENT_SIZE /\ start + len <= body.wire
<1> DEFINE len == IF start + FRAGMENT_SIZE > body.wire THEN body.wire - start
                                                       ELSE FRAGMENT_SIZE
           done == LastSent(body, start, len)
           p == PacketOf(e, TRUE, start, len, body)
<1>1. body.wire \in Nat /\ FRAGMENT_SIZE \in Nat \ {0}
  BY MsgChannelAssumption DEF Body
<1>2. len \in Nat
  BY <1>1
<1>3. done \in BOOLEAN
  BY DEF LastSent
<1>4. p \in Packet
  <2>1. outgoingSequence[e] \in Nat /\ Peer(e) \in Endpoint
    BY PeerFacts DEF TypeOK
  <2> QED BY <1>2, <2>1 DEF PacketOf, Packet
<1>5. WellCut(p)
  <2>1. len # FRAGMENT_SIZE => start + len = body.wire
    BY <1>1
  <2> HIDE DEF len
  <2> QED BY <2>1 DEF WellCut, PacketOf
<1>6. ~done => start + len >= FRAGMENT_SIZE /\ start + len <= body.wire
  BY <1>1 DEF LastSent
<1>7. /\ net' = net \cup {p}
      /\ unsentFragmentStart' = [unsentFragmentStart EXCEPT ![e] = start + len]
      /\ unsentFragments' = [unsentFragments EXCEPT ![e] = ~done]
      /\ outgoingSequence' =
           [outgoingSequence EXCEPT ![e] = IF done THEN @ + 1 ELSE @]
  BY DEF TransmitFragment
<1> HIDE DEF len, done
<1> QED BY <1>2, <1>3, <1>4, <1>5, <1>6, <1>7

\* A step that sends packet p of the message it is in, or of a new one.
\* It ends the message if done.
LEMMA SendStep ==
  ASSUME IInv, NEW e \in Endpoint, NEW body \in Body, NEW p \in Packet,
         NEW done \in BOOLEAN,
         net' = net \cup {p},
         p.to = Peer(e), p.seq = outgoingSequence[e], p.body = body,
         body.data = outgoingSequence[e],
         Truthful(accepted[e], Seen(e), body),
         WellCut(p),
         unsentFragments[e] => unsentMsg[e] = body,
         unsentMsg' = [unsentMsg EXCEPT ![e] = body],
         unsentFragments' = [unsentFragments EXCEPT ![e] = ~done],
         outgoingSequence' =
           [outgoingSequence EXCEPT ![e] = IF done THEN @ + 1 ELSE @],
         unsentFragmentStart' \in [Endpoint -> Nat],
         \A f \in Endpoint : f # e =>
           unsentFragmentStart'[f] = unsentFragmentStart[f],
         ~done => /\ unsentFragmentStart'[e] >= FRAGMENT_SIZE
                  /\ unsentFragmentStart'[e] <= body.wire,
         UNCHANGED <<recvVars, reliableSend, reliableReceive, accepted,
                     delivered, handed>>
  PROVE  IInv'
<1>1. TypeOK'
  <2>1. TypeOK
    BY DEF IInv
  <2>2. outgoingSequence' \in [Endpoint -> Nat \ {0}]
    BY <2>1 DEF TypeOK
  <2>3. unsentFragments' \in [Endpoint -> BOOLEAN]
    BY <2>1 DEF TypeOK
  <2>4. unsentMsg' \in [Endpoint -> Body]
    BY <2>1 DEF TypeOK
  <2>5. net' \subseteq Packet
    BY <2>1 DEF TypeOK
  <2> QED BY <2>1, <2>2, <2>3, <2>4, <2>5 DEF TypeOK, recvVars
<1>2. \A f \in Endpoint :
        Buffered(f)' /\ SendQueue(f)' /\ ReceiveQueue(f)' /\ Handed(f)'
  BY KeepsReceivers
<1>3. \A q \in net : q.to \in Endpoint /\ Genuine(q)
  BY DEF IInv, TypeOK, Packet
<1>4. outgoingSequence[e] \in Nat
  BY DEF IInv, TypeOK
<1>5. \A q \in net : q.to = Peer(e) =>
        /\ Peer(q.to) = e
        /\ q.seq \in Nat
        /\ q.seq <= outgoingSequence[e]
        /\ q.seq = outgoingSequence[e] => q.body = body
  <2> SUFFICES ASSUME NEW q \in net, q.to = Peer(e)
               PROVE  /\ Peer(q.to) = e
                      /\ q.seq \in Nat
                      /\ q.seq <= outgoingSequence[e]
                      /\ q.seq = outgoingSequence[e] => q.body = body
    OBVIOUS
  <2>1. Peer(q.to) = e
    BY PeerFacts
  <2>2. q.seq \in Nat
    BY DEF IInv, TypeOK, Packet
  <2>3. /\ q.seq <= outgoingSequence[e]
        /\ q.seq = outgoingSequence[e] =>
             unsentFragments[e] /\ q.body = unsentMsg[e]
    BY <1>3, <2>1 DEF Genuine
  <2>4. q.seq = outgoingSequence[e] => q.body = body
    BY <2>3, Zenon
  <2> QED BY <2>1, <2>2, <2>3, <2>4
<1>6. OneBody'
  <2>1. \A q \in net : q.to = p.to /\ q.seq = p.seq => q.body = p.body
    BY <1>5
  <2>2. OneBody
    BY DEF IInv
  <2> QED BY <2>1, <2>2 DEF OneBody
<1>7. ASSUME NEW q \in net' PROVE Genuine(q)'
  <2>1. Genuine(p)'
    <3>1. Peer(p.to) = e
      BY PeerFacts
    <3>2. outgoingSequence'[e] = (IF done THEN outgoingSequence[e] + 1
                                          ELSE outgoingSequence[e])
          /\ unsentFragments'[e] = ~done /\ unsentMsg'[e] = body
      BY DEF IInv, TypeOK
    <3>3. Truthful(accepted'[e], Seen(e)', p.body)
      BY DEF Seen
    <3>4. /\ p.seq <= outgoingSequence'[e]
          /\ p.seq = outgoingSequence'[e] =>
               unsentFragments'[e] /\ p.body = unsentMsg'[e]
      <4>1. CASE done
        BY <1>4, <3>2, <4>1
      <4>2. CASE ~done
        <5>1. outgoingSequence'[e] = outgoingSequence[e]
          BY <3>2, <4>2
        <5>2. unsentFragments'[e] /\ unsentMsg'[e] = body
          BY <3>2, <4>2, Zenon
        <5> QED BY <1>4, <5>1, <5>2
      <4> QED BY <4>1, <4>2
    <3> QED BY <3>1, <3>3, <3>4 DEF Genuine
  <2>2. CASE q \in net /\ q.to = Peer(e)
    <3>1. Genuine(q) /\ Peer(q.to) = e
      BY <1>3, <1>5, <2>2
    <3>2. outgoingSequence'[e] = (IF done THEN outgoingSequence[e] + 1
                                          ELSE outgoingSequence[e])
          /\ unsentFragments'[e] = ~done /\ unsentMsg'[e] = body
      BY DEF IInv, TypeOK
    <3>3. Truthful(accepted'[e], Seen(e)', q.body)
      BY <3>1 DEF Genuine, Seen
    <3>4. /\ q.seq <= outgoingSequence'[e]
          /\ q.seq = outgoingSequence'[e] =>
               unsentFragments'[e] /\ q.body = unsentMsg'[e]
      <4>1. CASE done
        BY <1>4, <1>5, <2>2, <3>2, <4>1
      <4>2. CASE ~done
        <5>1. outgoingSequence'[e] = outgoingSequence[e]
          BY <3>2, <4>2
        <5>2. unsentFragments'[e] /\ unsentMsg'[e] = body
          BY <3>2, <4>2, Zenon
        <5> QED BY <1>4, <1>5, <2>2, <5>1, <5>2
      <4> QED BY <4>1, <4>2
    <3> QED BY <3>1, <3>3, <3>4 DEF Genuine
  <2>3. CASE q \in net /\ q.to # Peer(e)
    <3>1. Genuine(q) /\ Peer(q.to) \in Endpoint /\ Peer(q.to) # e
      BY <1>3, <2>3, PeerFacts DEF Endpoint
    <3>2. LET f == Peer(q.to)
          IN  /\ outgoingSequence'[f] = outgoingSequence[f]
              /\ unsentFragments'[f] = unsentFragments[f]
              /\ unsentMsg'[f] = unsentMsg[f]
      BY <3>1 DEF IInv, TypeOK
    <3> QED BY <3>1, <3>2 DEF Genuine, Seen
  <2> QED BY <2>1, <2>2, <2>3
<1>8. ASSUME NEW f \in Endpoint PROVE Sending(f)'
  <2>1. CASE f = e
    <3>1. /\ unsentFragments'[e] = ~done
          /\ unsentMsg'[e] = body
          /\ ~done => outgoingSequence'[e] = outgoingSequence[e]
      BY DEF IInv, TypeOK
    <3> QED BY <2>1, <3>1 DEF Sending, Seen
  <2>2. CASE f # e
    <3>1. /\ outgoingSequence'[f] = outgoingSequence[f]
          /\ unsentFragments'[f] = unsentFragments[f]
          /\ unsentMsg'[f] = unsentMsg[f]
      BY <2>2 DEF IInv, TypeOK
    <3>2. Sending(f)
      BY DEF IInv
    <3> QED BY <2>2, <3>1, <3>2 DEF Sending, Seen
  <2> QED BY <2>1, <2>2
<1> QED BY <1>1, <1>2, <1>6, <1>7, <1>8 DEF IInv

\* The message that WriteMessageData writes is truthful.
LEMMA WrittenFacts ==
  ASSUME IInv, NEW e \in Endpoint, NEW wire \in Nat
  PROVE  /\ WriteMessageData(e, wire) \in Body
         /\ WriteMessageData(e, wire).data = outgoingSequence[e]
         /\ WriteMessageData(e, wire).wire = wire
         /\ Truthful(accepted[e], Seen(e), WriteMessageData(e, wire))
<1>1. /\ outgoingSequence[e] \in Nat \ {0}
      /\ reliableSend[e] \in Fifo
      /\ LastOf(reliableReceive[e]) \in Nat
  <2>1. TypeOK
    BY DEF IInv
  <2> QED BY <2>1, SeenType DEF TypeOK, Seen
<1>2. SendQueue(e)
  BY DEF IInv
<1> QED BY <1>1, <1>2 DEF WriteMessageData, Body, Truthful, Seen, SendQueue, Fifo

LEMMA SendWholeStep ==
  ASSUME IInv, NoExpansion, NEW e \in Endpoint,
         NEW total \in 0 .. MAX_MESSAGE_SIZE, NEW wire \in Wire[total],
         SendWhole(e, total, wire)
  PROVE  IInv'
<1> DEFINE body == WriteMessageData(e, wire)
           p == PacketOf(e, FALSE, 0, wire, body)
<1>1. wire \in Nat /\ wire < FRAGMENT_SIZE
  <2>1. wire \in 1 .. FRAGMENT_SIZE - 1
    BY DEF NoExpansion, SendWhole
  <2> QED BY <2>1, MsgChannelAssumption
<1>2. /\ body \in Body
      /\ body.data = outgoingSequence[e]
      /\ body.wire = wire
      /\ Truthful(accepted[e], Seen(e), body)
  BY <1>1, WrittenFacts
<1> HIDE DEF body
<1>3. TypeOK
  BY DEF IInv
<1>4. p \in Packet /\ p.to = Peer(e) /\ p.seq = outgoingSequence[e] /\ p.body = body
  <2>1. outgoingSequence[e] \in Nat /\ Peer(e) \in Endpoint
    BY <1>3, PeerFacts DEF TypeOK
  <2> QED BY <1>1, <1>2, <2>1 DEF PacketOf, Packet
<1>5. WellCut(p)
  BY <1>1, <1>2 DEF WellCut, PacketOf
<1>6. /\ ~unsentFragments[e]
      /\ net' = net \cup {p}
      /\ unsentMsg' = [unsentMsg EXCEPT ![e] = body]
      /\ outgoingSequence' = [outgoingSequence EXCEPT ![e] = @ + 1]
      /\ UNCHANGED <<unsentFragments, unsentFragmentStart>>
      /\ UNCHANGED <<recvVars, reliableSend, reliableReceive, accepted,
                     delivered, handed>>
  BY DEF SendWhole, MaySend, body
<1> HIDE DEF p
<1>7. unsentFragments' = [unsentFragments EXCEPT ![e] = ~TRUE]
  <2>1. unsentFragments[e] = FALSE
    BY <1>3, <1>6 DEF TypeOK
  <2> QED BY <1>3, <1>6, <2>1 DEF TypeOK
<1>8. /\ outgoingSequence' =
           [outgoingSequence EXCEPT ![e] = IF TRUE THEN @ + 1 ELSE @]
      /\ unsentFragmentStart' \in [Endpoint -> Nat]
  BY <1>3, <1>6 DEF TypeOK
<1>9. unsentFragments[e] => unsentMsg[e] = body
  BY <1>6
<1> QED BY <1>2, <1>4, <1>5, <1>6, <1>7, <1>8, <1>9, SendStep

\* One fragment of a message, the first of a new one or the next of the one
\* that is being sent.
LEMMA FragmentStep ==
  ASSUME IInv, NEW e \in Endpoint, NEW body \in Body, NEW start \in Nat,
         start <= body.wire, start = 0 \/ start >= FRAGMENT_SIZE,
         body.data = outgoingSequence[e],
         Truthful(accepted[e], Seen(e), body),
         unsentFragments[e] => unsentMsg[e] = body,
         unsentMsg' = [unsentMsg EXCEPT ![e] = body],
         TransmitFragment(e, body, start),
         UNCHANGED <<recvVars, reliableSend, reliableReceive, accepted,
                     delivered, handed>>
  PROVE  IInv'
<1>1. TypeOK
  BY DEF IInv
<1>2. PICK len \in Nat, done \in BOOLEAN :
        /\ net' = net \cup {PacketOf(e, TRUE, start, len, body)}
        /\ PacketOf(e, TRUE, start, len, body) \in Packet
        /\ WellCut(PacketOf(e, TRUE, start, len, body))
        /\ unsentFragmentStart' = [unsentFragmentStart EXCEPT ![e] = start + len]
        /\ unsentFragments' = [unsentFragments EXCEPT ![e] = ~done]
        /\ outgoingSequence' =
             [outgoingSequence EXCEPT ![e] = IF done THEN @ + 1 ELSE @]
        /\ ~done => start + len >= FRAGMENT_SIZE /\ start + len <= body.wire
  BY <1>1, TransmitFacts
<1> DEFINE p == PacketOf(e, TRUE, start, len, body)
<1>3. p.to = Peer(e) /\ p.seq = outgoingSequence[e] /\ p.body = body
  BY DEF PacketOf
<1>4. /\ unsentFragmentStart' \in [Endpoint -> Nat]
      /\ unsentFragmentStart'[e] = start + len
      /\ \A f \in Endpoint : f # e =>
           unsentFragmentStart'[f] = unsentFragmentStart[f]
  BY <1>1, <1>2 DEF TypeOK
<1>5. ~done => /\ unsentFragmentStart'[e] >= FRAGMENT_SIZE
               /\ unsentFragmentStart'[e] <= body.wire
  BY <1>2, <1>4
<1> HIDE DEF p
<1> QED BY <1>2, <1>3, <1>4, <1>5, SendStep DEF p

LEMMA SendFragmentedStep ==
  ASSUME IInv, NEW e \in Endpoint,
         NEW total \in 0 .. MAX_MESSAGE_SIZE, NEW wire \in Wire[total],
         SendFragmented(e, total, wire)
  PROVE  IInv'
<1> DEFINE body == WriteMessageData(e, wire)
<1>1. wire \in Nat
  BY MsgChannelAssumption
<1>2. /\ body \in Body
      /\ body.data = outgoingSequence[e]
      /\ body.wire = wire
      /\ Truthful(accepted[e], Seen(e), body)
  BY <1>1, WrittenFacts
<1>3. /\ ~unsentFragments[e]
      /\ unsentMsg' = [unsentMsg EXCEPT ![e] = body]
      /\ TransmitFragment(e, body, 0)
      /\ UNCHANGED <<recvVars, reliableSend, reliableReceive, accepted,
                     delivered, handed>>
  BY DEF SendFragmented, MaySend
<1> HIDE DEF body
<1>4. unsentFragments[e] => unsentMsg[e] = body
  BY <1>3
<1>5. 0 <= body.wire
  BY <1>1, <1>2
<1> QED BY <1>2, <1>3, <1>4, <1>5, FragmentStep

LEMMA SendNextFragmentStep ==
  ASSUME IInv, NEW e \in Endpoint, SendNextFragment(e)
  PROVE  IInv'
<1>1. unsentFragments[e] /\ Sending(e) /\ TypeOK
  BY DEF SendNextFragment, IInv
<1>2. /\ unsentMsg[e] \in Body
      /\ unsentFragmentStart[e] \in Nat
      /\ unsentMsg[e].data = outgoingSequence[e]
      /\ Truthful(accepted[e], Seen(e), unsentMsg[e])
      /\ unsentFragmentStart[e] >= FRAGMENT_SIZE
      /\ unsentFragmentStart[e] <= unsentMsg[e].wire
  BY <1>1 DEF Sending, TypeOK
<1>3. unsentMsg' = [unsentMsg EXCEPT ![e] = unsentMsg[e]]
  BY <1>1 DEF SendNextFragment, TypeOK
<1>4. /\ TransmitFragment(e, unsentMsg[e], unsentFragmentStart[e])
      /\ UNCHANGED <<recvVars, reliableSend, reliableReceive, accepted,
                     delivered, handed>>
  BY DEF SendNextFragment
<1> QED BY <1>2, <1>3, <1>4, FragmentStep

-----------------------------------------------------------------------------
(* Reliable messages: what the game sends and reads. *)

LEMMA AppendExtends ==
  ASSUME NEW s \in Seq(Message), NEW m \in Message
  PROVE  /\ Append(s, m) \in Seq(Message)
         /\ Len(Append(s, m)) = Len(s) + 1
         /\ Append(s, m)[Len(s) + 1] = m
         /\ Extends(s, Append(s, m))
BY AppendProperties DEF Extends

\* What SendReliableMessage does to one queue and its history.
LEMMA AddToFacts ==
  ASSUME NEW q \in Fifo, NEW m \in Message, NEW s \in Seq(Message),
         Copies(s, q.first, q.msgs), LastOf(q) = Len(s) + 1,
         NEW t, t = IF HasRoom(q, m) THEN Append(s, m) ELSE s
  PROVE  /\ AddTo(q, m) \in Fifo
         /\ AddTo(q, m).first = q.first
         /\ t \in Seq(Message)
         /\ Extends(s, t)
         /\ Copies(t, q.first, AddTo(q, m).msgs)
         /\ LastOf(AddTo(q, m)) = Len(t) + 1
<1>1. CASE ~HasRoom(q, m)
  BY <1>1 DEF AddTo, Extends
<1>2. CASE HasRoom(q, m)
  <2> DEFINE r == Extend(q, <<m>>)
  <2>1. AddTo(q, m) = r /\ t = Append(s, m)
    BY <1>2 DEF AddTo
  <2>2. <<m>> \in Seq(Message) /\ Len(<<m>>) = 1 /\ <<m>>[1] = m
    OBVIOUS
  <2>3. /\ r \in Fifo
        /\ r.first = q.first
        /\ Len(r.msgs) = Len(q.msgs) + 1
        /\ LastOf(r) = LastOf(q) + 1
        /\ \A i \in 1 .. Len(q.msgs) : r.msgs[i] = q.msgs[i]
        /\ r.msgs[Len(q.msgs) + 1] = m
    <3>1. /\ r \in Fifo
          /\ r.first = q.first
          /\ Len(r.msgs) = Len(q.msgs) + Len(<<m>>)
          /\ LastOf(r) = LastOf(q) + Len(<<m>>)
          /\ \A i \in 1 .. Len(q.msgs) : r.msgs[i] = q.msgs[i]
          /\ \A i \in 1 .. Len(<<m>>) : r.msgs[Len(q.msgs) + i] = <<m>>[i]
      BY <2>2, ExtendFacts, Zenon
    <3> HIDE DEF r
    <3> QED BY <2>2, <3>1
  <2> HIDE DEF r
  <2>4. /\ t \in Seq(Message)
        /\ Len(t) = Len(s) + 1
        /\ t[Len(s) + 1] = m
        /\ Extends(s, t)
    BY <2>1, AppendExtends
  <2>5. q.first \in Nat /\ Len(q.msgs) \in Nat /\ Len(s) \in Nat
    BY DEF Fifo
  <2>6. q.first + Len(q.msgs) = Len(s) + 1
    BY DEF LastOf
  <2>7. Copies(t, q.first, r.msgs)
    <3>1. q.first >= 1 /\ q.first + Len(r.msgs) <= Len(t) + 1
      BY <2>3, <2>4, <2>5, <2>6 DEF Copies
    <3>2. ASSUME NEW i \in 1 .. Len(r.msgs) PROVE r.msgs[i] = t[q.first + i - 1]
      <4>1. CASE i = Len(q.msgs) + 1
        <5>1. q.first + i - 1 = Len(s) + 1
          BY <2>5, <2>6, <4>1
        <5> QED BY <2>3, <2>4, <4>1, <5>1
      <4>2. CASE i \in 1 .. Len(q.msgs)
        <5>1. q.first + i - 1 \in 1 .. Len(s)
          BY <2>5, <2>6, <3>1, <4>2
        <5> QED BY <2>3, <2>4, <4>2, <5>1 DEF Copies, Extends
      <4>3. i = Len(q.msgs) + 1 \/ i \in 1 .. Len(q.msgs)
        BY <2>3, <2>5
      <4> QED BY <4>1, <4>2, <4>3
    <3> QED BY <3>1, <3>2 DEF Copies
  <2> QED BY <2>1, <2>3, <2>4, <2>6, <2>7
<1> QED BY <1>1, <1>2

\* A receiver keeps up with a sender whose history grows.
LEMMA ReceiveQueueGrows ==
  ASSUME IInv, NEW e \in Endpoint, accepted'[Peer(e)] \in Seq(Message),
         Extends(accepted[Peer(e)], accepted'[Peer(e)]),
         UNCHANGED <<reliableReceive, delivered>>
  PROVE  ReceiveQueue(e)'
<1>1. ReceiveQueue(e) /\ TypeOK
  BY DEF IInv
<1>2. /\ accepted[Peer(e)] \in Seq(Message)
      /\ reliableReceive[e].first \in Nat
      /\ reliableReceive[e].msgs \in Seq(Message)
      /\ Len(delivered[e]) \in Nat
  <2>1. reliableReceive[e] \in Fifo /\ delivered[e] \in Seq(Message)
    BY <1>1 DEF TypeOK
  <2>2. accepted[Peer(e)] \in Seq(Message)
    BY <1>1, PeerFacts DEF TypeOK
  <2> QED BY <2>1, <2>2 DEF Fifo
<1>3. Copies(accepted'[Peer(e)], reliableReceive[e].first + 1, reliableReceive[e].msgs)
  <2>1. reliableReceive[e].first + 1 \in Nat
    BY <1>2
  <2>2. Copies(accepted[Peer(e)], reliableReceive[e].first + 1, reliableReceive[e].msgs)
    BY <1>1, Zenon DEF ReceiveQueue
  <2> QED BY <1>2, <2>1, <2>2, CopiesGrow, Zenon
<1>4. \A i \in 1 .. Len(delivered[e]) : i \in 1 .. Len(accepted[Peer(e)])
  <2>1. /\ Len(reliableReceive[e].msgs) \in Nat
        /\ Len(accepted[Peer(e)]) \in Nat
        /\ Len(delivered[e]) \in Nat
    BY <1>2
  <2>2. Len(delivered[e]) + 1 + Len(reliableReceive[e].msgs)
          <= Len(accepted[Peer(e)]) + 1
    BY <1>1 DEF ReceiveQueue, Copies
  <2>3. Len(delivered[e]) <= Len(accepted[Peer(e)])
    <3> DEFINE a == Len(delivered[e])
               b == Len(accepted[Peer(e)])
               c == Len(reliableReceive[e].msgs)
    <3>1. a \in Nat /\ b \in Nat /\ c \in Nat /\ a + 1 + c <= b + 1
      BY <2>1, <2>2, Zenon
    <3> HIDE DEF a, b, c
    <3>2. a <= b
      BY <3>1
    <3> QED BY <3>2 DEF a, b
  <2> QED BY <2>1, <2>3
<1>5. \A i \in 1 .. Len(delivered[e]) : delivered[e][i] = accepted'[Peer(e)][i]
  BY <1>1, <1>4 DEF ReceiveQueue, Extends
<1> QED BY <1>1, <1>3, <1>5 DEF ReceiveQueue

LEMMA SendReliableMessageStep ==
  ASSUME IInv, NEW e \in Endpoint, NEW m \in Message, SendReliableMessage(e, m)
  PROVE  IInv'
<1>1. TypeOK /\ \A f \in Endpoint :
        Sending(f) /\ Buffered(f) /\ SendQueue(f) /\ ReceiveQueue(f) /\ Handed(f)
  BY DEF IInv
<1>2. /\ reliableSend' = [reliableSend EXCEPT ![e] = AddTo(@, m)]
      /\ accepted' = [accepted EXCEPT
                        ![e] = IF HasRoom(reliableSend[e], m)
                                 THEN Append(accepted[e], m) ELSE accepted[e]]
      /\ UNCHANGED <<sendVars, recvVars, reliableReceive, net, delivered, handed>>
  BY <1>1 DEF SendReliableMessage, TypeOK
<1>3. /\ reliableSend'[e] = AddTo(reliableSend[e], m)
      /\ accepted'[e] = IF HasRoom(reliableSend[e], m)
                          THEN Append(accepted[e], m) ELSE accepted[e]
      /\ \A f \in Endpoint : f # e => /\ reliableSend'[f] = reliableSend[f]
                                      /\ accepted'[f] = accepted[f]
  BY <1>1, <1>2 DEF TypeOK
<1>4. /\ reliableSend[e] \in Fifo
      /\ accepted[e] \in Seq(Message)
      /\ Copies(accepted[e], reliableSend[e].first, reliableSend[e].msgs)
      /\ LastOf(reliableSend[e]) = Len(accepted[e]) + 1
  BY <1>1 DEF TypeOK, SendQueue
<1>5. /\ reliableSend'[e] \in Fifo
      /\ reliableSend'[e].first = reliableSend[e].first
      /\ accepted'[e] \in Seq(Message)
      /\ Extends(accepted[e], accepted'[e])
      /\ Copies(accepted'[e], reliableSend'[e].first, reliableSend'[e].msgs)
      /\ LastOf(reliableSend'[e]) = Len(accepted'[e]) + 1
  <2> DEFINE q == reliableSend[e]
             s == accepted[e]
             t == accepted'[e]
  <2>1. t = IF HasRoom(q, m) THEN Append(s, m) ELSE s
    BY <1>3
  <2> HIDE DEF q, s, t
  <2>2. /\ AddTo(q, m) \in Fifo
        /\ AddTo(q, m).first = q.first
        /\ t \in Seq(Message)
        /\ Extends(s, t)
        /\ Copies(t, q.first, AddTo(q, m).msgs)
        /\ LastOf(AddTo(q, m)) = Len(t) + 1
    <3>1. /\ q \in Fifo /\ s \in Seq(Message)
          /\ Copies(s, q.first, q.msgs) /\ LastOf(q) = Len(s) + 1
      BY <1>4 DEF q, s
    <3> QED BY <2>1, <3>1, AddToFacts, Zenon
  <2> QED BY <1>3, <2>2 DEF q, s, t
<1>6. TypeOK'
  <2>1. reliableSend' \in [Endpoint -> Fifo]
    BY <1>1, <1>2, <1>3, <1>5 DEF TypeOK
  <2>2. accepted' \in [Endpoint -> Seq(Message)]
    BY <1>1, <1>2, <1>3, <1>5 DEF TypeOK
  <2> QED BY <1>1, <1>2, <2>1, <2>2 DEF TypeOK, sendVars, recvVars
<1>7. Grew
  <2>1. \A f \in Endpoint : Extends(accepted[f], accepted'[f])
    <3>1. \A f \in Endpoint : f # e => Extends(accepted[f], accepted'[f])
      <4>1. \A f \in Endpoint : Len(accepted[f]) \in Nat
        BY <1>1 DEF TypeOK
      <4> QED BY <1>3, <4>1 DEF Extends
    <3> QED BY <1>5, <3>1
  <2>2. \A f \in Endpoint : Seen(f) <= Seen(f)'
    BY <1>1, <1>2, SeenType DEF Seen
  <2> QED BY <2>1, <2>2 DEF Grew
<1>8. OneBody' /\ (\A p \in net' : Genuine(p)') /\ \A f \in Endpoint : Sending(f)'
  BY <1>2, <1>6, <1>7, KeepsPackets
<1>9. ASSUME NEW f \in Endpoint
      PROVE  Buffered(f)' /\ SendQueue(f)' /\ ReceiveQueue(f)' /\ Handed(f)'
  <2>1. Buffered(f)' /\ Handed(f)'
    BY <1>1, <1>2 DEF Buffered, Handed, recvVars
  <2>2. SendQueue(f)'
    <3>1. CASE f = e
      BY <1>1, <1>2, <1>5, <3>1 DEF SendQueue, Seen
    <3>2. CASE f # e
      BY <1>1, <1>2, <1>3, <3>2 DEF SendQueue, Seen
    <3> QED BY <3>1, <3>2
  <2>3. ReceiveQueue(f)'
    BY <1>2, <1>6, <1>7, PeerFacts, ReceiveQueueGrows DEF Grew, TypeOK
  <2> QED BY <2>1, <2>2, <2>3
<1> QED BY <1>6, <1>8, <1>9 DEF IInv


\* GetReliableMessage: the oldest message moves from the queue to the game.
LEMMA GetReliableMessageStep ==
  ASSUME IInv, NEW e \in Endpoint, GetReliableMessage(e)
  PROVE  IInv'
<1>1. TypeOK /\ \A f \in Endpoint :
        Sending(f) /\ Buffered(f) /\ SendQueue(f) /\ ReceiveQueue(f) /\ Handed(f)
  BY DEF IInv
<1> DEFINE q == reliableReceive[e]
           sent == accepted[Peer(e)]
<1>2. /\ reliableReceive' = [reliableReceive EXCEPT ![e] = Without(q, 1)]
      /\ delivered' = [delivered EXCEPT ![e] = Append(delivered[e], Head(q.msgs))]
      /\ UNCHANGED <<sendVars, recvVars, reliableSend, net, accepted, handed>>
      /\ q.msgs # <<>>
  BY <1>1 DEF GetReliableMessage, TypeOK
<1>3. /\ q \in Fifo /\ q.msgs \in Seq(Message) /\ q.first \in Nat
      /\ Len(q.msgs) \in Nat /\ sent \in Seq(Message)
      /\ delivered[e] \in Seq(Message)
  <2>1. q \in Fifo /\ delivered[e] \in Seq(Message) /\ sent \in Seq(Message)
    BY <1>1, PeerFacts DEF TypeOK
  <2> QED BY <2>1 DEF Fifo
<1>4. Len(q.msgs) >= 1 /\ Head(q.msgs) = q.msgs[1] /\ q.msgs[1] \in Message
  BY <1>2, <1>3
<1>5. /\ Without(q, 1) \in Fifo
      /\ Without(q, 1).first = q.first + 1
      /\ Len(Without(q, 1).msgs) = Len(q.msgs) - 1
      /\ LastOf(Without(q, 1)) = LastOf(q)
      /\ \A i \in 1 .. Len(q.msgs) - 1 : Without(q, 1).msgs[i] = q.msgs[i + 1]
  <2>1. 1 \in 0 .. Len(q.msgs)
    BY <1>3, <1>4
  <2> QED BY <1>3, <2>1, WithoutFacts, Zenon
<1>6. /\ reliableReceive'[e] = Without(q, 1)
      /\ delivered'[e] = Append(delivered[e], q.msgs[1])
      /\ \A f \in Endpoint : f # e => /\ reliableReceive'[f] = reliableReceive[f]
                                      /\ delivered'[f] = delivered[f]
  BY <1>1, <1>2, <1>4 DEF TypeOK
<1>7. /\ delivered'[e] \in Seq(Message)
      /\ Len(delivered'[e]) = Len(delivered[e]) + 1
      /\ delivered'[e][Len(delivered[e]) + 1] = q.msgs[1]
      /\ \A i \in 1 .. Len(delivered[e]) : delivered'[e][i] = delivered[e][i]
  BY <1>3, <1>4, <1>6, AppendExtends DEF Extends
<1>8. \A f \in Endpoint : Seen(f)' = Seen(f)
  BY <1>5, <1>6 DEF Seen
<1>9. TypeOK'
  <2>1. reliableReceive' \in [Endpoint -> Fifo]
    BY <1>1, <1>2, <1>5 DEF TypeOK
  <2>2. delivered' \in [Endpoint -> Seq(Message)]
    BY <1>1, <1>2, <1>6, <1>7 DEF TypeOK
  <2> QED BY <1>1, <1>2, <2>1, <2>2 DEF TypeOK, sendVars, recvVars
<1>10. Grew
  <2>1. \A f \in Endpoint : Len(accepted[f]) \in Nat /\ Seen(f) \in Nat
    <3>1. \A f \in Endpoint : accepted[f] \in Seq(Message)
      BY <1>1 DEF TypeOK
    <3> QED BY <1>1, <3>1, SeenType
  <2> QED BY <1>2, <1>8, <2>1 DEF Grew, Extends
<1>11. OneBody' /\ (\A p \in net' : Genuine(p)') /\ \A f \in Endpoint : Sending(f)'
  BY <1>2, <1>9, <1>10, KeepsPackets
<1>12. ReceiveQueue(e)'
  <2>1. /\ q.first = Len(delivered[e])
        /\ \A i \in 1 .. Len(delivered[e]) : delivered[e][i] = sent[i]
        /\ q.first + 1 + Len(q.msgs) <= Len(sent) + 1
        /\ \A i \in 1 .. Len(q.msgs) : q.msgs[i] = sent[q.first + 1 + i - 1]
    BY <1>1 DEF ReceiveQueue, Copies
  <2>2. q.msgs[1] = sent[Len(delivered[e]) + 1]
    <3>1. 1 \in 1 .. Len(q.msgs)
      BY <1>3, <1>4
    <3>2. q.msgs[1] = sent[q.first + 1 + 1 - 1]
      BY <2>1, <3>1
    <3>3. q.first + 1 + 1 - 1 = Len(delivered[e]) + 1
      BY <1>3, <2>1
    <3> QED BY <3>2, <3>3
  <2>3. \A i \in 1 .. Len(delivered'[e]) : delivered'[e][i] = sent[i]
    <3>1. \A i \in 1 .. Len(delivered'[e]) :
            i \in 1 .. Len(delivered[e]) \/ i = Len(delivered[e]) + 1
      <4>1. Len(delivered[e]) \in Nat
        BY <1>3
      <4> QED BY <1>7, <4>1
    <3> QED BY <1>7, <2>1, <2>2, <3>1
  <2>4. Copies(sent, q.first + 1 + 1, Without(q, 1).msgs)
    <3>1. /\ q.first + 1 + 1 >= 1
          /\ q.first + 1 + 1 + Len(Without(q, 1).msgs) <= Len(sent) + 1
      <4> DEFINE a == q.first
                 b == Len(q.msgs)
                 c == Len(sent)
                 d == Len(Without(q, 1).msgs)
      <4>1. a \in Nat /\ b \in Nat /\ c \in Nat
        BY <1>3
      <4>2. d = b - 1 /\ a + 1 + b <= c + 1
        BY <1>5, <2>1, Zenon
      <4> HIDE DEF a, b, c, d
      <4>3. a + 1 + 1 >= 1 /\ a + 1 + 1 + d <= c + 1
        BY <4>1, <4>2
      <4> QED BY <4>3, Zenon DEF a, c, d
    <3>2. ASSUME NEW i \in 1 .. Len(Without(q, 1).msgs)
          PROVE  Without(q, 1).msgs[i] = sent[q.first + 1 + 1 + i - 1]
      <4>1. i \in 1 .. Len(q.msgs) - 1 /\ i + 1 \in 1 .. Len(q.msgs)
        BY <1>3, <1>5
      <4>2. Without(q, 1).msgs[i] = q.msgs[i + 1]
        BY <1>5, <4>1
      <4>3. q.msgs[i + 1] = sent[q.first + 1 + (i + 1) - 1]
        BY <2>1, <4>1
      <4>4. q.first + 1 + (i + 1) - 1 = q.first + 1 + 1 + i - 1
        BY <1>3, <4>1
      <4> QED BY <4>2, <4>3, <4>4
    <3> QED BY <3>1, <3>2 DEF Copies
  <2>5. reliableReceive'[e].first = Len(delivered'[e])
    BY <1>5, <1>6, <1>7, <2>1
  <2>6. Copies(sent, reliableReceive'[e].first + 1, reliableReceive'[e].msgs)
    BY <1>5, <1>6, <2>4
  <2> QED BY <1>2, <2>3, <2>5, <2>6 DEF ReceiveQueue
<1>13. ASSUME NEW f \in Endpoint
       PROVE  Buffered(f)' /\ SendQueue(f)' /\ ReceiveQueue(f)' /\ Handed(f)'
  <2>1. Buffered(f)' /\ Handed(f)'
    BY <1>1, <1>2 DEF Buffered, Handed, recvVars
  <2>2. SendQueue(f)'
    BY <1>1, <1>2, <1>8, PeerFacts DEF SendQueue
  <2>3. ReceiveQueue(f)'
    <3>1. CASE f = e
      BY <1>12, <3>1
    <3>2. CASE f # e
      BY <1>1, <1>2, <1>6, <3>2 DEF ReceiveQueue
    <3> QED BY <3>1, <3>2
  <2> QED BY <2>1, <2>2, <2>3
<1> QED BY <1>9, <1>11, <1>13 DEF IInv

-----------------------------------------------------------------------------
(* Receiving. *)

\* The messages that ReadMessageData may add are the next ones.
LEMMA FreshFacts ==
  ASSUME IInv, NEW e \in Endpoint, NEW b \in Body,
         Copies(accepted[Peer(e)], b.first, b.msgs)
  PROVE  /\ Fresh(e, b) \in Seq(Message)
         /\ Seen(e) + Len(Fresh(e, b)) <= Len(accepted[Peer(e)])
         /\ \A i \in 1 .. Len(Fresh(e, b)) :
              Fresh(e, b)[i] = accepted[Peer(e)][Seen(e) + i]
<1> DEFINE sent == accepted[Peer(e)]
           n == Len(b.msgs)
           seen == Seen(e) + 1 - b.first
<1>1. TypeOK /\ ReceiveQueue(e)
  BY DEF IInv
<1>2. Seen(e) \in Nat /\ b.first \in Nat /\ b.msgs \in Seq(Message) /\ n \in Nat
  BY <1>1, SeenType DEF Body
<1>3. sent \in Seq(Message) /\ Len(sent) \in Nat
  BY <1>1, PeerFacts DEF TypeOK
<1>4. Seen(e) <= Len(sent)
  <2>1. reliableReceive[e] \in Fifo
    BY <1>1 DEF TypeOK
  <2>2. reliableReceive[e].first \in Nat /\ Len(reliableReceive[e].msgs) \in Nat
    BY <2>1 DEF Fifo
  <2>3. reliableReceive[e].first + 1 + Len(reliableReceive[e].msgs) <= Len(sent) + 1
    BY <1>1 DEF ReceiveQueue, Copies
  <2>4. Seen(e) = reliableReceive[e].first + Len(reliableReceive[e].msgs)
    BY DEF Seen, LastOf
  <2> HIDE DEF sent
  <2> QED BY <1>3, <2>2, <2>3, <2>4
<1>5. /\ b.first + n <= Len(sent) + 1
      /\ \A i \in 1 .. n : b.msgs[i] = sent[b.first + i - 1]
  BY DEF Copies
<1>6. CASE seen \in 0 .. n
  <2>1. Fresh(e, b) = SubSeq(b.msgs, seen + 1, n)
    BY <1>6 DEF Fresh, Seen
  <2>2. /\ SubSeq(b.msgs, seen + 1, n) \in Seq(Message)
        /\ Len(SubSeq(b.msgs, seen + 1, n)) =
             IF seen + 1 <= n THEN n - (seen + 1) + 1 ELSE 0
        /\ \A i \in 1 .. n - (seen + 1) + 1 :
             SubSeq(b.msgs, seen + 1, n)[i] = b.msgs[(seen + 1) + i - 1]
    <3>1. \A i \in seen + 1 .. n : b.msgs[i] \in Message
      BY <1>2, <1>6
    <3>2. seen + 1 \in Int /\ n \in Int
      BY <1>2, <1>6
    <3> HIDE DEF seen, n
    <3> QED BY <3>1, <3>2, SubSeqProperties
  <2>3. Len(Fresh(e, b)) = n - seen
    BY <1>2, <1>6, <2>1, <2>2
  <2>4. ASSUME NEW i \in 1 .. Len(Fresh(e, b))
        PROVE  Fresh(e, b)[i] = sent[Seen(e) + i]
    <3>1. /\ i \in 1 .. n - (seen + 1) + 1
          /\ (seen + 1) + i - 1 \in 1 .. n
          /\ b.first + ((seen + 1) + i - 1) - 1 = Seen(e) + i
      <4>1. i \in 1 .. n - seen
        BY <2>3
      <4>2. seen \in 0 .. n /\ n \in Nat
        BY <1>2, <1>6
      <4>3. b.first + seen = Seen(e) + 1 /\ b.first \in Nat
        BY <1>2
      <4>4. b.first + ((seen + 1) + i - 1) - 1 = (b.first + seen) + i - 1
        BY <4>1, <4>2, <4>3
      <4>5. b.first + ((seen + 1) + i - 1) - 1 = Seen(e) + i
        BY <1>2, <4>1, <4>2, <4>3, <4>4
      <4> HIDE DEF n, seen
      <4> QED BY <4>1, <4>2, <4>5
    <3>2. Fresh(e, b)[i] = b.msgs[(seen + 1) + i - 1]
      BY <2>1, <2>2, <3>1
    <3>3. b.msgs[(seen + 1) + i - 1] = sent[b.first + ((seen + 1) + i - 1) - 1]
      BY <1>5, <3>1
    <3> QED BY <3>1, <3>2, <3>3
  <2>5. Seen(e) + Len(Fresh(e, b)) <= Len(sent)
    <3> HIDE DEF n, sent
    <3> QED BY SMTT(30), <1>2, <1>3, <1>5, <1>6, <2>3
  <2> QED BY <2>1, <2>2, <2>4, <2>5
<1>7. CASE seen \notin 0 .. n
  <2>1. Fresh(e, b) = <<>>
    BY <1>7 DEF Fresh, Seen
  <2> QED BY <1>2, <1>3, <1>4, <2>1
<1> QED BY <1>6, <1>7


\* Removing what is acknowledged keeps a send queue consistent.
LEMMA AcknowledgeFacts ==
  ASSUME NEW q \in Fifo, NEW ack \in Nat, NEW s \in Seq(Message),
         Copies(s, q.first, q.msgs), NEW seen \in Nat, ack <= seen,
         q.first <= seen + 1
  PROVE  LET r == Without(q, Acknowledged(q, ack))
         IN  /\ r \in Fifo
             /\ Copies(s, r.first, r.msgs)
             /\ LastOf(r) = LastOf(q)
             /\ r.first <= seen + 1
<1> DEFINE k == Acknowledged(q, ack)
           r == Without(q, k)
<1>1. k \in 0 .. Len(q.msgs) /\ (k = 0 \/ q.first + k <= ack + 1)
  BY AcknowledgedFacts
<1> HIDE DEF k
<1>2. /\ r \in Fifo
      /\ r.first = q.first + k
      /\ Len(r.msgs) = Len(q.msgs) - k
      /\ LastOf(r) = LastOf(q)
      /\ \A i \in 1 .. Len(q.msgs) - k : r.msgs[i] = q.msgs[i + k]
  BY <1>1, WithoutFacts
<1> HIDE DEF r
<1>3. q.first \in Nat /\ Len(q.msgs) \in Nat /\ Len(s) \in Nat
  BY DEF Fifo
<1>4. Copies(s, r.first, r.msgs)
  <2>1. r.first >= 1 /\ r.first + Len(r.msgs) <= Len(s) + 1
    BY <1>1, <1>2, <1>3 DEF Copies
  <2>2. ASSUME NEW i \in 1 .. Len(r.msgs) PROVE r.msgs[i] = s[r.first + i - 1]
    <3>1. i \in 1 .. Len(q.msgs) - k /\ i + k \in 1 .. Len(q.msgs)
      BY <1>1, <1>2, <1>3
    <3>2. q.first + (i + k) - 1 = r.first + i - 1
      BY <1>1, <1>2, <1>3, <3>1
    <3>3. q.msgs[i + k] = s[q.first + (i + k) - 1]
      BY <3>1 DEF Copies
    <3> QED BY <1>2, <3>1, <3>2, <3>3
  <2> QED BY <2>1, <2>2 DEF Copies
<1>5. r.first <= seen + 1
  BY <1>1, <1>2, <1>3
<1> QED BY <1>2, <1>4, <1>5 DEF r, k

\* Adding the next messages keeps a receive queue consistent.
LEMMA TakeFacts ==
  ASSUME NEW q \in Fifo, NEW ms \in Seq(Message), NEW s \in Seq(Message),
         Copies(s, q.first + 1, q.msgs),
         LastOf(q) + Len(ms) <= Len(s),
         \A i \in 1 .. Len(ms) : ms[i] = s[LastOf(q) + i],
         NEW n \in 0 .. Len(ms)
  PROVE  LET r == Extend(q, SubSeq(ms, 1, n))
         IN  /\ r \in Fifo
             /\ r.first = q.first
             /\ Copies(s, r.first + 1, r.msgs)
             /\ LastOf(q) <= LastOf(r)
<1> DEFINE new == SubSeq(ms, 1, n)
           r == Extend(q, new)
<1>1. q.first \in Nat /\ Len(q.msgs) \in Nat /\ Len(s) \in Nat /\ Len(ms) \in Nat
  BY DEF Fifo
<1>2. /\ new \in Seq(Message)
      /\ Len(new) = n
      /\ \A i \in 1 .. n : new[i] = ms[i]
  <2>1. \A i \in 1 .. n : ms[i] \in Message
    BY <1>1
  <2>2. /\ new \in Seq(Message)
        /\ Len(new) = IF 1 <= n THEN n - 1 + 1 ELSE 0
        /\ \A i \in 1 .. n - 1 + 1 : new[i] = ms[1 + i - 1]
    <3>1. 1 \in Int /\ n \in Int
      BY <1>1
    <3> QED BY <2>1, <3>1, SubSeqProperties
  <2>3. \A i \in 1 .. n : i \in 1 .. n - 1 + 1 /\ 1 + i - 1 = i
    BY <1>1
  <2> HIDE DEF new
  <2> QED BY <1>1, <2>2, <2>3
<1> HIDE DEF new
<1>3. /\ r \in Fifo
      /\ r.first = q.first
      /\ Len(r.msgs) = Len(q.msgs) + Len(new)
      /\ LastOf(r) = LastOf(q) + Len(new)
      /\ \A i \in 1 .. Len(q.msgs) : r.msgs[i] = q.msgs[i]
      /\ \A i \in 1 .. Len(new) : r.msgs[Len(q.msgs) + i] = new[i]
  BY <1>2, ExtendFacts, Zenon
<1> HIDE DEF r
<1>4. LastOf(q) = q.first + Len(q.msgs) /\ LastOf(q) \in Nat
  BY <1>1 DEF LastOf
<1>5. Copies(s, r.first + 1, r.msgs)
  <2>1. r.first + 1 >= 1 /\ r.first + 1 + Len(r.msgs) <= Len(s) + 1
    <3> DEFINE a == r.first
               b == Len(r.msgs)
               c == Len(s)
               d == Len(q.msgs)
               l == Len(ms)
    <3>1. a \in Nat /\ c \in Nat /\ d \in Nat /\ l \in Nat
      BY <1>1, <1>3
    <3>2. b = d + n /\ n \in 0 .. l
      BY <1>2, <1>3
    <3>3. a + d + l <= c
      BY <1>3, <1>4
    <3> HIDE DEF a, b, c, d, l
    <3>4. a + 1 >= 1 /\ a + 1 + b <= c + 1
      BY <3>1, <3>2, <3>3
    <3> QED BY <3>4, Zenon DEF a, b, c
  <2>2. ASSUME NEW i \in 1 .. Len(r.msgs)
        PROVE  r.msgs[i] = s[r.first + 1 + i - 1]
    <3>1. CASE i \in 1 .. Len(q.msgs)
      BY <1>3, <3>1 DEF Copies
    <3>2. CASE i \notin 1 .. Len(q.msgs)
      <4> DEFINE j == i - Len(q.msgs)
      <4>1. j \in 1 .. n /\ i = Len(q.msgs) + j /\ j \in 1 .. Len(ms)
        BY <1>1, <1>2, <1>3, <3>2
      <4>2. LastOf(q) + j = r.first + 1 + i - 1
        <5> DEFINE a == q.first
                   d == Len(q.msgs)
        <5>1. LastOf(q) = a + d /\ r.first = a /\ a \in Nat /\ d \in Nat
          BY <1>1, <1>3, <1>4
        <5>2. i = d + j /\ j \in Nat
          BY <4>1
        <5> HIDE DEF a, d, j
        <5> QED BY <5>1, <5>2
      <4> HIDE DEF j
      <4>3. r.msgs[i] = new[j] /\ new[j] = ms[j]
        BY <1>2, <1>3, <4>1
      <4> QED BY <4>1, <4>2, <4>3
    <3> QED BY <3>1, <3>2
  <2> QED BY <2>1, <2>2 DEF Copies
<1>6. LastOf(q) <= LastOf(r)
  BY <1>1, <1>2, <1>3, <1>4
<1> QED BY <1>3, <1>5, <1>6 DEF r, new

\* What a truthful message does to the queues.
LEMMA ReadStep ==
  ASSUME IInv, NEW e \in Endpoint, NEW b \in Body,
         Truthful(accepted[Peer(e)], Seen(Peer(e)), b),
         ReadMessageData(e, b), UNCHANGED <<accepted, delivered>>
  PROVE  /\ reliableSend' \in [Endpoint -> Fifo]
         /\ reliableReceive' \in [Endpoint -> Fifo]
         /\ Grew
         /\ \A f \in Endpoint : SendQueue(f)' /\ ReceiveQueue(f)'
<1>1. TypeOK /\ \A f \in Endpoint : SendQueue(f) /\ ReceiveQueue(f)
  BY DEF IInv
<1>2. Peer(e) \in Endpoint /\ Peer(e) # e /\ Peer(Peer(e)) = e
  BY PeerFacts
<1>3. /\ reliableSend[e] \in Fifo /\ reliableReceive[e] \in Fifo
      /\ accepted[e] \in Seq(Message) /\ accepted[Peer(e)] \in Seq(Message)
      /\ \A f \in Endpoint : Seen(f) \in Nat
      /\ b.ack \in Nat
  BY <1>1, <1>2, SeenType DEF TypeOK, Body
<1> DEFINE q == reliableSend[e]
           r == Without(q, Acknowledged(q, b.ack))
<1>4. /\ r \in Fifo
      /\ Copies(accepted[e], r.first, r.msgs)
      /\ LastOf(r) = Len(accepted[e]) + 1
      /\ r.first <= Seen(Peer(e)) + 1
  <2>1. /\ Copies(accepted[e], q.first, q.msgs)
        /\ LastOf(q) = Len(accepted[e]) + 1
        /\ q.first <= Seen(Peer(e)) + 1
    BY <1>1 DEF SendQueue
  <2>2. b.ack <= Seen(Peer(e))
    BY DEF Truthful
  <2> QED BY <1>2, <1>3, <2>1, <2>2, AcknowledgeFacts
<1>5. reliableSend' = [reliableSend EXCEPT ![e] = r]
  BY <1>1 DEF ReadMessageData, TypeOK
<1> HIDE DEF r
<1> DEFINE s == reliableReceive[e]
           new == Fresh(e, b)
<1>6. PICK n \in 0 .. Len(new) :
        reliableReceive' = [reliableReceive EXCEPT
                              ![e] = Extend(@, SubSeq(new, 1, n))]
  BY DEF ReadMessageData
<1> DEFINE t == Extend(s, SubSeq(new, 1, n))
<1>7. /\ t \in Fifo
      /\ t.first = s.first
      /\ Copies(accepted[Peer(e)], t.first + 1, t.msgs)
      /\ LastOf(s) <= LastOf(t)
  <2>1. /\ new \in Seq(Message)
        /\ Seen(e) + Len(new) <= Len(accepted[Peer(e)])
        /\ \A i \in 1 .. Len(new) : new[i] = accepted[Peer(e)][Seen(e) + i]
    BY FreshFacts DEF Truthful
  <2>2. Copies(accepted[Peer(e)], s.first + 1, s.msgs)
    BY <1>1 DEF ReceiveQueue
  <2> HIDE DEF new, s
  <2>3. LastOf(s) = Seen(e) /\ s \in Fifo
    BY <1>3 DEF Seen, s
  <2> QED BY ZenonT(60), <1>3, <1>6, <2>1, <2>2, <2>3, TakeFacts
<1>8. reliableReceive' = [reliableReceive EXCEPT ![e] = t]
  BY <1>1, <1>6 DEF TypeOK
<1> HIDE DEF t
<1>9. /\ reliableSend' \in [Endpoint -> Fifo] /\ reliableSend'[e] = r
      /\ reliableReceive' \in [Endpoint -> Fifo] /\ reliableReceive'[e] = t
      /\ \A f \in Endpoint : f # e => /\ reliableSend'[f] = reliableSend[f]
                                      /\ reliableReceive'[f] = reliableReceive[f]
  BY <1>1, <1>4, <1>5, <1>7, <1>8 DEF TypeOK
<1>10. /\ Seen(e) <= Seen(e)'
       /\ \A f \in Endpoint : f # e => Seen(f)' = Seen(f)
  BY <1>7, <1>9 DEF Seen
<1>11. Grew
  <2>1. \A f \in Endpoint : accepted[f] \in Seq(Message)
    BY <1>1 DEF TypeOK
  <2>2. \A f \in Endpoint : Extends(accepted[f], accepted'[f])
    BY <2>1 DEF Extends
  <2>3. \A f \in Endpoint : Seen(f) <= Seen(f)'
    BY <1>3, <1>10
  <2> QED BY <2>2, <2>3 DEF Grew
<1>12. ASSUME NEW f \in Endpoint PROVE SendQueue(f)' /\ ReceiveQueue(f)'
  <2>1. CASE f = e
    <3>1. SendQueue(e)'
      BY <1>2, <1>4, <1>9, <1>10 DEF SendQueue
    <3>2. ReceiveQueue(e)'
      <4>1. ReceiveQueue(e)
        BY <1>1
      <4> QED BY <1>7, <1>9, <4>1 DEF ReceiveQueue
    <3> QED BY <2>1, <3>1, <3>2
  <2>2. CASE f # e
    <3>1. Peer(f) = e /\ SendQueue(f) /\ ReceiveQueue(f)
      BY <1>1, <2>2 DEF Peer, Endpoint
    <3>2. SendQueue(f)'
      <4>1. reliableSend[f].first \in Nat /\ Seen(e) \in Nat
        BY <1>1, <1>3 DEF TypeOK, Fifo
      <4>2. Seen(e)' \in Nat
        <5>1. Seen(e)' = LastOf(t)
          BY <1>9 DEF Seen
        <5> QED BY <1>7, <5>1 DEF LastOf, Fifo
      <4>3. reliableSend[f].first <= Seen(e)' + 1
        <5>1. reliableSend[f].first <= Seen(e) + 1
          BY <3>1 DEF SendQueue
        <5> QED BY <1>10, <4>1, <4>2, <5>1
      <4> QED BY <1>9, <2>2, <3>1, <4>3 DEF SendQueue
    <3>3. ReceiveQueue(f)'
      BY <1>9, <2>2, <3>1 DEF ReceiveQueue
    <3> QED BY <3>2, <3>3
  <2> QED BY <2>1, <2>2
<1> QED BY <1>9, <1>11, <1>12


\* What puts a whole genuine message in the buffer hands it up.
LEMMA CompleteStep ==
  ASSUME IInv, NEW e \in Endpoint, NEW p \in net, p.to = e, Newer(e, p),
         NEW len \in Nat, len = p.body.wire,
         fragmentSequence' \in [Endpoint -> Nat],
         \A f \in Endpoint : f # e => fragmentSequence'[f] = fragmentSequence[f],
         len < FRAGMENT_SIZE \/ fragmentSequence'[e] = p.seq,
         Complete(e, p, p.body, len), UNCHANGED net
  PROVE  IInv'
<1>1. TypeOK /\ \A f \in Endpoint :
        Sending(f) /\ Buffered(f) /\ SendQueue(f) /\ ReceiveQueue(f) /\ Handed(f)
  BY DEF IInv
<1>2. p.body \in Body /\ p.seq \in Nat
  BY <1>1 DEF TypeOK, Packet
<1>3. /\ p.seq = p.body.data
      /\ Truthful(accepted[Peer(e)], Seen(Peer(e)), p.body)
  BY DEF IInv, Genuine
<1>4. p.body # Torn /\ p.seq > 0
  <2>1. p.body.data > 0
    BY <1>3 DEF Truthful
  <2>2. Torn.data = -1
    BY DEF Torn, NoBody
  <2> QED BY <1>3, <2>1, <2>2
<1>5. /\ incomingSequence' = [incomingSequence EXCEPT ![e] = p.seq]
      /\ fragmentBuffer' = [fragmentBuffer EXCEPT ![e] = p.body]
      /\ fragmentLength' = [fragmentLength EXCEPT ![e] = len]
      /\ ReadMessageData(e, p.body)
      /\ handed' = [handed EXCEPT ![e] = Append(@, p.body.data)]
      /\ UNCHANGED <<sendVars, accepted, delivered>>
  BY <1>4 DEF Complete
<1>6. /\ reliableSend' \in [Endpoint -> Fifo]
      /\ reliableReceive' \in [Endpoint -> Fifo]
      /\ Grew
      /\ \A f \in Endpoint : SendQueue(f)' /\ ReceiveQueue(f)'
  BY <1>2, <1>3, <1>5, ReadStep
<1>7. /\ incomingSequence' \in [Endpoint -> Nat] /\ incomingSequence'[e] = p.seq
      /\ fragmentBuffer' \in [Endpoint -> Body] /\ fragmentBuffer'[e] = p.body
      /\ fragmentLength' \in [Endpoint -> Nat] /\ fragmentLength'[e] = len
      /\ handed' \in [Endpoint -> Seq(Int)]
      /\ handed'[e] = Append(handed[e], p.seq)
      /\ \A f \in Endpoint : f # e => /\ incomingSequence'[f] = incomingSequence[f]
                                      /\ fragmentBuffer'[f] = fragmentBuffer[f]
                                      /\ fragmentLength'[f] = fragmentLength[f]
                                      /\ handed'[f] = handed[f]
  <2>1. /\ incomingSequence \in [Endpoint -> Nat]
        /\ fragmentBuffer \in [Endpoint -> Body]
        /\ fragmentLength \in [Endpoint -> Nat]
        /\ handed \in [Endpoint -> Seq(Int)]
    BY <1>1 DEF TypeOK
  <2>2. /\ incomingSequence' \in [Endpoint -> Nat] /\ incomingSequence'[e] = p.seq
        /\ \A f \in Endpoint : f # e => incomingSequence'[f] = incomingSequence[f]
    BY <1>2, <1>5, <2>1
  <2>3. /\ fragmentBuffer' \in [Endpoint -> Body] /\ fragmentBuffer'[e] = p.body
        /\ fragmentLength' \in [Endpoint -> Nat] /\ fragmentLength'[e] = len
        /\ \A f \in Endpoint : f # e => /\ fragmentBuffer'[f] = fragmentBuffer[f]
                                        /\ fragmentLength'[f] = fragmentLength[f]
    BY <1>2, <1>5, <2>1
  <2>4. Append(handed[e], p.seq) \in Seq(Int)
    BY <1>2, <2>1
  <2>5. /\ handed' \in [Endpoint -> Seq(Int)]
        /\ handed'[e] = Append(handed[e], p.seq)
        /\ \A f \in Endpoint : f # e => handed'[f] = handed[f]
    BY <1>3, <1>5, <2>1, <2>4
  <2> QED BY <2>2, <2>3, <2>5
<1>8. TypeOK'
  BY <1>1, <1>5, <1>6, <1>7 DEF TypeOK, sendVars
<1>9. OneBody' /\ (\A x \in net' : Genuine(x)') /\ \A f \in Endpoint : Sending(f)'
  BY <1>5, <1>6, <1>8, KeepsPackets
<1>10. ASSUME NEW f \in Endpoint PROVE Buffered(f)' /\ Handed(f)'
  <2>1. CASE f = e
    <3>1. Buffered(e)'
      <4>1. CASE len < FRAGMENT_SIZE
        BY SMTT(30), <1>7, <4>1, MsgChannelAssumption DEF Buffered
      <4>2. CASE fragmentSequence'[e] = p.seq
        BY <1>7, <4>2 DEF Buffered
      <4> QED BY <4>1, <4>2
    <3>2. Handed(e)'
      <4> DEFINE h == handed[e]
                 g == handed'[e]
      <4>1. /\ h \in Seq(Int) /\ incomingSequence[e] \in Nat
            /\ p.seq > incomingSequence[e]
        BY <1>1 DEF TypeOK, Newer
      <4>2. /\ \A i \in 1 .. Len(h) : h[i] > 0 /\ h[i] <= incomingSequence[e]
            /\ \A i, j \in 1 .. Len(h) : i < j => h[i] < h[j]
        <5>1. DOMAIN h = 1 .. Len(h)
          BY <4>1
        <5> QED BY <1>1, <5>1 DEF Handed
      <4>3. /\ g = Append(h, p.seq) /\ DOMAIN g = 1 .. Len(h) + 1
            /\ g[Len(h) + 1] = p.seq
            /\ \A i \in 1 .. Len(h) : g[i] = h[i] /\ h[i] \in Int
        <5>1. p.seq \in Int /\ g = Append(h, p.seq)
          BY <1>2, <1>7
        <5> HIDE DEF h, g
        <5>2. /\ Len(g) = Len(h) + 1 /\ g \in Seq(Int)
              /\ \A i \in 1 .. Len(h) : g[i] = h[i]
              /\ g[Len(h) + 1] = p.seq
          BY <4>1, <5>1, AppendProperties
        <5>3. \A i \in 1 .. Len(h) : h[i] \in Int
          BY <4>1
        <5>4. DOMAIN g = 1 .. Len(h) + 1
          BY <5>2
        <5> QED BY <5>1, <5>2, <5>3, <5>4
      <4>4. Len(h) \in Nat
        BY <4>1
      <4> HIDE DEF h, g
      <4>5. \A i \in DOMAIN g : i \in 1 .. Len(h) \/ i = Len(h) + 1
        BY <4>3, <4>4
      <4>6. \A i \in DOMAIN g : g[i] > 0 /\ g[i] <= p.seq
        BY <1>2, <1>4, <4>1, <4>2, <4>3, <4>5
      <4>7. \A i, j \in DOMAIN g : i < j => g[i] < g[j]
        <5> SUFFICES ASSUME NEW i \in DOMAIN g, NEW j \in DOMAIN g, i < j
                     PROVE  g[i] < g[j]
          OBVIOUS
        <5>1. i \in 1 .. Len(h)
          BY <4>3, <4>4
        <5>2. CASE j \in 1 .. Len(h)
          BY <4>2, <4>3, <5>1, <5>2
        <5>3. CASE j = Len(h) + 1
          <6>1. g[j] = p.seq /\ g[i] = h[i] /\ h[i] \in Int /\ h[i] <= incomingSequence[e]
            BY <4>2, <4>3, <5>1, <5>3
          <6> QED BY <1>2, <4>1, <6>1
        <5> QED BY <4>5, <5>2, <5>3
      <4> QED BY <1>7, <4>6, <4>7 DEF Handed, g
    <3> QED BY <2>1, <3>1, <3>2
  <2>2. CASE f # e
    <3>1. Buffered(f)'
      <4>1. /\ fragmentBuffer'[f] = fragmentBuffer[f]
            /\ fragmentLength'[f] = fragmentLength[f]
            /\ fragmentSequence'[f] = fragmentSequence[f]
            /\ net' = net
        BY <1>7, <2>2
      <4>2. Buffered(f)
        BY <1>1
      <4> QED BY <4>1, <4>2 DEF Buffered
    <3>2. handed'[f] = handed[f] /\ incomingSequence'[f] = incomingSequence[f]
      BY <1>7, <2>2
    <3>3. Handed(f)'
      BY <1>1, <3>2 DEF Handed
    <3> QED BY <3>1, <3>3
  <2> QED BY <2>1, <2>2
<1> QED BY <1>6, <1>8, <1>9, <1>10 DEF IInv

\* A fragment that continues what is in the buffer makes it longer, and the
\* bytes before it are the ones of the same message.
LEMMA ContinuesFacts ==
  ASSUME IInv, NEW e \in Endpoint, NEW p \in net, p.to = e, Continues(e, p)
  PROVE  /\ Filled(e, p, Gathered(e, p)) = p.body
         /\ p.len # FRAGMENT_SIZE => Gathered(e, p) + p.len = p.body.wire
         /\ Gathered(e, p) \in Nat
<1>1. TypeOK /\ Buffered(e) /\ OneBody /\ WellCut(p)
  BY DEF IInv, Genuine
<1>2. p.start \in Nat /\ p.start = Gathered(e, p) /\ p.fragmented
  BY <1>1 DEF TypeOK, Packet, Continues
<1>3. p.start = 0 \/ fragmentBuffer[e] = p.body
  <2>1. CASE p.start >= FRAGMENT_SIZE
    <3>1. p.seq = fragmentSequence[e] /\ fragmentLength[e] >= FRAGMENT_SIZE
      BY <1>2, <2>1, MsgChannelAssumption DEF Gathered
    <3>2. PICK q \in net : /\ q.to = e
                           /\ q.seq = fragmentSequence[e]
                           /\ q.body = fragmentBuffer[e]
      BY <1>1, <3>1 DEF Buffered
    <3> QED BY <1>1, <3>1, <3>2 DEF OneBody
  <2> QED BY <1>1, <1>2, <2>1 DEF WellCut
<1>4. Filled(e, p, Gathered(e, p)) = p.body
  BY <1>2, <1>3 DEF Filled
<1>5. p.len # FRAGMENT_SIZE => Gathered(e, p) + p.len = p.body.wire
  BY <1>1, <1>2 DEF WellCut
<1> QED BY <1>2, <1>4, <1>5

\* A fragment is kept in the buffer, or its number is noted.
LEMMA FragmentKeptStep ==
  ASSUME IInv, NEW e \in Endpoint, NEW p \in net, p.to = e,
         NEW buf \in Body, NEW len \in Nat,
         \/ buf = p.body
         \/ len = 0
         \/ buf = fragmentBuffer[e] /\ len = fragmentLength[e]
              /\ p.seq = fragmentSequence[e],
         fragmentSequence' = [fragmentSequence EXCEPT ![e] = p.seq],
         fragmentLength' = [fragmentLength EXCEPT ![e] = len],
         fragmentBuffer' = [fragmentBuffer EXCEPT ![e] = buf],
         UNCHANGED <<sendVars, incomingSequence, reliableSend, reliableReceive,
                     accepted, delivered, handed, net>>
  PROVE  IInv'
<1>1. TypeOK /\ \A f \in Endpoint :
        Sending(f) /\ Buffered(f) /\ SendQueue(f) /\ ReceiveQueue(f) /\ Handed(f)
  BY DEF IInv
<1>2. p.seq \in Nat
  BY <1>1 DEF TypeOK, Packet
<1>3. /\ fragmentSequence' \in [Endpoint -> Nat] /\ fragmentSequence'[e] = p.seq
      /\ fragmentLength' \in [Endpoint -> Nat] /\ fragmentLength'[e] = len
      /\ fragmentBuffer' \in [Endpoint -> Body] /\ fragmentBuffer'[e] = buf
      /\ \A f \in Endpoint : f # e =>
           /\ fragmentSequence'[f] = fragmentSequence[f]
           /\ fragmentLength'[f] = fragmentLength[f]
           /\ fragmentBuffer'[f] = fragmentBuffer[f]
  BY <1>1, <1>2 DEF TypeOK
<1>4. TypeOK'
  BY <1>1, <1>3 DEF TypeOK, sendVars
<1>5. Grew
  <2>1. \A f \in Endpoint : accepted[f] \in Seq(Message)
    BY <1>1 DEF TypeOK
  <2>2. \A f \in Endpoint : Extends(accepted[f], accepted'[f])
    BY <2>1 DEF Extends
  <2>3. \A f \in Endpoint : Seen(f) <= Seen(f)'
    BY <1>1, SeenType DEF Seen
  <2> QED BY <2>2, <2>3 DEF Grew
<1>6. OneBody' /\ (\A x \in net' : Genuine(x)') /\ \A f \in Endpoint : Sending(f)'
  BY <1>4, <1>5, KeepsPackets
<1>7. ASSUME NEW f \in Endpoint
      PROVE  Buffered(f)' /\ SendQueue(f)' /\ ReceiveQueue(f)' /\ Handed(f)'
  <2>1. SendQueue(f)' /\ ReceiveQueue(f)' /\ Handed(f)'
    BY <1>1 DEF SendQueue, Seen, ReceiveQueue, Handed
  <2>2. Buffered(f)'
    <3>1. CASE f # e
      BY <1>1, <1>3, <3>1 DEF Buffered
    <3>2. CASE f = e /\ buf = p.body
      BY <1>3, <3>2 DEF Buffered
    <3>3. CASE f = e /\ len = 0
      BY <1>3, <3>3, MsgChannelAssumption DEF Buffered
    <3>4. CASE f = e /\ buf = fragmentBuffer[e] /\ len = fragmentLength[e]
                 /\ p.seq = fragmentSequence[e]
      BY <1>1, <1>3, <3>4 DEF Buffered
    <3> QED BY <3>1, <3>2, <3>3, <3>4
  <2> QED BY <2>1, <2>2
<1> QED BY <1>4, <1>6, <1>7 DEF IInv


LEMMA ProcessStep ==
  ASSUME IInv, NEW e \in Endpoint, NEW p \in net, p.to = e, Process(e, p),
         UNCHANGED net
  PROVE  IInv'
<1>1. TypeOK /\ WellCut(p)
  BY DEF IInv, Genuine
<1>2. p.seq \in Nat /\ p.len \in Nat /\ p.body \in Body
  BY <1>1 DEF TypeOK, Packet
<1>3. CASE ProcessStale(e, p)
  <2>1. UNCHANGED vars
    BY <1>3 DEF ProcessStale, vars
  <2>2. /\ TypeOK' /\ OneBody'
    BY <1>1, <2>1 DEF TypeOK, IInv, OneBody, vars, sendVars, recvVars
  <2>3. Grew
    <3>1. \A f \in Endpoint : accepted[f] \in Seq(Message)
      BY <1>1 DEF TypeOK
    <3>2. \A f \in Endpoint : Extends(accepted[f], accepted'[f])
      BY <2>1, <3>1 DEF Extends, vars
    <3>3. \A f \in Endpoint : Seen(f) <= Seen(f)'
      BY <1>1, <2>1, SeenType DEF Seen, vars
    <3> QED BY <3>2, <3>3 DEF Grew
  <2>4. (\A x \in net' : Genuine(x)') /\ \A f \in Endpoint : Sending(f)'
    BY <2>1, <2>2, <2>3, KeepsPackets DEF vars
  <2>5. \A f \in Endpoint :
          Buffered(f)' /\ SendQueue(f)' /\ ReceiveQueue(f)' /\ Handed(f)'
    BY <2>1, KeepsReceivers DEF vars
  <2> QED BY <2>2, <2>4, <2>5 DEF IInv
<1>4. CASE ProcessMissed(e, p)
  <2> DEFINE len == Gathered(e, p)
             buf == fragmentBuffer[e]
  <2>1. fragmentBuffer' = [fragmentBuffer EXCEPT ![e] = buf]
    BY <1>1, <1>4 DEF ProcessMissed, TypeOK
  <2>2. buf \in Body /\ fragmentLength[e] \in Nat
    BY <1>1 DEF TypeOK
  <2>3. len \in Nat
    BY <2>2 DEF Gathered
  <2>4. len = 0 \/ (len = fragmentLength[e] /\ p.seq = fragmentSequence[e])
    BY DEF Gathered
  <2>5. /\ fragmentSequence' = [fragmentSequence EXCEPT ![e] = p.seq]
        /\ fragmentLength' = [fragmentLength EXCEPT ![e] = len]
        /\ UNCHANGED <<sendVars, incomingSequence, reliableSend,
                       reliableReceive, accepted, delivered, handed, net>>
    BY <1>4 DEF ProcessMissed
  <2> HIDE DEF len
  <2> QED BY <2>1, <2>2, <2>3, <2>4, <2>5, FragmentKeptStep
<1>5. CASE ProcessFragment(e, p)
  <2>1. Filled(e, p, Gathered(e, p)) = p.body /\ Gathered(e, p) \in Nat
    BY <1>5, ContinuesFacts DEF ProcessFragment
  <2>2. /\ fragmentSequence' = [fragmentSequence EXCEPT ![e] = p.seq]
        /\ fragmentLength' = [fragmentLength EXCEPT ![e] = Gathered(e, p) + p.len]
        /\ fragmentBuffer' = [fragmentBuffer EXCEPT ![e] = p.body]
        /\ UNCHANGED <<sendVars, incomingSequence, reliableSend,
                       reliableReceive, accepted, delivered, handed, net>>
    BY <1>5, <2>1 DEF ProcessFragment
  <2>3. Gathered(e, p) + p.len \in Nat
    BY <1>2, <2>1
  <2> QED BY <1>2, <2>2, <2>3, FragmentKeptStep
<1>6. CASE ProcessLastFragment(e, p)
  <2> DEFINE len == Gathered(e, p) + p.len
  <2>1. /\ Filled(e, p, Gathered(e, p)) = p.body
        /\ len = p.body.wire
        /\ len \in Nat
    BY <1>2, <1>6, ContinuesFacts DEF ProcessLastFragment
  <2>2. /\ Newer(e, p)
        /\ fragmentSequence' = [fragmentSequence EXCEPT ![e] = p.seq]
        /\ Complete(e, p, p.body, len)
    BY <1>6, <2>1 DEF ProcessLastFragment, Continues
  <2>3. /\ fragmentSequence' \in [Endpoint -> Nat]
        /\ fragmentSequence'[e] = p.seq
        /\ \A f \in Endpoint : f # e =>
             fragmentSequence'[f] = fragmentSequence[f]
    BY <1>1, <1>2, <2>2 DEF TypeOK
  <2> HIDE DEF len
  <2> QED BY <2>1, <2>2, <2>3, CompleteStep
<1>7. CASE ProcessWhole(e, p)
  <2>1. p.len = p.body.wire /\ p.len < FRAGMENT_SIZE
    BY <1>1, <1>7 DEF ProcessWhole, WellCut
  <2>2. /\ Newer(e, p)
        /\ fragmentSequence' = fragmentSequence
        /\ Complete(e, p, p.body, p.len)
    BY <1>7 DEF ProcessWhole
  <2>3. fragmentSequence' \in [Endpoint -> Nat]
    BY <1>1, <2>2 DEF TypeOK
  <2> QED BY <1>2, <2>1, <2>2, <2>3, CompleteStep
<1> QED BY <1>3, <1>4, <1>5, <1>6, <1>7 DEF Process

-----------------------------------------------------------------------------
(* The invariant, and what follows from it. *)

LEMMA InitIInv == Init => IInv
<1> SUFFICES ASSUME Init PROVE IInv
  OBVIOUS
<1>1. NoBody \in Body
  BY DEF NoBody, Body
<1>2. \A n \in Nat : EmptyFifo(n) \in Fifo /\ LastOf(EmptyFifo(n)) = n
  BY DEF EmptyFifo, Fifo, LastOf
<1>3. TypeOK
  <2>1. /\ reliableSend \in [Endpoint -> Fifo]
        /\ reliableReceive \in [Endpoint -> Fifo]
    BY <1>2 DEF Init
  <2> QED BY <1>1, <2>1 DEF Init, TypeOK
<1>4. OneBody /\ \A p \in net : Genuine(p)
  BY DEF Init, OneBody
<1>5. ASSUME NEW e \in Endpoint
      PROVE  Sending(e) /\ Buffered(e) /\ SendQueue(e) /\ ReceiveQueue(e) /\ Handed(e)
  <2>1. Sending(e) /\ Buffered(e) /\ Handed(e)
    BY MsgChannelAssumption DEF Init, Sending, Buffered, Handed
  <2>2. \A f \in Endpoint : Seen(f) = 0
    BY <1>2 DEF Init, Seen
  <2>3. Copies(<<>>, 1, <<>>)
    BY DEF Copies
  <2>4. SendQueue(e)
    <3>1. /\ reliableSend[e] = EmptyFifo(1) /\ accepted[e] = <<>>
          /\ EmptyFifo(1).first = 1 /\ EmptyFifo(1).msgs = <<>>
      BY DEF Init, EmptyFifo
    <3>2. Seen(Peer(e)) = 0
      BY <2>2, PeerFacts
    <3> QED BY <1>2, <2>3, <3>1, <3>2 DEF SendQueue
  <2>5. ReceiveQueue(e)
    <3>1. /\ reliableReceive[e] = EmptyFifo(0) /\ delivered[e] = <<>>
          /\ accepted[Peer(e)] = <<>>
          /\ EmptyFifo(0).first = 0 /\ EmptyFifo(0).msgs = <<>>
      BY PeerFacts DEF Init, EmptyFifo
    <3> QED BY <2>3, <3>1 DEF ReceiveQueue
  <2> QED BY <2>1, <2>4, <2>5
<1> QED BY <1>3, <1>4, <1>5 DEF IInv

LEMMA NextIInv ==
  ASSUME NoExpansion, IInv, [Next]_vars
  PROVE  IInv'
<1>1. CASE UNCHANGED vars
  <2>1. TypeOK' /\ OneBody'
    BY <1>1 DEF TypeOK, IInv, OneBody, vars, sendVars, recvVars
  <2>2. Grew
    <3>1. \A f \in Endpoint : accepted[f] \in Seq(Message)
      BY DEF TypeOK, IInv
    <3>2. \A f \in Endpoint : Extends(accepted[f], accepted'[f])
      BY <1>1, <3>1 DEF Extends, vars
    <3>3. \A f \in Endpoint : Seen(f) <= Seen(f)'
      BY <1>1, SeenType DEF Seen, vars, IInv
    <3> QED BY <3>2, <3>3 DEF Grew
  <2>3. (\A x \in net' : Genuine(x)') /\ \A f \in Endpoint : Sending(f)'
    BY <1>1, <2>1, <2>2, KeepsPackets DEF vars
  <2>4. \A f \in Endpoint :
          Buffered(f)' /\ SendQueue(f)' /\ ReceiveQueue(f)' /\ Handed(f)'
    BY <1>1, KeepsReceivers DEF vars
  <2> QED BY <2>1, <2>3, <2>4 DEF IInv
<1>2. ASSUME NEW e \in Endpoint, NEW m \in Message, SendReliableMessage(e, m)
      PROVE  IInv'
  BY <1>2, SendReliableMessageStep
<1>3. ASSUME NEW e \in Endpoint, Send(e) PROVE IInv'
  <2>1. PICK size \in DataSize : SendMessage(e, size)
    BY <1>3 DEF Send
  <2>2. PICK total \in 0 .. MAX_MESSAGE_SIZE :
          \E wire \in Wire[total] :
            SendFragmented(e, total, wire) \/ SendWhole(e, total, wire)
    BY <2>1 DEF SendMessage
  <2> QED BY <2>2, SendFragmentedStep, SendWholeStep
<1>4. ASSUME NEW e \in Endpoint, SendNextFragment(e) PROVE IInv'
  BY <1>4, SendNextFragmentStep
<1>5. ASSUME NEW e \in Endpoint, Receive(e) PROVE IInv'
  BY <1>5, ProcessStep DEF Receive
<1>6. ASSUME NEW e \in Endpoint, GetReliableMessage(e) PROVE IInv'
  BY <1>6, GetReliableMessageStep
<1> QED BY <1>1, <1>2, <1>3, <1>4, <1>5, <1>6 DEF Next


LEMMA Invariant ==
  ASSUME NoExpansion
  PROVE  Spec => []IInv
<1>1. IInv /\ [Next]_vars => IInv'
  BY NextIInv
<1> QED BY InitIInv, <1>1, PTL DEF Spec

-----------------------------------------------------------------------------
(* The types.  They need no bound on what compression does: only that a      *)
(* fragment never starts behind the end of its message.                      *)

Cutting(e) == unsentFragments[e] => unsentFragmentStart[e] <= unsentMsg[e].wire

TypeInv == TypeOK /\ \A e \in Endpoint : Cutting(e)

LEMMA InitTypes == Init => TypeInv
<1>1. IInv => TypeOK
  BY DEF IInv
<1> QED BY InitIInv, <1>1 DEF TypeInv, Cutting, Init

\* A message as it is written, whatever its length.
LEMMA WrittenTyped ==
  ASSUME TypeOK, NEW e \in Endpoint, NEW wire \in Nat
  PROVE  /\ WriteMessageData(e, wire) \in Body
         /\ WriteMessageData(e, wire).wire = wire
<1>1. /\ outgoingSequence[e] \in Nat \ {0}
      /\ reliableSend[e] \in Fifo
      /\ LastOf(reliableReceive[e]) \in Nat
  BY SeenType DEF TypeOK, Seen
<1> QED BY <1>1 DEF WriteMessageData, Body, Fifo

LEMMA PacketTyped ==
  ASSUME TypeOK, NEW e \in Endpoint, NEW fragmented \in BOOLEAN,
         NEW start \in Nat, NEW len \in Nat, NEW body \in Body
  PROVE  PacketOf(e, fragmented, start, len, body) \in Packet
<1>1. outgoingSequence[e] \in Nat /\ Peer(e) \in Endpoint
  BY PeerFacts DEF TypeOK
<1> QED BY <1>1 DEF PacketOf, Packet

\* A fragment that starts inside its message ends inside it.
LEMMA TransmitTyped ==
  ASSUME TypeInv, NEW e \in Endpoint, NEW body \in Body, NEW start \in Nat,
         start <= body.wire,
         unsentMsg' = [unsentMsg EXCEPT ![e] = body],
         TransmitFragment(e, body, start),
         UNCHANGED <<recvVars, reliableSend, reliableReceive, accepted,
                     delivered, handed>>
  PROVE  TypeInv'
<1> DEFINE len == IF start + FRAGMENT_SIZE > body.wire THEN body.wire - start
                                                       ELSE FRAGMENT_SIZE
           done == LastSent(body, start, len)
           p == PacketOf(e, TRUE, start, len, body)
<1>1. TypeOK /\ \A f \in Endpoint : Cutting(f)
  BY DEF TypeInv
<1>2. body.wire \in Nat /\ FRAGMENT_SIZE \in Nat \ {0}
  BY MsgChannelAssumption DEF Body
<1>3. len \in Nat /\ start + len \in Nat /\ start + len <= body.wire
  BY <1>2
<1>4. done \in BOOLEAN
  BY DEF LastSent
<1>5. /\ net' = net \cup {p}
      /\ unsentFragmentStart' = [unsentFragmentStart EXCEPT ![e] = start + len]
      /\ unsentFragments' = [unsentFragments EXCEPT ![e] = ~done]
      /\ outgoingSequence' =
           [outgoingSequence EXCEPT ![e] = IF done THEN @ + 1 ELSE @]
  BY DEF TransmitFragment
<1> HIDE DEF len, done
<1>6. p \in Packet
  BY <1>1, <1>3, PacketTyped
<1> HIDE DEF p
<1>7. /\ outgoingSequence' \in [Endpoint -> Nat \ {0}]
      /\ unsentFragments' \in [Endpoint -> BOOLEAN]
      /\ unsentFragmentStart' \in [Endpoint -> Nat]
      /\ unsentMsg' \in [Endpoint -> Body]
      /\ net' \subseteq Packet
  <2>1. outgoingSequence' \in [Endpoint -> Nat \ {0}]
    BY <1>1, <1>5 DEF TypeOK
  <2>2. unsentFragments' \in [Endpoint -> BOOLEAN]
    BY <1>1, <1>4, <1>5 DEF TypeOK
  <2>3. unsentFragmentStart' \in [Endpoint -> Nat]
    BY <1>1, <1>3, <1>5 DEF TypeOK
  <2>4. unsentMsg' \in [Endpoint -> Body]
    BY <1>1 DEF TypeOK
  <2>5. net' \subseteq Packet
    BY <1>1, <1>5, <1>6 DEF TypeOK
  <2> QED BY <2>1, <2>2, <2>3, <2>4, <2>5
<1>8. TypeOK'
  BY <1>1, <1>7 DEF TypeOK, recvVars
<1>9. ASSUME NEW f \in Endpoint PROVE Cutting(f)'
  <2>1. CASE f = e
    <3>1. unsentFragmentStart'[e] = start + len /\ unsentMsg'[e] = body
      BY <1>1, <1>5 DEF TypeOK
    <3> QED BY <1>3, <2>1, <3>1 DEF Cutting
  <2>2. CASE f # e
    <3>1. /\ unsentFragmentStart'[f] = unsentFragmentStart[f]
          /\ unsentMsg'[f] = unsentMsg[f]
          /\ unsentFragments'[f] = unsentFragments[f]
      BY <1>1, <1>5, <2>2 DEF TypeOK
    <3> QED BY <1>1, <3>1 DEF Cutting
  <2> QED BY <2>1, <2>2
<1> QED BY <1>8, <1>9 DEF TypeInv

LEMMA SendTyped ==
  ASSUME TypeInv, NEW e \in Endpoint,
         NEW total \in 0 .. MAX_MESSAGE_SIZE, NEW wire \in Wire[total],
         SendFragmented(e, total, wire) \/ SendWhole(e, total, wire)
  PROVE  TypeInv'
<1> DEFINE body == WriteMessageData(e, wire)
<1>1. wire \in Nat
  BY MsgChannelAssumption
<1>2. TypeOK /\ \A f \in Endpoint : Cutting(f)
  BY DEF TypeInv
<1>3. body \in Body /\ body.wire = wire
  BY <1>1, <1>2, WrittenTyped
<1>4. CASE SendFragmented(e, total, wire)
  <2>1. /\ unsentMsg' = [unsentMsg EXCEPT ![e] = body]
        /\ TransmitFragment(e, body, 0)
        /\ UNCHANGED <<recvVars, reliableSend, reliableReceive, accepted,
                       delivered, handed>>
    BY <1>4 DEF SendFragmented
  <2> HIDE DEF body
  <2>2. 0 <= body.wire
    BY <1>1, <1>3
  <2> QED BY <1>3, <2>1, <2>2, TransmitTyped
<1>5. CASE SendWhole(e, total, wire)
  <2> DEFINE p == PacketOf(e, FALSE, 0, wire, body)
  <2>1. /\ ~unsentFragments[e]
        /\ unsentMsg' = [unsentMsg EXCEPT ![e] = body]
        /\ net' = net \cup {p}
        /\ outgoingSequence' = [outgoingSequence EXCEPT ![e] = @ + 1]
        /\ UNCHANGED <<unsentFragments, unsentFragmentStart, recvVars,
                       reliableSend, reliableReceive, accepted, delivered, handed>>
    BY <1>5 DEF SendWhole, MaySend
  <2> HIDE DEF body
  <2>2. p \in Packet
    BY <1>1, <1>2, <1>3, PacketTyped
  <2> HIDE DEF p
  <2>3. /\ outgoingSequence' \in [Endpoint -> Nat \ {0}]
        /\ unsentMsg' \in [Endpoint -> Body]
        /\ net' \subseteq Packet
    BY <1>2, <1>3, <2>1, <2>2 DEF TypeOK
  <2>4. TypeOK'
    BY <1>2, <2>1, <2>3 DEF TypeOK, recvVars
  <2>5. ASSUME NEW f \in Endpoint PROVE Cutting(f)'
    <3>1. CASE f = e
      BY <2>1, <3>1 DEF Cutting
    <3>2. CASE f # e
      <4>1. unsentMsg'[f] = unsentMsg[f]
        BY <1>2, <2>1, <3>2 DEF TypeOK
      <4> QED BY <1>2, <2>1, <4>1 DEF Cutting
    <3> QED BY <3>1, <3>2
  <2> QED BY <2>4, <2>5 DEF TypeInv
<1> QED BY <1>4, <1>5

\* What ReadMessageData leaves in the two queues.
LEMMA ReadTyped ==
  ASSUME TypeOK, NEW e \in Endpoint, NEW b \in Body, ReadMessageData(e, b)
  PROVE  /\ reliableSend' \in [Endpoint -> Fifo]
         /\ reliableReceive' \in [Endpoint -> Fifo]
<1>1. reliableSend[e] \in Fifo /\ reliableReceive[e] \in Fifo /\ b.ack \in Nat
  BY DEF TypeOK, Body
<1>2. Without(reliableSend[e], Acknowledged(reliableSend[e], b.ack)) \in Fifo
  BY <1>1, AcknowledgedFacts, WithoutFacts
<1>3. PICK ms : ms = Fresh(e, b)
  OBVIOUS
<1>4. ms \in Seq(Message)
  <2>1. b.msgs \in Seq(Message)
    BY DEF Body
  <2>2. PICK seen : seen = LastOf(reliableReceive[e]) + 1 - b.first
    OBVIOUS
  <2>3. CASE seen \in 0 .. Len(b.msgs)
    <3>1. ms = SubSeq(b.msgs, seen + 1, Len(b.msgs))
      BY <1>3, <2>2, <2>3 DEF Fresh
    <3>2. \A i \in seen + 1 .. Len(b.msgs) : b.msgs[i] \in Message
      BY <2>1, <2>3
    <3>3. seen + 1 \in Int /\ Len(b.msgs) \in Int
      BY <2>1, <2>3
    <3> QED BY <3>1, <3>2, <3>3, SubSeqProperties
  <2>4. CASE seen \notin 0 .. Len(b.msgs)
    BY <1>3, <2>2, <2>4 DEF Fresh
  <2> QED BY <2>3, <2>4
<1>5. PICK n \in 0 .. Len(ms) :
        reliableReceive' = [reliableReceive EXCEPT ![e] = Extend(@, SubSeq(ms, 1, n))]
  BY <1>3 DEF ReadMessageData
<1>6. SubSeq(ms, 1, n) \in Seq(Message)
  <2>1. \A i \in 1 .. n : ms[i] \in Message
    BY <1>4, <1>5
  <2>2. 1 \in Int /\ n \in Int
    BY <1>4, <1>5
  <2> QED BY <2>1, <2>2, SubSeqProperties
<1>7. Extend(reliableReceive[e], SubSeq(ms, 1, n)) \in Fifo
  BY <1>1, <1>6, ExtendFacts
<1>8. reliableReceive' \in [Endpoint -> Fifo]
  BY <1>5, <1>7 DEF TypeOK
<1>9. reliableSend' \in [Endpoint -> Fifo]
  BY <1>2 DEF ReadMessageData, TypeOK
<1> QED BY <1>8, <1>9

LEMMA CompleteTyped ==
  ASSUME TypeOK, NEW e \in Endpoint, NEW p \in Packet, NEW buf \in Body,
         NEW len \in Nat, Complete(e, p, buf, len), UNCHANGED net,
         fragmentSequence' \in [Endpoint -> Nat]
  PROVE  TypeOK'
<1>1. p.seq \in Nat /\ buf.data \in Int /\ Torn.data \in Int
  BY DEF Packet, Body, Torn, NoBody
<1>2. /\ incomingSequence' \in [Endpoint -> Nat]
      /\ fragmentBuffer' \in [Endpoint -> Body]
      /\ fragmentLength' \in [Endpoint -> Nat]
  BY <1>1 DEF Complete, TypeOK
<1>3. \A d \in Int : [handed EXCEPT ![e] = Append(@, d)] \in [Endpoint -> Seq(Int)]
  <2> TAKE d \in Int
  <2>1. handed[e] \in Seq(Int)
    BY DEF TypeOK
  <2>2. Append(handed[e], d) \in Seq(Int)
    BY <2>1, AppendProperties
  <2> QED BY <2>2 DEF TypeOK
<1>4. /\ handed' \in [Endpoint -> Seq(Int)]
      /\ reliableSend' \in [Endpoint -> Fifo]
      /\ reliableReceive' \in [Endpoint -> Fifo]
  <2>1. CASE buf # Torn /\ buf.wire = len
    BY <1>1, <1>3, <2>1, ReadTyped DEF Complete
  <2>2. CASE ~(buf # Torn /\ buf.wire = len)
    <3>1. /\ handed' = [handed EXCEPT ![e] = Append(@, Torn.data)]
          /\ UNCHANGED <<reliableSend, reliableReceive>>
      BY <2>2 DEF Complete
    <3> QED BY <1>1, <1>3, <3>1 DEF TypeOK
  <2> QED BY <2>1, <2>2
<1>5. UNCHANGED <<sendVars, accepted, delivered>>
  BY DEF Complete
<1> QED BY <1>2, <1>4, <1>5 DEF TypeOK, sendVars

LEMMA ProcessTyped ==
  ASSUME TypeOK, NEW e \in Endpoint, NEW p \in net, Process(e, p), UNCHANGED net
  PROVE  TypeOK' /\ UNCHANGED sendVars
<1>1. /\ p \in Packet /\ p.seq \in Nat /\ p.len \in Nat /\ p.body \in Body
      /\ Gathered(e, p) \in Nat
  BY DEF TypeOK, Packet, Gathered
<1>2. Filled(e, p, Gathered(e, p)) \in Body /\ Gathered(e, p) + p.len \in Nat
  <2>1. Torn = [data |-> -1, ack |-> 0, first |-> 1, msgs |-> <<>>, wire |-> 0]
    BY DEF Torn, NoBody
  <2>2. -1 \in Int /\ 0 \in Nat /\ 1 \in Nat /\ <<>> \in Seq(Message)
    OBVIOUS
  <2>3. Torn \in Body
    BY <2>1, <2>2 DEF Body
  <2> QED BY <1>1, <2>3 DEF Filled
<1>3. UNCHANGED sendVars
  BY DEF Process, ProcessStale, ProcessMissed, ProcessFragment,
         ProcessLastFragment, ProcessWhole, Complete
<1>4. CASE ProcessStale(e, p)
  BY <1>4 DEF ProcessStale, TypeOK, sendVars, recvVars
<1>5. CASE ProcessMissed(e, p)
  <2>1. /\ fragmentSequence' \in [Endpoint -> Nat]
        /\ fragmentLength' \in [Endpoint -> Nat]
    BY <1>1, <1>5 DEF ProcessMissed, TypeOK
  <2> QED BY <1>5, <2>1 DEF ProcessMissed, TypeOK, sendVars
<1>6. CASE ProcessFragment(e, p)
  <2>1. /\ fragmentSequence' \in [Endpoint -> Nat]
        /\ fragmentLength' \in [Endpoint -> Nat]
        /\ fragmentBuffer' \in [Endpoint -> Body]
    BY <1>1, <1>2, <1>6 DEF ProcessFragment, TypeOK
  <2> QED BY <1>6, <2>1 DEF ProcessFragment, TypeOK, sendVars
<1>7. CASE ProcessLastFragment(e, p)
  <2>1. fragmentSequence' \in [Endpoint -> Nat]
    BY <1>1, <1>7 DEF ProcessLastFragment, TypeOK
  <2>2. Complete(e, p, Filled(e, p, Gathered(e, p)), Gathered(e, p) + p.len)
    BY <1>7 DEF ProcessLastFragment
  <2>3. TypeOK'
    BY ONLY TypeOK, e \in Endpoint, UNCHANGED net, <1>1, <1>2, <2>1, <2>2,
            CompleteTyped
  <2> QED BY <1>3, <2>3
<1>8. CASE ProcessWhole(e, p)
  <2>1. fragmentSequence' \in [Endpoint -> Nat]
    BY <1>8 DEF ProcessWhole, TypeOK
  <2>2. Complete(e, p, p.body, p.len)
    BY <1>8 DEF ProcessWhole
  <2>3. TypeOK'
    BY ONLY TypeOK, e \in Endpoint, UNCHANGED net, <1>1, <2>1, <2>2, CompleteTyped
  <2> QED BY <1>3, <2>3
<1> QED BY <1>3, <1>4, <1>5, <1>6, <1>7, <1>8 DEF Process

LEMMA NextTypes ==
  ASSUME TypeInv, [Next]_vars
  PROVE  TypeInv'
<1>1. TypeOK /\ \A f \in Endpoint : Cutting(f)
  BY DEF TypeInv
<1>2. ASSUME TypeOK', UNCHANGED sendVars PROVE TypeInv'
  BY <1>1, <1>2 DEF TypeInv, Cutting, sendVars
<1>3. CASE UNCHANGED vars
  <2>1. TypeOK' /\ UNCHANGED sendVars
    BY <1>1, <1>3 DEF TypeOK, vars, sendVars, recvVars
  <2> QED BY <1>2, <2>1
<1>4. ASSUME NEW e \in Endpoint, NEW m \in Message, SendReliableMessage(e, m)
      PROVE  TypeInv'
  <2>1. reliableSend[e] \in Fifo /\ accepted[e] \in Seq(Message)
    BY <1>1 DEF TypeOK
  <2>2. AddTo(reliableSend[e], m) \in Fifo
    <3>1. <<m>> \in Seq(Message)
      OBVIOUS
    <3> QED BY <2>1, <3>1, ExtendFacts DEF AddTo
  <2>3. Append(accepted[e], m) \in Seq(Message)
    BY <2>1, AppendProperties
  <2>4. /\ reliableSend' \in [Endpoint -> Fifo]
        /\ accepted' \in [Endpoint -> Seq(Message)]
    BY <1>1, <1>4, <2>2, <2>3 DEF SendReliableMessage, TypeOK
  <2>5. UNCHANGED <<sendVars, recvVars, reliableReceive, net, delivered, handed>>
    BY <1>4 DEF SendReliableMessage
  <2>6. TypeOK'
    BY <1>1, <2>4, <2>5 DEF TypeOK, sendVars, recvVars
  <2> QED BY <1>2, <2>5, <2>6
<1>5. ASSUME NEW e \in Endpoint, Send(e) PROVE TypeInv'
  <2>1. PICK size \in DataSize : SendMessage(e, size)
    BY <1>5 DEF Send
  <2>2. PICK total \in 0 .. MAX_MESSAGE_SIZE :
          \E wire \in Wire[total] :
            SendFragmented(e, total, wire) \/ SendWhole(e, total, wire)
    BY <2>1 DEF SendMessage
  <2> QED BY <2>2, SendTyped
<1>6. ASSUME NEW e \in Endpoint, SendNextFragment(e) PROVE TypeInv'
  <2>1. /\ unsentMsg[e] \in Body
        /\ unsentFragmentStart[e] \in Nat
        /\ unsentFragmentStart[e] <= unsentMsg[e].wire
    BY <1>1, <1>6 DEF SendNextFragment, Cutting, TypeOK
  <2>2. /\ unsentMsg' = [unsentMsg EXCEPT ![e] = unsentMsg[e]]
        /\ TransmitFragment(e, unsentMsg[e], unsentFragmentStart[e])
        /\ UNCHANGED <<recvVars, reliableSend, reliableReceive, accepted,
                       delivered, handed>>
    BY <1>1, <1>6 DEF SendNextFragment, TypeOK
  <2> QED BY <2>1, <2>2, TransmitTyped
<1>7. ASSUME NEW e \in Endpoint, Receive(e) PROVE TypeInv'
  BY <1>1, <1>2, <1>7, ProcessTyped DEF Receive
<1>8. ASSUME NEW e \in Endpoint, GetReliableMessage(e) PROVE TypeInv'
  <2>1. /\ reliableReceive[e] \in Fifo
        /\ reliableReceive[e].msgs \in Seq(Message)
        /\ reliableReceive[e].msgs # <<>>
        /\ delivered[e] \in Seq(Message)
    BY <1>1, <1>8 DEF TypeOK, Fifo, GetReliableMessage
  <2>2. 1 \in 0 .. Len(reliableReceive[e].msgs)
        /\ Head(reliableReceive[e].msgs) \in Message
    BY <2>1
  <2>3. Without(reliableReceive[e], 1) \in Fifo
    BY <2>1, <2>2, WithoutFacts
  <2>4. Append(delivered[e], Head(reliableReceive[e].msgs)) \in Seq(Message)
    BY <2>1, <2>2, AppendProperties
  <2>5. /\ reliableReceive' \in [Endpoint -> Fifo]
        /\ delivered' \in [Endpoint -> Seq(Message)]
    BY <1>1, <1>8, <2>3, <2>4 DEF GetReliableMessage, TypeOK
  <2>6. UNCHANGED <<sendVars, recvVars, reliableSend, net, accepted, handed>>
    BY <1>8 DEF GetReliableMessage
  <2>7. TypeOK'
    BY <1>1, <2>5, <2>6 DEF TypeOK, sendVars, recvVars
  <2> QED BY <1>2, <2>6, <2>7
<1> QED BY <1>3, <1>4, <1>5, <1>6, <1>7, <1>8 DEF Next

\* Whatever the sizes and lengths of the messages, whatever compression makes
\* of them and whatever packets the network drops, repeats or reorders, the
\* variables stay in their types.
THEOREM TypeCorrect == Spec => []TypeOK
<1>1. TypeInv => TypeOK
  BY DEF TypeInv
<1>2. TypeInv /\ [Next]_vars => TypeInv'
  BY NextTypes
<1> QED BY InitTypes, <1>1, <1>2, PTL DEF Spec

-----------------------------------------------------------------------------
(* The safety properties. *)

\* No message that Process hands up is put together from parts of two, if
\* compression never lengthens an unfragmented message to a full fragment.
THEOREM MessagesIntact ==
  ASSUME NoExpansion
  PROVE  Spec => []Intact
<1>1. IInv => Intact
  BY DEF IInv, Intact, Handed
<1> QED BY Invariant, <1>1, PTL

\* Messages are handed up in the order they were sent, none of them twice.
THEOREM MessagesInOrder ==
  ASSUME NoExpansion
  PROVE  Spec => []UnreliableInOrder
<1>1. IInv => UnreliableInOrder
  BY DEF IInv, UnreliableInOrder, Handed
<1> QED BY Invariant, <1>1, PTL

\* A sender drops a reliable message only once the other end has it.
THEOREM ReliableKept ==
  ASSUME NoExpansion
  PROVE  Spec => []NoReliableLost
<1>1. IInv => NoReliableLost
  BY DEF IInv, NoReliableLost, SendQueue, Seen
<1> QED BY Invariant, <1>1, PTL

-----------------------------------------------------------------------------
(* The channel implements ReliableLink. *)

LEMMA InitLink == Init => Link!Init
BY DEF Init, Link!Init

LEMMA AcceptsOrStutters ==
  ASSUME NEW e \in Endpoint, NEW m \in Message, SendReliableMessage(e, m)
  PROVE  [Link!Next]_<<accepted, delivered>>
BY DEF SendReliableMessage, Link!Next, Link!Accept

LEMMA DeliversNext ==
  ASSUME IInv, NEW e \in Endpoint, GetReliableMessage(e)
  PROVE  Link!Next
<1> DEFINE q == reliableReceive[e]
           sent == accepted[Peer(e)]
<1>1. TypeOK /\ ReceiveQueue(e)
  BY DEF IInv
<1>2. /\ q.first \in Nat /\ q.msgs \in Seq(Message) /\ q.msgs # <<>>
      /\ sent \in Seq(Message) /\ Len(sent) \in Nat
  <2>1. q \in Fifo /\ sent \in Seq(Message)
    BY <1>1, PeerFacts DEF TypeOK
  <2> QED BY <2>1 DEF Fifo, GetReliableMessage
<1>3. Head(q.msgs) = q.msgs[1] /\ Len(q.msgs) \in Nat /\ 1 \in 1 .. Len(q.msgs)
  BY <1>2
<1>4. /\ q.first = Len(delivered[e])
      /\ q.first + 1 + Len(q.msgs) <= Len(sent) + 1
      /\ \A i \in 1 .. Len(q.msgs) : q.msgs[i] = sent[q.first + 1 + i - 1]
  BY <1>1 DEF ReceiveQueue, Copies
<1> DEFINE n == Len(delivered[e]) + 1
<1>5. n <= Len(sent)
  <2> DEFINE a == q.first
             b == Len(q.msgs)
             c == Len(sent)
  <2>1. a \in Nat /\ b \in Nat /\ b >= 1 /\ c \in Nat /\ a + 1 + b <= c + 1
    <3>1. b \in Nat /\ b >= 1
      BY <1>3
    <3> QED BY <1>2, <1>4, <3>1
  <2> HIDE DEF a, b, c
  <2>2. a + 1 <= c
    BY <2>1
  <2> QED BY <1>4, <2>2 DEF a, c
<1>6. Head(q.msgs) = sent[n]
  <2>1. q.first + 1 + 1 - 1 = n
    BY <1>2, <1>4
  <2>2. q.msgs[1] = sent[q.first + 1 + 1 - 1]
    BY <1>3, <1>4
  <2> QED BY <1>3, <2>1, <2>2
<1>7. /\ delivered' = [delivered EXCEPT ![e] = Append(@, Head(q.msgs))]
      /\ UNCHANGED accepted
  BY DEF GetReliableMessage
<1> HIDE DEF q
<1>8. Link!Deliver(e)
  BY <1>5, <1>6, <1>7 DEF Link!Deliver
<1> QED BY <1>8 DEF Link!Next

LEMMA NextLink ==
  ASSUME IInv, [Next]_vars
  PROVE  [Link!Next]_<<accepted, delivered>>
<1>1. CASE UNCHANGED vars
  BY <1>1 DEF vars
<1>2. ASSUME NEW e \in Endpoint, NEW m \in Message, SendReliableMessage(e, m)
      PROVE  [Link!Next]_<<accepted, delivered>>
  BY <1>2, AcceptsOrStutters
<1>3. ASSUME NEW e \in Endpoint, Send(e) \/ SendNextFragment(e) \/ Receive(e)
      PROVE  UNCHANGED <<accepted, delivered>>
  <2>1. Send(e) => UNCHANGED <<accepted, delivered>>
    BY DEF Send, SendMessage, SendFragmented, SendWhole
  <2>2. SendNextFragment(e) => UNCHANGED <<accepted, delivered>>
    BY DEF SendNextFragment
  <2>3. Receive(e) => UNCHANGED <<accepted, delivered>>
    BY DEF Receive, Process, ProcessStale, ProcessMissed, ProcessFragment,
           ProcessLastFragment, ProcessWhole, Complete
  <2> QED BY <1>3, <2>1, <2>2, <2>3
<1>4. ASSUME NEW e \in Endpoint, GetReliableMessage(e) PROVE Link!Next
  BY <1>4, DeliversNext
<1> QED BY <1>1, <1>2, <1>3, <1>4 DEF Next

\* GetReliableMessage gives the game the messages that SendReliableMessage
\* accepted at the other end, in that order, once each.
THEOREM ImplementsReliableLink ==
  ASSUME NoExpansion
  PROVE  Spec => ReliableInOrder
<1>1. Spec => Link!Init /\ Init
  BY InitLink, PTL DEF Spec
<1>2. IInv /\ [Next]_vars => [Link!Next]_<<accepted, delivered>>
  BY NextLink
<1> QED BY <1>1, <1>2, Invariant, PTL DEF Spec, ReliableInOrder, Link!Spec

-----------------------------------------------------------------------------
(* A message brings the reliable ones that were queued before it. *)

\* A message that is under way begins with one that its receiver has already,
\* or with the next one: the sender drops none that the receiver lacks.
InReach ==
  /\ \A p \in net : p.body.first <= Seen(p.to) + 1
  /\ \A e \in Endpoint : unsentFragments[e] => unsentMsg[e].first <= Seen(Peer(e)) + 1

\* What a receiver does with a packet that completes a message.
HandsUp(e, b) ==
  /\ ReadMessageData(e, b)
  /\ fragmentBuffer'[e] = b
  /\ UNCHANGED <<accepted, delivered>>
  /\ \A f \in Endpoint : f # e => handed'[f] = handed[f]

LEMMA ProcessEffect ==
  ASSUME IInv, NEW e \in Endpoint, NEW p \in net, p.to = e, Process(e, p)
  PROVE  \/ UNCHANGED <<handed, reliableReceive>>
         \/ HandsUp(e, p.body)
<1>1. TypeOK /\ WellCut(p) /\ p.seq = p.body.data
      /\ Truthful(accepted[Peer(e)], Seen(Peer(e)), p.body)
  BY DEF IInv, Genuine
<1>2. p.body # Torn
  <2>1. p.body.data > 0 /\ Torn.data = -1
    BY <1>1 DEF Truthful, Torn, NoBody
  <2> QED BY <2>1
<1>3. ASSUME Complete(e, p, p.body, p.body.wire) PROVE HandsUp(e, p.body)
  <2>1. /\ ReadMessageData(e, p.body)
        /\ fragmentBuffer' = [fragmentBuffer EXCEPT ![e] = p.body]
        /\ handed' = [handed EXCEPT ![e] = Append(@, p.body.data)]
        /\ UNCHANGED <<accepted, delivered>>
    BY <1>2, <1>3 DEF Complete
  <2>2. /\ fragmentBuffer'[e] = p.body
        /\ \A f \in Endpoint : f # e => handed'[f] = handed[f]
    BY <1>1, <2>1 DEF TypeOK
  <2> QED BY <2>1, <2>2 DEF HandsUp
<1>4. CASE ProcessStale(e, p) \/ ProcessMissed(e, p) \/ ProcessFragment(e, p)
  BY <1>4 DEF ProcessStale, ProcessMissed, ProcessFragment
<1>5. CASE ProcessLastFragment(e, p)
  <2>1. /\ Filled(e, p, Gathered(e, p)) = p.body
        /\ Gathered(e, p) + p.len = p.body.wire
    BY <1>5, ContinuesFacts DEF ProcessLastFragment
  <2> QED BY <1>3, <1>5, <2>1 DEF ProcessLastFragment
<1>6. CASE ProcessWhole(e, p)
  <2>1. p.len = p.body.wire
    BY <1>1, <1>6 DEF ProcessWhole, WellCut
  <2> QED BY <1>3, <1>6, <2>1 DEF ProcessWhole
<1> QED BY <1>4, <1>5, <1>6 DEF Process

\* No step takes back what has been received.
LEMMA SeenGrows ==
  ASSUME IInv, [Next]_vars
  PROVE  \A e \in Endpoint : Seen(e) \in Nat /\ Seen(e)' \in Nat /\ Seen(e) <= Seen(e)'
<1>1. TypeOK /\ \A e \in Endpoint : Seen(e) \in Nat
  BY SeenType DEF IInv
<1>2. CASE UNCHANGED reliableReceive
  BY <1>1, <1>2 DEF Seen
<1>3. ASSUME NEW e \in Endpoint, NEW p \in net, p.to = e, Process(e, p),
             ~UNCHANGED reliableReceive
      PROVE  Grew /\ reliableReceive' \in [Endpoint -> Fifo]
  <2>1. HandsUp(e, p.body)
    BY <1>3, ProcessEffect
  <2>2. p.body \in Body /\ Truthful(accepted[Peer(e)], Seen(Peer(e)), p.body)
    BY <1>1, <1>3 DEF IInv, Genuine, TypeOK, Packet
  <2> QED BY <2>1, <2>2, ReadStep DEF HandsUp
<1>4. ASSUME NEW e \in Endpoint, GetReliableMessage(e)
      PROVE  \A f \in Endpoint : Seen(f)' = Seen(f)
  <2>1. /\ reliableReceive' = [reliableReceive EXCEPT ![e] = Without(reliableReceive[e], 1)]
        /\ reliableReceive[e].msgs # <<>> /\ reliableReceive[e] \in Fifo
    BY <1>1, <1>4 DEF GetReliableMessage, TypeOK
  <2>2. 1 \in 0 .. Len(reliableReceive[e].msgs)
    BY <2>1 DEF Fifo
  <2>3. LastOf(Without(reliableReceive[e], 1)) = LastOf(reliableReceive[e])
    BY <2>1, <2>2, WithoutFacts
  <2> QED BY <1>1, <2>1, <2>3 DEF Seen, TypeOK
<1>5. ASSUME NEW e \in Endpoint, Receive(e)
      PROVE  \A f \in Endpoint : Seen(f) \in Nat /\ Seen(f)' \in Nat /\ Seen(f) <= Seen(f)'
  <2>1. PICK p \in net : p.to = e /\ Process(e, p)
    BY <1>5 DEF Receive
  <2>2. CASE UNCHANGED reliableReceive
    BY <1>2, <2>2, <1>1 DEF Seen
  <2>3. CASE ~UNCHANGED reliableReceive
    <3>1. Grew /\ reliableReceive' \in [Endpoint -> Fifo]
      BY <1>3, <2>1, <2>3
    <3>2. \A f \in Endpoint : Seen(f)' \in Nat
      BY <3>1 DEF Seen, LastOf, Fifo
    <3> QED BY <1>1, <3>1, <3>2 DEF Grew
  <2> QED BY <2>2, <2>3
<1>6. ASSUME NEW e \in Endpoint, NEW m \in Message, SendReliableMessage(e, m)
      PROVE  UNCHANGED reliableReceive
  BY <1>6 DEF SendReliableMessage
<1>7. ASSUME NEW e \in Endpoint, Send(e) \/ SendNextFragment(e)
      PROVE  UNCHANGED reliableReceive
  BY <1>7 DEF Send, SendMessage, SendFragmented, SendWhole, SendNextFragment
<1>8. CASE UNCHANGED vars
  BY <1>2, <1>8 DEF vars
<1> QED BY <1>1, <1>2, <1>4, <1>5, <1>6, <1>7, <1>8 DEF Next

\* What a sender packs begins with a message that is in its queue.
LEMMA SendsInReach ==
  ASSUME IInv, NEW e \in Endpoint, Send(e) \/ SendNextFragment(e)
  PROVE  /\ \A f \in Endpoint : f # e => /\ unsentFragments'[f] = unsentFragments[f]
                                         /\ unsentMsg'[f] = unsentMsg[f]
         /\ \/ unsentMsg'[e] = unsentMsg[e] /\ unsentFragments[e]
            \/ unsentMsg'[e].first = reliableSend[e].first
         /\ \A p \in net' : p \in net \/ (p.to = Peer(e) /\ p.body = unsentMsg'[e])
<1>1. TypeOK
  BY DEF IInv
<1>2. CASE SendNextFragment(e)
  <2>1. /\ unsentFragments[e] /\ unsentMsg' = unsentMsg
        /\ TransmitFragment(e, unsentMsg[e], unsentFragmentStart[e])
    BY <1>2 DEF SendNextFragment
  <2>2. PICK len, done :
          /\ net' = net \cup {PacketOf(e, TRUE, unsentFragmentStart[e], len, unsentMsg[e])}
          /\ unsentFragments' = [unsentFragments EXCEPT ![e] = ~done]
    BY <2>1 DEF TransmitFragment
  <2> QED BY <1>1, <2>1, <2>2 DEF PacketOf, TypeOK
<1>3. ASSUME NEW total, NEW wire, SendFragmented(e, total, wire)
      PROVE  /\ unsentMsg' = [unsentMsg EXCEPT ![e] = WriteMessageData(e, wire)]
             /\ \E len, done :
                  /\ net' = net \cup {PacketOf(e, TRUE, 0, len, WriteMessageData(e, wire))}
                  /\ unsentFragments' = [unsentFragments EXCEPT ![e] = done]
  BY <1>3 DEF SendFragmented, TransmitFragment
<1>4. ASSUME NEW total, NEW wire, SendWhole(e, total, wire)
      PROVE  /\ unsentMsg' = [unsentMsg EXCEPT ![e] = WriteMessageData(e, wire)]
             /\ net' = net \cup {PacketOf(e, FALSE, 0, wire, WriteMessageData(e, wire))}
             /\ unsentFragments' = unsentFragments
  BY <1>4 DEF SendWhole
<1>5. CASE Send(e)
  <2>1. PICK total, wire : SendFragmented(e, total, wire) \/ SendWhole(e, total, wire)
    BY <1>5 DEF Send, SendMessage
  <2>2. PICK b : b = WriteMessageData(e, wire)
    OBVIOUS
  <2>3. b.first = reliableSend[e].first
    BY <2>2 DEF WriteMessageData
  <2>4. unsentMsg' = [unsentMsg EXCEPT ![e] = b]
    BY <1>3, <1>4, <2>1, <2>2
  <2>5. /\ unsentMsg'[e] = b
        /\ \A f \in Endpoint : f # e => unsentMsg'[f] = unsentMsg[f]
    BY <1>1, <2>4 DEF TypeOK
  <2>6. CASE SendFragmented(e, total, wire)
    <3>1. PICK len, done : /\ net' = net \cup {PacketOf(e, TRUE, 0, len, b)}
                           /\ unsentFragments' = [unsentFragments EXCEPT ![e] = done]
      BY <1>3, <2>2, <2>6
    <3> QED BY <1>1, <2>3, <2>5, <3>1 DEF PacketOf, TypeOK
  <2>7. CASE SendWhole(e, total, wire)
    <3>1. net' = net \cup {PacketOf(e, FALSE, 0, wire, b)} /\ unsentFragments' = unsentFragments
      BY <1>4, <2>2, <2>7
    <3> QED BY <2>3, <2>5, <3>1 DEF PacketOf
  <2> QED BY <2>1, <2>6, <2>7
<1> QED BY <1>2, <1>5

LEMMA StaysInReach ==
  ASSUME IInv, InReach, [Next]_vars, IInv'
  PROVE  InReach'
<1>1. TypeOK /\ TypeOK'
  BY DEF IInv
<1>2. \A e \in Endpoint : Seen(e) \in Nat /\ Seen(e)' \in Nat /\ Seen(e) <= Seen(e)'
  BY SeenGrows
<1>3. /\ \A p \in net' : p.to \in Endpoint /\ p.body.first \in Nat
      /\ \A e \in Endpoint : unsentMsg'[e].first \in Nat
      /\ \A e \in Endpoint : Peer(e) \in Endpoint
  BY <1>1, PeerFacts DEF TypeOK, Packet, Body
<1>4. CASE UNCHANGED <<net, unsentFragments, unsentMsg>>
  BY <1>2, <1>3, <1>4 DEF InReach
<1>5. ASSUME NEW e \in Endpoint, Send(e) \/ SendNextFragment(e)
      PROVE  InReach'
  <2>1. /\ \A f \in Endpoint : f # e => /\ unsentFragments'[f] = unsentFragments[f]
                                        /\ unsentMsg'[f] = unsentMsg[f]
        /\ \/ unsentMsg'[e] = unsentMsg[e] /\ unsentFragments[e]
           \/ unsentMsg'[e].first = reliableSend[e].first
        /\ \A p \in net' : p \in net \/ (p.to = Peer(e) /\ p.body = unsentMsg'[e])
    BY <1>5, SendsInReach
  <2>2. reliableSend[e].first <= Seen(Peer(e)) + 1 /\ reliableSend[e].first \in Nat
    BY <1>1 DEF IInv, SendQueue, TypeOK, Fifo
  <2>3. unsentMsg'[e].first <= Seen(Peer(e)) + 1
    BY <2>1, <2>2 DEF InReach
  <2>4. unsentMsg'[e].first <= Seen(Peer(e))' + 1
    BY <1>2, <1>3, <2>3
  <2>5. ASSUME NEW p \in net' PROVE p.body.first <= Seen(p.to)' + 1
    <3>1. CASE p \in net
      BY <1>2, <1>3, <3>1 DEF InReach
    <3>2. CASE p.to = Peer(e) /\ p.body = unsentMsg'[e]
      BY <2>4, <3>2
    <3> QED BY <2>1, <3>1, <3>2
  <2>6. ASSUME NEW f \in Endpoint, unsentFragments'[f]
        PROVE  unsentMsg'[f].first <= Seen(Peer(f))' + 1
    <3>1. CASE f # e
      <4>1. unsentMsg'[f].first <= Seen(Peer(f)) + 1
        BY <2>1, <2>6, <3>1 DEF InReach
      <4> QED BY <1>2, <1>3, <4>1
    <3> QED BY <2>4, <3>1
  <2> QED BY <2>5, <2>6 DEF InReach
<1>6. CASE UNCHANGED vars
  BY <1>4, <1>6 DEF vars, sendVars
<1>7. ASSUME NEW e \in Endpoint, Receive(e)
      PROVE  UNCHANGED <<net, unsentFragments, unsentMsg>>
  BY <1>7 DEF Receive, Process, ProcessStale, ProcessMissed, ProcessFragment,
         ProcessLastFragment, ProcessWhole, Complete, sendVars
<1>8. ASSUME NEW e \in Endpoint,
             (\E m \in Message : SendReliableMessage(e, m)) \/ GetReliableMessage(e)
      PROVE  UNCHANGED <<net, unsentFragments, unsentMsg>>
  BY <1>8 DEF SendReliableMessage, GetReliableMessage, sendVars
<1> QED BY <1>4, <1>5, <1>6, <1>7, <1>8 DEF Next

\* A receiver that stops before the last message of a packet has no room.
LEMMA ReadsAll ==
  ASSUME NEW q \in Fifo, NEW msgs \in Seq(Message), NEW first \in Nat,
         NEW seen \in 0 .. Len(msgs), LastOf(q) + 1 = first + seen,
         NEW ms, ms = SubSeq(msgs, seen + 1, Len(msgs)),
         NEW n \in 0 .. Len(ms), Takes(q, ms, n),
         NEW r, r = Extend(q, SubSeq(ms, 1, n)),
         LastOf(r) < first + Len(msgs) - 1
  PROVE  ~HasRoom(r, msgs[LastOf(r) + 2 - first])
<1>1. PICK len \in Nat : len = Len(msgs)
  OBVIOUS
<1>2. seen \in Nat /\ seen <= len
  BY <1>1
<1>3. /\ ms \in Seq(Message) /\ Len(ms) = len - seen
      /\ \A i \in 1 .. len - seen : ms[i] = msgs[seen + i]
  <2>1. /\ seen + 1 \in Int /\ len \in Int
        /\ \A i \in seen + 1 .. len : msgs[i] \in Message
    BY <1>1, <1>2
  <2>2. /\ SubSeq(msgs, seen + 1, len) \in Seq(Message)
        /\ Len(SubSeq(msgs, seen + 1, len)) =
             IF seen + 1 <= len THEN len - (seen + 1) + 1 ELSE 0
        /\ \A i \in 1 .. len - (seen + 1) + 1 :
             SubSeq(msgs, seen + 1, len)[i] = msgs[(seen + 1) + i - 1]
    BY <2>1, SubSeqProperties
  <2>3. ms \in Seq(Message) /\ Len(ms) = len - seen
    BY <1>1, <1>2, <2>2
  <2>4. ASSUME NEW i \in 1 .. len - seen PROVE ms[i] = msgs[seen + i]
    <3>1. i \in 1 .. len - (seen + 1) + 1 /\ (seen + 1) + i - 1 = seen + i
      BY <1>2
    <3> QED BY <1>1, <2>2, <3>1
  <2> QED BY <2>3, <2>4
<1>4. n \in Nat /\ n <= len - seen
  BY <1>2, <1>3
<1>5. SubSeq(ms, 1, n) \in Seq(Message) /\ Len(SubSeq(ms, 1, n)) = n
  BY <1>3
<1>6. LastOf(r) = LastOf(q) + n
  BY <1>5, ExtendFacts
<1>7. PICK l, m : l = LastOf(q) /\ m = LastOf(r)
  OBVIOUS
<1>8. l \in Nat
  <2>1. q.first \in Nat /\ q.msgs \in Seq(Message)
    BY DEF Fifo
  <2>2. Len(q.msgs) \in Nat
    BY ONLY <2>1
  <2>3. PICK k : k = Len(q.msgs)
    OBVIOUS
  <2>4. l = q.first + k
    BY ONLY <1>7, <2>3 DEF LastOf
  <2> QED BY ONLY <2>1, <2>2, <2>3, <2>4
<1>9. m = l + n /\ l + 1 = first + seen /\ m < first + len - 1
  BY <1>1, <1>6, <1>7
<1>10. n < len - seen /\ seen + (n + 1) = m + 2 - first
  BY <1>2, <1>4, <1>8, <1>9
<1>11. ~HasRoom(r, ms[n + 1])
  BY <1>3, <1>10 DEF Takes
<1>12. n + 1 \in 1 .. len - seen
  BY <1>2, <1>4, <1>10
<1>13. ms[n + 1] = msgs[seen + (n + 1)]
  BY <1>3, <1>12
<1> QED BY <1>7, <1>10, <1>11, <1>13

\* With a message come the reliable ones that were queued before it, as far as
\* there is room: what the frame loops rely on when they read these first.
THEOREM CarriesWhatWasQueued ==
  ASSUME NoExpansion
  PROVE  Spec => Carries
<1> DEFINE Brings ==
      \A e \in Endpoint :
        Len(handed'[e]) > Len(handed[e]) =>
          LET body == fragmentBuffer'[e]
              got  == LastOf(reliableReceive'[e])
          IN  got < body.first + Len(body.msgs) - 1 =>
                ~HasRoom(reliableReceive'[e], body.msgs[got + 2 - body.first])
<1>1. Init => InReach
  BY DEF Init, InReach
<1>2. IInv /\ InReach /\ [Next]_vars => (IInv /\ InReach)'
  BY NextIInv, StaysInReach
<1>3. ASSUME IInv, InReach, Next
      PROVE  Brings
  <2> SUFFICES ASSUME NEW e \in Endpoint, Len(handed'[e]) > Len(handed[e]),
                      LastOf(reliableReceive'[e])
                        < fragmentBuffer'[e].first + Len(fragmentBuffer'[e].msgs) - 1
               PROVE  ~HasRoom(reliableReceive'[e],
                               fragmentBuffer'[e].msgs[LastOf(reliableReceive'[e]) + 2
                                                         - fragmentBuffer'[e].first])
    OBVIOUS
  <2>1. TypeOK /\ TypeOK'
    BY <1>2, <1>3 DEF IInv
  <2>2. handed'[e] # handed[e]
    <3>1. Len(handed[e]) \in Nat
      BY <2>1 DEF TypeOK
    <3> QED BY <3>1
  <2>3. PICK f \in Endpoint : Receive(f)
    <3>1. \A f \in Endpoint :
            (\E m \in Message : SendReliableMessage(f, m)) \/ Send(f) \/ SendNextFragment(f)
              \/ GetReliableMessage(f) => handed' = handed
      BY DEF SendReliableMessage, Send, SendMessage, SendFragmented, SendWhole,
             SendNextFragment, GetReliableMessage
    <3> QED BY <1>3, <2>2, <3>1 DEF Next
  <2>4. PICK p \in net : p.to = f /\ Process(f, p)
    BY <2>3 DEF Receive
  <2>5. HandsUp(f, p.body) /\ f = e
    <3>1. HandsUp(f, p.body)
      BY <1>3, <2>2, <2>4, ProcessEffect
    <3> QED BY <2>2, <3>1 DEF HandsUp
  <2>6. PICK q, b : q = reliableReceive[e] /\ b = p.body
    OBVIOUS
  <2>7. q \in Fifo /\ b \in Body /\ fragmentBuffer'[e] = b
    BY <2>1, <2>5, <2>6 DEF TypeOK, Packet, HandsUp
  <2>8. b.first <= LastOf(q) + 1
    BY <1>3, <2>4, <2>5, <2>6 DEF InReach, Seen
  <2>9. PICK ms : ms = Fresh(e, b)
    OBVIOUS
  <2>10. PICK n \in 0 .. Len(ms) :
           /\ Takes(q, ms, n)
           /\ reliableReceive' = [reliableReceive EXCEPT ![e] = Extend(@, SubSeq(ms, 1, n))]
    BY <2>5, <2>6, <2>9 DEF HandsUp, ReadMessageData
  <2>11. PICK r : r = reliableReceive'[e]
    OBVIOUS
  <2>12. r = Extend(q, SubSeq(ms, 1, n))
    BY <2>1, <2>6, <2>10, <2>11 DEF TypeOK
  <2>13. /\ b.first \in Nat /\ b.msgs \in Seq(Message) /\ Len(b.msgs) \in Nat
         /\ LastOf(q) \in Nat
    BY <2>7 DEF Body, Fifo, LastOf
  <2>14. LastOf(q) + 1 - b.first <= Len(b.msgs)
    <3>1. SUFFICES ASSUME LastOf(q) + 1 - b.first > Len(b.msgs) PROVE FALSE
      BY <2>13
    <3>2. ms = <<>>
      BY <2>6, <2>9, <2>13, <3>1 DEF Fresh
    <3>3. SubSeq(ms, 1, n) = <<>> /\ n = 0
      BY <3>2
    <3>4. <<>> \in Seq(Message) /\ Len(<<>>) = 0
      OBVIOUS
    <3>5. LastOf(r) = LastOf(q) + 0
      BY <2>7, <2>12, <3>3, <3>4, ExtendFacts
    <3>6. LastOf(r) < b.first + Len(b.msgs) - 1
      BY <2>7, <2>11
    <3> QED BY <2>13, <3>1, <3>5, <3>6
  <2>15. PICK seen : seen = LastOf(q) + 1 - b.first
    OBVIOUS
  <2>16. seen \in 0 .. Len(b.msgs) /\ LastOf(q) + 1 = b.first + seen
    BY <2>8, <2>13, <2>14, <2>15
  <2>17. ms = SubSeq(b.msgs, seen + 1, Len(b.msgs))
    <3>1. LastOf(reliableReceive[e]) + 1 - b.first = seen
      BY <2>6, <2>15
    <3> QED BY <2>9, <2>16, <3>1 DEF Fresh
  <2>18. LastOf(r) < b.first + Len(b.msgs) - 1
    BY <2>7, <2>11
  <2>19. ~HasRoom(r, b.msgs[LastOf(r) + 2 - b.first])
    BY <2>7, <2>10, <2>12, <2>13, <2>16, <2>17, <2>18, ReadsAll
  <2> QED BY <2>7, <2>11, <2>19
<1>4. IInv /\ InReach /\ [Next]_vars => [Brings]_vars
  BY <1>3
<1> HIDE DEF Brings
<1>5. Spec => [][Brings]_vars
  BY InitIInv, <1>1, <1>2, <1>4, PTL DEF Spec
<1> QED BY <1>5 DEF Brings, Carries

=============================================================================
