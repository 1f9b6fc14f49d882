--------------------------- MODULE GameSync_proofs ---------------------------
(***************************************************************************)
(* Proofs about GameSync, for any entities and states, any number of games *)
(* and messages, and any number of snapshots the server keeps.  The        *)
(* inductive invariant is about the messages that are still under way, or  *)
(* at hand, in either direction: what each of them says of a game, and     *)
(* against which base a snapshot among them was written.                   *)
(***************************************************************************)
EXTENDS GameSync, FiniteSetTheorems, SequenceTheorems, WellFoundedInduction, TLAPS

-----------------------------------------------------------------------------
(* Lists out of which something is taken *)

\* The natural numbers are well ordered, which is what an induction over them
\* needs.
LEMMA NatLeast ==
  ASSUME NEW T \in SUBSET Nat, T # {}
  PROVE  \E x \in T : \A y \in T : x <= y
<1>1. IsWellFoundedOn(OpToRel(<, Nat), Nat)
  BY NatLessThanWellFounded
<1>2. PICK x \in T : \A y \in T : ~ (<<y, x>> \in OpToRel(<, Nat))
  BY <1>1, WFMin
<1>3. ASSUME NEW y \in T PROVE x <= y
  <2>1. ~ (<<y, x>> \in {ss \in Nat \X Nat : ss[1] < ss[2]})
    BY <1>2 DEF OpToRel
  <2> QED BY <2>1
<1> QED BY <1>3

\* A function with the places of K for its values, in their order.
Enumerates(f, K) ==
  /\ f \in [1 .. Cardinality(K) -> K]
  /\ In(f) = K
  /\ \A m, n \in DOMAIN f : m < n => f[m] < f[n]

Enumerable(n) == \A K \in SUBSET (1 .. n) : \E f : Enumerates(f, K)

LEMMA EnumerableZero == Enumerable(0)
<1> SUFFICES ASSUME NEW K \in SUBSET (1 .. 0)
             PROVE  \E f : Enumerates(f, K)
  BY DEF Enumerable
<1>0. K = {}
  OBVIOUS
<1>1. K = {} /\ Cardinality(K) = 0
  BY <1>0, FS_EmptySet
<1>2. [i \in 1 .. 0 |-> i] \in [1 .. Cardinality(K) -> K]
  BY <1>1
<1>3. Enumerates([i \in 1 .. 0 |-> i], K)
  BY <1>1, <1>2 DEF Enumerates, In
<1> QED BY <1>3

\* The last place goes behind those before it.
LEMMA EnumerableNext ==
  ASSUME NEW n \in Nat, Enumerable(n)
  PROVE  Enumerable(n + 1)
<1> SUFFICES ASSUME NEW K \in SUBSET (1 .. n + 1)
             PROVE  \E f : Enumerates(f, K)
  BY DEF Enumerable
<1> DEFINE L == K \ {n + 1}
<1>1. L \in SUBSET (1 .. n)
  OBVIOUS
<1>2. PICK f : Enumerates(f, L)
  BY <1>1 DEF Enumerable
<1>3. CASE n + 1 \notin K
  <2>1. L = K
    BY <1>3
  <2> QED BY <1>2, <2>1
<1>4. CASE n + 1 \in K
  <2>1. IsFiniteSet(1 .. n)
    BY FS_Interval
  <2>2. IsFiniteSet(L)
    BY <1>1, <2>1, FS_Subset
  <2>3. Cardinality(L) \in Nat
    BY <2>2, FS_CardinalityType
  <2>4. L \cup {n + 1} = K /\ n + 1 \notin L
    BY <1>4
  <2>5. Cardinality(K) = Cardinality(L) + 1
    BY <2>2, <2>4, FS_AddElement
  <2> DEFINE k == Cardinality(L)
             h == [i \in 1 .. k + 1 |-> IF i = k + 1 THEN n + 1 ELSE f[i]]
  <2>6. f \in [1 .. k -> L] /\ In(f) = L /\ \A i, j \in 1 .. k : i < j => f[i] < f[j]
    BY <1>2 DEF Enumerates
  <2> HIDE DEF k
  <2>7. k \in Nat
    BY <2>3 DEF k
  <2>8. \A i \in 1 .. k : f[i] \in 1 .. n /\ h[i] = f[i]
    <3>1. \A i \in 1 .. k : f[i] \in 1 .. n
      BY <1>1, <2>6
    <3>2. \A i \in 1 .. k : i \in 1 .. k + 1 /\ i # k + 1
      BY <2>7
    <3> QED BY <3>1, <3>2
  <2>9. h[k + 1] = n + 1
    BY <2>7
  <2>10. \A i \in 1 .. k + 1 : i \in 1 .. k \/ i = k + 1
    BY <2>7
  <2>11. DOMAIN h = 1 .. k + 1
    OBVIOUS
  <2> HIDE DEF h
  <2>12. h \in [1 .. k + 1 -> K]
    <3>1. \A i \in 1 .. k + 1 : h[i] \in K
      BY <2>4, <2>6, <2>8, <2>9, <2>10
    <3> QED BY <2>11, <3>1 DEF h
  <2>13. In(h) = K
    <3>1. \A x \in K : \E i \in 1 .. k + 1 : h[i] = x
      <4> TAKE x \in K
      <4>1. CASE x = n + 1
        BY <2>7, <2>9, <4>1
      <4>2. CASE x # n + 1
        <5>1. x \in In(f)
          BY <2>6, <4>2
        <5>2. PICK i \in 1 .. k : f[i] = x
          BY <2>6, <5>1 DEF In
        <5>3. i \in 1 .. k + 1 /\ h[i] = x
          BY <2>7, <2>8, <5>2
        <5> QED BY <5>3
      <4> QED BY <4>1, <4>2
    <3> QED BY <2>11, <2>12, <3>1 DEF In
  <2>14. ASSUME NEW i \in 1 .. k + 1, NEW j \in 1 .. k + 1, i < j
         PROVE  h[i] < h[j]
    <3>1. i \in 1 .. k
      BY <2>7, <2>14
    <3>2. CASE j = k + 1
      BY <2>8, <2>9, <3>1, <3>2
    <3>3. CASE j # k + 1
      BY <2>6, <2>8, <2>10, <2>14, <3>1, <3>3
    <3> QED BY <3>2, <3>3
  <2>15. Enumerates(h, K)
    BY <2>5, <2>11, <2>12, <2>13, <2>14 DEF Enumerates, k
  <2> QED BY <2>15
<1> QED BY <1>3, <1>4

LEMMA AllEnumerable == \A n \in Nat : Enumerable(n)
<1> DEFINE T == {n \in Nat : ~Enumerable(n)}
<1> SUFFICES ASSUME T # {} PROVE FALSE
  OBVIOUS
<1>1. PICK x \in T : \A y \in T : x <= y
  BY NatLeast
<1>2. x \in Nat /\ ~Enumerable(x)
  OBVIOUS
<1>3. x # 0
  BY <1>2, EnumerableZero
<1>4. x - 1 \in Nat /\ ~(x <= x - 1) /\ (x - 1) + 1 = x
  BY <1>2, <1>3
<1>5. x - 1 \notin T
  BY <1>1, <1>4
<1>6. Enumerable(x - 1)
  BY <1>4, <1>5
<1>7. Enumerable((x - 1) + 1)
  BY <1>4, <1>6, EnumerableNext
<1> QED BY <1>2, <1>4, <1>7

LEMMA InOrderFacts ==
  ASSUME NEW n \in Nat, NEW K \in SUBSET (1 .. n)
  PROVE  Enumerates(InOrder(K), K)
<1>1. PICK f : Enumerates(f, K)
  BY AllEnumerable DEF Enumerable
<1>2. f \in [1 .. Cardinality(K) -> K] /\ In(f) = K /\ \A i, j \in DOMAIN f : i < j => f[i] < f[j]
  BY <1>1 DEF Enumerates
<1> QED BY <1>2 DEF Enumerates, InOrder

\* A list after a removal: each of its places had one before, in the same order.
Thinned(r, q, f) ==
  /\ f \in [DOMAIN r -> DOMAIN q]
  /\ \A m, n \in DOMAIN r : m < n => f[m] < f[n]
  /\ \A n \in DOMAIN r : r[n] = q[f[n]]

LEMMA AtPlacesFacts ==
  ASSUME NEW S, NEW q \in Seq(S), NEW K \in SUBSET DOMAIN q
  PROVE  /\ AtPlaces(q, K) \in Seq(S)
         /\ In(AtPlaces(q, K)) = {q[n] : n \in K}
         /\ \E f : Thinned(AtPlaces(q, K), q, f)
<1> DEFINE f == InOrder(K)
           r == [n \in DOMAIN f |-> q[f[n]]]
<1>1. DOMAIN q = 1 .. Len(q) /\ Len(q) \in Nat
  OBVIOUS
<1>2. K \in SUBSET (1 .. Len(q))
  BY <1>1
<1>3. Enumerates(f, K)
  BY <1>1, <1>2, InOrderFacts
<1>4. Cardinality(K) \in Nat
  <2>1. IsFiniteSet(1 .. Len(q))
    BY <1>1, FS_Interval
  <2>2. IsFiniteSet(K)
    BY <1>2, <2>1, FS_Subset
  <2> QED BY <2>2, FS_CardinalityType
<1>5. AtPlaces(q, K) = r
  BY DEF AtPlaces
<1>6. /\ f \in [1 .. Cardinality(K) -> K] /\ In(f) = K
      /\ \A m, n \in DOMAIN f : m < n => f[m] < f[n]
  BY <1>3 DEF Enumerates
<1>7. \A k \in K : k \in DOMAIN q /\ q[k] \in S
  BY <1>1
<1> HIDE DEF f
<1>9. r \in Seq(S)
  <2>1. r \in [1 .. Cardinality(K) -> S]
    BY <1>6, <1>7
  <2> QED BY <1>4, <2>1
<1>10. In(r) = {q[n] : n \in K}
  <2>1. \A n \in DOMAIN f : f[n] \in K /\ r[n] = q[f[n]]
    BY <1>6
  <2>2. \A k \in K : \E n \in DOMAIN f : f[n] = k
    BY <1>6 DEF In
  <2> QED BY <2>1, <2>2 DEF In
<1>11. Thinned(r, q, f)
  BY <1>6, <1>7 DEF Thinned
<1> QED BY <1>5, <1>9, <1>10, <1>11

-----------------------------------------------------------------------------
(* One direction *)

IsCarrier(c) ==
  /\ DOMAIN c = {"next", "net", "last", "upTo", "read", "reliable", "msg"}
  /\ c = [field \in DOMAIN c |-> c[field]]

\* The message at hand, as the packet it came in.
AtHand(c) == [seq |-> c.last, upTo |-> c.upTo, body |-> c.msg]

\* The messages whose contents are still to be looked at.
Under(c) == c.net \cup (IF Busy(c) THEN {AtHand(c)} ELSE {})

Receipts == [kind : {"APPLYSNAPSHOT"}, sequence : Nat] \cup [kind : {"PURE"}, game : Nat]

Numbered(c) ==
  /\ IsCarrier(c)
  /\ c.next \in Nat /\ c.last \in Nat /\ c.last < c.next
  /\ c.read \in Nat /\ c.upTo \in Nat
  /\ c.reliable \in Seq(Receipts)
  /\ c.read <= c.upTo /\ c.upTo <= c.read + Len(c.reliable)
  /\ Busy(c) \/ c.read = c.upTo

Ordered(c) ==
  /\ \A p \in c.net : p.seq > c.last /\ p = [seq |-> p.seq, upTo |-> p.upTo, body |-> p.body]
  /\ \A p \in Under(c) : /\ p.seq \in Nat /\ p.seq < c.next
                         /\ p.upTo \in Nat /\ c.upTo <= p.upTo
                         /\ p.upTo <= c.read + Len(c.reliable)
  /\ \A p, r \in Under(c) : /\ p.seq = r.seq => p = r
                            /\ p.seq < r.seq => p.upTo <= r.upTo

CarrierOK(c) == Numbered(c) /\ Ordered(c)

LEMMA NewCarrierOK ==
  /\ CarrierOK(NewCarrier) /\ Under(NewCarrier) = {} /\ ~Busy(NewCarrier)
  /\ NewCarrier.reliable = <<>> /\ NewCarrier.last = 0 /\ NewCarrier.net = {}
<1>1. /\ NewCarrier.next = 1 /\ NewCarrier.net = {} /\ NewCarrier.last = 0
      /\ NewCarrier.upTo = 0 /\ NewCarrier.read = 0 /\ NewCarrier.reliable = <<>>
      /\ NewCarrier.msg = NoMsg /\ IsCarrier(NewCarrier)
  BY DEF NewCarrier, IsCarrier
<1>2. ~Busy(NewCarrier) /\ Under(NewCarrier) = {}
  BY <1>1 DEF Busy, Under
<1>3. <<>> \in Seq(Receipts) /\ Len(<<>>) = 0
  OBVIOUS
<1> QED BY <1>1, <1>2, <1>3 DEF CarrierOK, Numbered, Ordered

LEMMA QueuedFields ==
  ASSUME NEW c, IsCarrier(c), NEW r
  PROVE  /\ IsCarrier(Queued(c, r))
         /\ Queued(c, r).reliable = Append(c.reliable, r)
         /\ Queued(c, r).next = c.next /\ Queued(c, r).net = c.net
         /\ Queued(c, r).last = c.last /\ Queued(c, r).upTo = c.upTo
         /\ Queued(c, r).read = c.read /\ Queued(c, r).msg = c.msg
         /\ Under(Queued(c, r)) = Under(c) /\ (Busy(Queued(c, r)) <=> Busy(c))
<1>1. /\ IsCarrier(Queued(c, r))
      /\ Queued(c, r).reliable = Append(c.reliable, r)
      /\ Queued(c, r).next = c.next /\ Queued(c, r).net = c.net
      /\ Queued(c, r).last = c.last /\ Queued(c, r).upTo = c.upTo
      /\ Queued(c, r).read = c.read /\ Queued(c, r).msg = c.msg
  BY DEF IsCarrier, Queued
<1> QED BY <1>1 DEF Under, Busy, AtHand

LEMMA SentFields ==
  ASSUME NEW c, IsCarrier(c), NEW b
  PROVE  LET s == Sent(c, b)
             p == [seq |-> c.next, upTo |-> c.read + Len(c.reliable), body |-> b]
         IN  /\ IsCarrier(s)
             /\ s.next = c.next + 1 /\ s.net = c.net \cup {p}
             /\ s.last = c.last /\ s.upTo = c.upTo /\ s.read = c.read
             /\ s.reliable = c.reliable /\ s.msg = c.msg
             /\ Under(s) = Under(c) \cup {p} /\ (Busy(s) <=> Busy(c))
<1> DEFINE s == Sent(c, b)
           p == [seq |-> c.next, upTo |-> c.read + Len(c.reliable), body |-> b]
<1>1. /\ IsCarrier(s)
      /\ s.next = c.next + 1 /\ s.net = c.net \cup {p}
      /\ s.last = c.last /\ s.upTo = c.upTo /\ s.read = c.read
      /\ s.reliable = c.reliable /\ s.msg = c.msg
  BY DEF IsCarrier, Sent
<1> HIDE DEF s, p
<1>2. Under(s) = Under(c) \cup {p} /\ (Busy(s) <=> Busy(c))
  BY <1>1 DEF Under, Busy, AtHand
<1> QED BY <1>1, <1>2 DEF s, p

LEMMA HandedUpFields ==
  ASSUME NEW c, IsCarrier(c), NEW m
  PROVE  LET h == HandedUp(c, m)
         IN  /\ IsCarrier(h)
             /\ h.next = c.next /\ h.net = {n \in c.net : n.seq > m.seq}
             /\ h.last = m.seq /\ h.upTo = m.upTo /\ h.read = c.read
             /\ h.reliable = c.reliable /\ h.msg = m.body
  BY DEF IsCarrier, HandedUp

LEMMA ReadFields ==
  ASSUME NEW c, IsCarrier(c)
  PROVE  LET h == ReadReliable(c)
         IN  /\ IsCarrier(h)
             /\ h.next = c.next /\ h.net = c.net /\ h.last = c.last /\ h.upTo = c.upTo
             /\ h.read = c.read + 1 /\ h.reliable = Tail(c.reliable) /\ h.msg = c.msg
             /\ Under(h) = Under(c) /\ (Busy(h) <=> Busy(c))
<1> DEFINE h == ReadReliable(c)
<1>1. /\ IsCarrier(h)
      /\ h.next = c.next /\ h.net = c.net /\ h.last = c.last /\ h.upTo = c.upTo
      /\ h.read = c.read + 1 /\ h.reliable = Tail(c.reliable) /\ h.msg = c.msg
  BY DEF IsCarrier, ReadReliable
<1> HIDE DEF h
<1>2. Under(h) = Under(c) /\ (Busy(h) <=> Busy(c))
  BY <1>1 DEF Under, Busy, AtHand
<1> QED BY <1>1, <1>2 DEF h

LEMMA DoneFields ==
  ASSUME NEW c, IsCarrier(c)
  PROVE  LET h == Done(c)
         IN  /\ IsCarrier(h)
             /\ h.next = c.next /\ h.net = c.net /\ h.last = c.last /\ h.upTo = c.upTo
             /\ h.read = c.read /\ h.reliable = c.reliable
             /\ Under(h) = c.net /\ ~Busy(h)
<1> DEFINE h == Done(c)
<1>1. /\ IsCarrier(h)
      /\ h.next = c.next /\ h.net = c.net /\ h.last = c.last /\ h.upTo = c.upTo
      /\ h.read = c.read /\ h.reliable = c.reliable /\ h.msg = NoMsg
  BY DEF IsCarrier, Done
<1> HIDE DEF h
<1>2. ~Busy(h) /\ Under(h) = c.net
  BY <1>1 DEF Under, Busy
<1> QED BY <1>1, <1>2 DEF h

LEMMA QueuedOK ==
  ASSUME NEW c, CarrierOK(c), NEW r \in Receipts
  PROVE  CarrierOK(Queued(c, r)) /\ Len(Queued(c, r).reliable) = Len(c.reliable) + 1
<1> DEFINE h == Queued(c, r)
<1>1. /\ IsCarrier(h) /\ h.reliable = Append(c.reliable, r)
      /\ h.next = c.next /\ h.net = c.net /\ h.last = c.last /\ h.upTo = c.upTo
      /\ h.read = c.read /\ h.msg = c.msg
      /\ Under(h) = Under(c) /\ (Busy(h) <=> Busy(c))
  BY QueuedFields DEF CarrierOK, Numbered
<1>2. c.reliable \in Seq(Receipts)
  BY DEF CarrierOK, Numbered
<1>3. h.reliable \in Seq(Receipts) /\ Len(h.reliable) = Len(c.reliable) + 1
  BY <1>1, <1>2
<1> HIDE DEF h
<1>4. Len(c.reliable) \in Nat
  BY <1>2
<1>5. Numbered(h)
  BY <1>1, <1>3, <1>4 DEF CarrierOK, Numbered
<1>6. Ordered(h)
  <2>1. c.read \in Nat
    BY DEF CarrierOK, Numbered
  <2> QED BY <1>1, <1>3, <1>4, <2>1 DEF CarrierOK, Ordered
<1> QED BY <1>3, <1>5, <1>6 DEF CarrierOK, h

LEMMA SentOK ==
  ASSUME NEW c, CarrierOK(c), NEW b
  PROVE  CarrierOK(Sent(c, b))
<1> DEFINE h == Sent(c, b)
           p == [seq |-> c.next, upTo |-> c.read + Len(c.reliable), body |-> b]
<1>1. /\ IsCarrier(h) /\ h.next = c.next + 1 /\ h.net = c.net \cup {p}
      /\ h.last = c.last /\ h.upTo = c.upTo /\ h.read = c.read
      /\ h.reliable = c.reliable /\ h.msg = c.msg
      /\ Under(h) = Under(c) \cup {p} /\ (Busy(h) <=> Busy(c))
  BY SentFields DEF CarrierOK, Numbered
<1>2. /\ p.seq = c.next /\ p.upTo = c.read + Len(c.reliable)
      /\ p = [seq |-> p.seq, upTo |-> p.upTo, body |-> p.body]
  OBVIOUS
<1> HIDE DEF h, p
<1>3. c.next \in Nat /\ c.last \in Nat /\ c.last < c.next /\ c.read \in Nat /\ c.upTo \in Nat
      /\ Len(c.reliable) \in Nat /\ c.upTo <= c.read + Len(c.reliable)
  BY DEF CarrierOK, Numbered
<1>4. Numbered(h)
  BY <1>1, <1>3 DEF CarrierOK, Numbered
<1>5. \A q \in Under(c) : /\ q.seq \in Nat /\ q.seq < c.next
                          /\ q.upTo \in Nat /\ c.upTo <= q.upTo
                          /\ q.upTo <= c.read + Len(c.reliable)
  BY DEF CarrierOK, Ordered
<1>6. \A q \in h.net : q.seq > h.last /\ q = [seq |-> q.seq, upTo |-> q.upTo, body |-> q.body]
  BY <1>1, <1>2, <1>3 DEF CarrierOK, Ordered
<1>7. \A q \in Under(h) : /\ q.seq \in Nat /\ q.seq < h.next
                          /\ q.upTo \in Nat /\ h.upTo <= q.upTo
                          /\ q.upTo <= h.read + Len(h.reliable)
  BY <1>1, <1>2, <1>3, <1>5
<1>8. \A q, r \in Under(h) : /\ q.seq = r.seq => q = r
                             /\ q.seq < r.seq => q.upTo <= r.upTo
  <2> TAKE q, r \in Under(h)
  <2>1. CASE q \in Under(c) /\ r \in Under(c)
    BY <2>1 DEF CarrierOK, Ordered
  <2>2. CASE q = p \/ r = p
    BY <1>1, <1>2, <1>3, <1>5, <2>2
  <2> QED BY <1>1, <2>1, <2>2
<1> QED BY <1>4, <1>6, <1>7, <1>8 DEF CarrierOK, Ordered, h

LEMMA HandedUpOK ==
  ASSUME NEW c, CarrierOK(c), ~Busy(c), NEW m \in c.net, m.body # NoMsg
  PROVE  /\ CarrierOK(HandedUp(c, m)) /\ Busy(HandedUp(c, m))
         /\ Under(HandedUp(c, m)) \subseteq Under(c)
         /\ m \in Under(HandedUp(c, m)) /\ m.seq > c.last
<1> DEFINE h == HandedUp(c, m)
<1>1. /\ IsCarrier(h)
      /\ h.next = c.next /\ h.net = {n \in c.net : n.seq > m.seq}
      /\ h.last = m.seq /\ h.upTo = m.upTo /\ h.read = c.read
      /\ h.reliable = c.reliable /\ h.msg = m.body
  BY HandedUpFields DEF CarrierOK, Numbered
<1> HIDE DEF h
<1>2. Busy(h) /\ Under(c) = c.net
  BY <1>1 DEF Busy, Under
<1>3. m = [seq |-> m.seq, upTo |-> m.upTo, body |-> m.body] /\ m \in Under(c) /\ m.seq > c.last
  BY <1>2 DEF CarrierOK, Ordered
<1>4. AtHand(h) = m
  BY <1>1, <1>3 DEF AtHand
<1>5. Under(h) = {n \in c.net : n.seq > m.seq} \cup {m}
  BY <1>1, <1>2, <1>4 DEF Under
<1>6. Under(h) \subseteq Under(c) /\ m \in Under(h)
  BY <1>2, <1>5
<1>7. m.seq \in Nat /\ m.seq < c.next /\ m.upTo \in Nat /\ c.upTo <= m.upTo
      /\ m.upTo <= c.read + Len(c.reliable)
  BY <1>3 DEF CarrierOK, Ordered
<1>8. Numbered(h)
  BY <1>1, <1>2, <1>7 DEF CarrierOK, Numbered
<1>9. \A q \in h.net : q.seq > h.last /\ q = [seq |-> q.seq, upTo |-> q.upTo, body |-> q.body]
  BY <1>1 DEF CarrierOK, Ordered
<1>10. \A q \in Under(h) : m.upTo <= q.upTo
  <2>1. \A q \in c.net : q.seq > m.seq => m.upTo <= q.upTo
    BY <1>2, <1>3, <1>7 DEF CarrierOK, Ordered
  <2> QED BY <1>5, <1>7, <2>1
<1>11. Ordered(h)
  BY <1>1, <1>6, <1>9, <1>10 DEF CarrierOK, Ordered
<1> QED BY <1>2, <1>3, <1>6, <1>8, <1>11 DEF CarrierOK, h

LEMMA ReadOK ==
  ASSUME NEW c, CarrierOK(c), HasReliable(c)
  PROVE  /\ CarrierOK(ReadReliable(c))
         /\ c.reliable # <<>> /\ Head(c.reliable) \in Receipts
         /\ Len(Tail(c.reliable)) = Len(c.reliable) - 1
<1> DEFINE h == ReadReliable(c)
<1>1. /\ IsCarrier(h)
      /\ h.next = c.next /\ h.net = c.net /\ h.last = c.last /\ h.upTo = c.upTo
      /\ h.read = c.read + 1 /\ h.reliable = Tail(c.reliable) /\ h.msg = c.msg
      /\ Under(h) = Under(c) /\ (Busy(h) <=> Busy(c))
  BY ReadFields DEF CarrierOK, Numbered
<1> HIDE DEF h
<1>2. /\ c.read \in Nat /\ c.upTo \in Nat /\ c.read < c.upTo /\ Busy(c)
      /\ c.reliable \in Seq(Receipts) /\ c.upTo <= c.read + Len(c.reliable)
      /\ Len(c.reliable) \in Nat
  BY DEF HasReliable, CarrierOK, Numbered
<1>3. c.reliable # <<>>
  BY <1>2
<1>4. /\ Tail(c.reliable) \in Seq(Receipts) /\ Head(c.reliable) \in Receipts
      /\ Len(Tail(c.reliable)) = Len(c.reliable) - 1
  BY <1>2, <1>3
<1>5. h.read + Len(h.reliable) = c.read + Len(c.reliable)
  BY <1>1, <1>2, <1>4
<1>6. Numbered(h)
  BY <1>1, <1>2, <1>4, <1>5 DEF CarrierOK, Numbered
<1>7. Ordered(h)
  BY <1>1, <1>5 DEF CarrierOK, Ordered
<1> QED BY <1>3, <1>4, <1>6, <1>7 DEF CarrierOK, h

LEMMA DoneOK ==
  ASSUME NEW c, CarrierOK(c), AtUnreliable(c)
  PROVE  CarrierOK(Done(c)) /\ Under(Done(c)) \subseteq Under(c) /\ AtHand(c) \in Under(c)
<1> DEFINE h == Done(c)
<1>1. /\ IsCarrier(h)
      /\ h.next = c.next /\ h.net = c.net /\ h.last = c.last /\ h.upTo = c.upTo
      /\ h.read = c.read /\ h.reliable = c.reliable
      /\ Under(h) = c.net /\ ~Busy(h)
  BY DoneFields DEF CarrierOK, Numbered
<1> HIDE DEF h
<1>2. Busy(c) /\ c.read = c.upTo
  BY DEF AtUnreliable
<1>3. Under(h) \subseteq Under(c) /\ AtHand(c) \in Under(c)
  BY <1>1, <1>2 DEF Under
<1>4. Numbered(h)
  BY <1>1, <1>2 DEF CarrierOK, Numbered
<1>5. Ordered(h)
  BY <1>1, <1>3 DEF CarrierOK, Ordered
<1> QED BY <1>3, <1>4, <1>5 DEF CarrierOK, h

-----------------------------------------------------------------------------
(* Bases and snapshots *)

Pictures == UNION {[D -> State \cup {Garbage}] : D \in SUBSET Entity}

Snapshots == [sequence : Nat, states : Pictures, pvs : SUBSET (Entity \cup {Garbage})]

IsDelta(d) ==
  /\ DOMAIN d = {"base", "pvs", "snapshots"}
  /\ d = [field \in DOMAIN d |-> d[field]]
  /\ d.snapshots \in Seq(Snapshots)

Distinct(d) ==
  \A i, j \in DOMAIN d.snapshots :
    d.snapshots[i].sequence = d.snapshots[j].sequence => i = j

\* A base with the states of a snapshot laid over it.
Overlay(base, states) ==
  [e \in Entity |-> IF e \in DOMAIN states THEN states[e] ELSE base[e]]

LEMMA ClearedFacts ==
  /\ IsDelta(Cleared) /\ Distinct(Cleared) /\ In(Cleared.snapshots) = {}
  /\ Cleared.snapshots = <<>>
<1>1. /\ DOMAIN Cleared = {"base", "pvs", "snapshots"}
      /\ Cleared = [field \in DOMAIN Cleared |-> Cleared[field]]
      /\ Cleared.snapshots = <<>>
  BY DEF Cleared
<1>2. <<>> \in Seq(Snapshots) /\ DOMAIN <<>> = {}
  OBVIOUS
<1> QED BY <1>1, <1>2 DEF IsDelta, Distinct, In

LEMMA AtPlacesDistinct ==
  ASSUME NEW d, NEW e, d.snapshots \in Seq(Snapshots), Distinct(d),
         NEW K \in SUBSET DOMAIN d.snapshots, e.snapshots = AtPlaces(d.snapshots, K)
  PROVE  Distinct(e)
<1>1. PICK f : Thinned(e.snapshots, d.snapshots, f)
  BY AtPlacesFacts
<1>2. /\ f \in [DOMAIN e.snapshots -> DOMAIN d.snapshots]
      /\ \A m, n \in DOMAIN e.snapshots : m < n => f[m] < f[n]
      /\ \A n \in DOMAIN e.snapshots : e.snapshots[n] = d.snapshots[f[n]]
  BY <1>1 DEF Thinned
<1>3. e.snapshots \in Seq(Snapshots)
  BY AtPlacesFacts
<1>4. DOMAIN e.snapshots \subseteq Nat /\ DOMAIN d.snapshots \subseteq Nat
  BY <1>3
<1>5. ASSUME NEW i \in DOMAIN e.snapshots, NEW j \in DOMAIN e.snapshots,
             e.snapshots[i].sequence = e.snapshots[j].sequence
      PROVE  i = j
  <2>1. f[i] = f[j]
    BY <1>2, <1>5 DEF Distinct
  <2>2. f[i] \in Nat /\ i \in Nat /\ j \in Nat
    BY <1>2, <1>4
  <2> QED BY <1>2, <2>1, <2>2
<1> QED BY <1>5 DEF Distinct

LEMMA FreeFacts ==
  ASSUME NEW d, IsDelta(d), NEW s \in Int
  PROVE  LET k == FreeSnapshotsOlderThanSequence(d, s)
         IN  /\ IsDelta(k) /\ k.base = d.base /\ k.pvs = d.pvs
             /\ In(k.snapshots) = {u \in In(d.snapshots) : u.sequence >= s}
             /\ Distinct(d) => Distinct(k)
<1> DEFINE K == {i \in DOMAIN d.snapshots : d.snapshots[i].sequence >= s}
           k == FreeSnapshotsOlderThanSequence(d, s)
<1>1. /\ DOMAIN k = {"base", "pvs", "snapshots"}
      /\ k = [field \in DOMAIN k |-> k[field]]
      /\ k.base = d.base /\ k.pvs = d.pvs /\ k.snapshots = AtPlaces(d.snapshots, K)
  BY DEF IsDelta, FreeSnapshotsOlderThanSequence
<1>2. d.snapshots \in Seq(Snapshots) /\ K \in SUBSET DOMAIN d.snapshots
  BY DEF IsDelta
<1> HIDE DEF k
<1>3. k.snapshots \in Seq(Snapshots) /\ In(k.snapshots) = {d.snapshots[n] : n \in K}
  BY <1>1, <1>2, AtPlacesFacts
<1>4. In(k.snapshots) = {u \in In(d.snapshots) : u.sequence >= s}
  BY <1>3 DEF In
<1>5. Distinct(d) => Distinct(k)
  BY <1>1, <1>2, AtPlacesDistinct
<1> QED BY <1>1, <1>3, <1>4, <1>5 DEF IsDelta, k

LEMMA HoldsIs ==
  ASSUME NEW d, NEW s
  PROVE  Holds(d, s) <=> \E u \in In(d.snapshots) : u.sequence = s
BY DEF Holds, In

LEMMA HeldAre ==
  ASSUME NEW d, IsDelta(d), NEW u \in In(d.snapshots)
  PROVE  u \in Snapshots /\ u.sequence \in Nat
<1>1. PICK i \in DOMAIN d.snapshots : u = d.snapshots[i]
  BY DEF In
<1>2. d.snapshots \in Seq(Snapshots)
  BY DEF IsDelta
<1>3. u \in Snapshots
  BY <1>1, <1>2
<1> QED BY <1>3 DEF Snapshots

LEMMA ApplyFacts ==
  ASSUME NEW d, IsDelta(d), NEW s \in Nat
  PROVE  LET k == ApplySnapshot(d, s)
         IN  /\ IsDelta(k)
             /\ Distinct(d) =>
                  /\ Distinct(k)
                  /\ In(k.snapshots) = {u \in In(d.snapshots) : u.sequence > s}
             /\ Holds(d, s) =>
                  \E t \in In(d.snapshots) : /\ t.sequence = s
                                             /\ k.base = Overlay(d.base, t.states)
                                             /\ k.pvs = t.pvs
             /\ ~Holds(d, s) => k.base = d.base /\ k.pvs = d.pvs
<1> DEFINE kept == FreeSnapshotsOlderThanSequence(d, s)
           found == {i \in DOMAIN kept.snapshots : kept.snapshots[i].sequence = s}
           at == CHOOSE i \in found : \A j \in found : i <= j
           t == kept.snapshots[at]
           after == [base |-> [e \in Entity |-> IF e \in DOMAIN t.states THEN t.states[e]
                                                ELSE kept.base[e]],
                     pvs |-> t.pvs,
                     snapshots |-> AtPlaces(kept.snapshots, DOMAIN kept.snapshots \ {at})]
           k == ApplySnapshot(d, s)
<1>1. /\ IsDelta(kept) /\ kept.base = d.base /\ kept.pvs = d.pvs
      /\ In(kept.snapshots) = {u \in In(d.snapshots) : u.sequence >= s}
      /\ Distinct(d) => Distinct(kept)
  BY FreeFacts
<1>2. k = IF found = {} THEN kept ELSE after
  BY DEF ApplySnapshot
<1>3. Holds(d, s) <=> found # {}
  <2>1. Holds(d, s) <=> \E u \in In(kept.snapshots) : u.sequence = s
    BY <1>1, HoldsIs
  <2> QED BY <2>1 DEF In
<1>4. \A u \in In(d.snapshots) : u.sequence \in Nat
  BY HeldAre
<1> HIDE DEF kept
<1>5. CASE found = {}
  <2>1. ~Holds(d, s) /\ k = kept
    BY <1>2, <1>3, <1>5
  <2>2. \A u \in In(d.snapshots) : u.sequence # s
    BY <2>1, HoldsIs
  <2>3. {u \in In(d.snapshots) : u.sequence >= s} = {u \in In(d.snapshots) : u.sequence > s}
    BY <1>4, <2>2
  <2> QED BY <1>1, <2>1, <2>3
<1>6. CASE found # {}
  <2>1. k = after /\ Holds(d, s)
    BY <1>2, <1>3, <1>6
  <2>2. kept.snapshots \in Seq(Snapshots)
    BY <1>1 DEF IsDelta
  <2>3. found \in SUBSET Nat
    BY <2>2
  <2>4. \E i \in found : \A j \in found : i <= j
    BY <1>6, <2>3, NatLeast
  <2>5. at \in found
    BY <2>4
  <2>6. at \in DOMAIN kept.snapshots /\ t.sequence = s
    BY <2>5
  <2> HIDE DEF at
  <2>7. t \in In(kept.snapshots) /\ t \in In(d.snapshots)
    BY <1>1, <2>6 DEF In
  <2> DEFINE K == DOMAIN kept.snapshots \ {at}
  <2> HIDE DEF t
  <2>8. /\ DOMAIN k = {"base", "pvs", "snapshots"}
        /\ k = [field \in DOMAIN k |-> k[field]]
        /\ k.base = Overlay(kept.base, t.states) /\ k.pvs = t.pvs
        /\ k.snapshots = AtPlaces(kept.snapshots, K)
    BY <2>1 DEF Overlay
  <2>9. K \in SUBSET DOMAIN kept.snapshots
    OBVIOUS
  <2> HIDE DEF k
  <2>10. k.snapshots \in Seq(Snapshots) /\ In(k.snapshots) = {kept.snapshots[n] : n \in K}
    BY <2>2, <2>8, <2>9, AtPlacesFacts
  <2>11. ASSUME Distinct(d)
         PROVE  /\ Distinct(k)
                /\ In(k.snapshots) = {u \in In(d.snapshots) : u.sequence > s}
    <3>1. Distinct(kept)
      BY <1>1, <2>11
    <3>2. Distinct(k)
      BY <2>2, <2>8, <2>9, <3>1, AtPlacesDistinct
    <3>3. \A n \in DOMAIN kept.snapshots : n \in K <=> kept.snapshots[n].sequence # s
      BY <2>6, <3>1 DEF Distinct, t
    <3>4. In(k.snapshots) = {u \in In(kept.snapshots) : u.sequence # s}
      BY <2>10, <3>3 DEF In
    <3>5. {u \in In(kept.snapshots) : u.sequence # s} = {u \in In(d.snapshots) : u.sequence > s}
      BY <1>1, <1>4
    <3> QED BY <3>2, <3>4, <3>5
  <2>12. IsDelta(k)
    BY <2>8, <2>10 DEF IsDelta
  <2>13. \E u \in In(d.snapshots) : /\ u.sequence = s
                                    /\ k.base = Overlay(d.base, u.states)
                                    /\ k.pvs = u.pvs
    BY <1>1, <2>6, <2>7, <2>8
  <2> QED BY <2>1, <2>11, <2>12, <2>13 DEF k
<1> QED BY <1>5, <1>6

LEMMA ApplyIs ==
  ASSUME NEW d, IsDelta(d), Distinct(d), NEW s \in Nat, NEW k, k = ApplySnapshot(d, s)
  PROVE  /\ IsDelta(k) /\ Distinct(k)
         /\ In(k.snapshots) = {u \in In(d.snapshots) : u.sequence > s}
         /\ Holds(d, s) =>
              \E t \in In(d.snapshots) : /\ t.sequence = s
                                         /\ k.base = Overlay(d.base, t.states)
                                         /\ k.pvs = t.pvs
         /\ ~Holds(d, s) => k.base = d.base /\ k.pvs = d.pvs
BY ApplyFacts

LEMMA WithFacts ==
  ASSUME NEW d, IsDelta(d), NEW n \in Nat, NEW states \in Pictures,
         NEW pvs \in SUBSET (Entity \cup {Garbage})
  PROVE  LET k == WithSnapshot(d, n, states, pvs)
             t == [sequence |-> n, states |-> states, pvs |-> pvs]
         IN  /\ IsDelta(k) /\ k.base = d.base /\ k.pvs = d.pvs
             /\ In(k.snapshots) = In(d.snapshots) \cup {t}
             /\ (Distinct(d) /\ \A u \in In(d.snapshots) : u.sequence # n) => Distinct(k)
<1> DEFINE k == WithSnapshot(d, n, states, pvs)
           t == [sequence |-> n, states |-> states, pvs |-> pvs]
<1>1. /\ DOMAIN k = {"base", "pvs", "snapshots"}
      /\ k = [field \in DOMAIN k |-> k[field]]
      /\ k.base = d.base /\ k.pvs = d.pvs /\ k.snapshots = <<t>> \o d.snapshots
  BY DEF IsDelta, WithSnapshot
<1>2. t \in Snapshots /\ d.snapshots \in Seq(Snapshots) /\ t.sequence = n
  BY DEF IsDelta, Snapshots
<1> HIDE DEF k, t
<1>3. /\ k.snapshots \in Seq(Snapshots)
      /\ Len(k.snapshots) = Len(d.snapshots) + 1 /\ Len(d.snapshots) \in Nat
      /\ k.snapshots[1] = t
      /\ \A i \in 1 .. Len(d.snapshots) : k.snapshots[i + 1] = d.snapshots[i]
  BY <1>1, <1>2
<1>4. /\ DOMAIN k.snapshots = 1 .. Len(d.snapshots) + 1
      /\ DOMAIN d.snapshots = 1 .. Len(d.snapshots)
  BY <1>2, <1>3
<1>5. \A i \in DOMAIN k.snapshots :
        \/ i = 1
        \/ i - 1 \in DOMAIN d.snapshots /\ k.snapshots[i] = d.snapshots[i - 1]
  <2> TAKE i \in DOMAIN k.snapshots
  <2>1. CASE i = 1
    BY <2>1
  <2>2. CASE i # 1
    <3>1. i - 1 \in 1 .. Len(d.snapshots) /\ (i - 1) + 1 = i
      BY <1>3, <1>4, <2>2
    <3>2. k.snapshots[(i - 1) + 1] = d.snapshots[i - 1]
      BY <1>3, <3>1
    <3> QED BY <1>4, <3>1, <3>2
  <2> QED BY <2>1, <2>2
<1>6. \A i \in DOMAIN d.snapshots : i + 1 \in DOMAIN k.snapshots
  BY <1>3, <1>4
<1>7. 1 \in DOMAIN k.snapshots
  BY <1>3, <1>4
<1>8. In(k.snapshots) = In(d.snapshots) \cup {t}
  <2>1. \A i \in DOMAIN k.snapshots : k.snapshots[i] \in In(d.snapshots) \cup {t}
    BY <1>3, <1>5 DEF In
  <2>2. \A i \in DOMAIN d.snapshots : d.snapshots[i] \in In(k.snapshots)
    BY <1>3, <1>4, <1>6 DEF In
  <2>3. t \in In(k.snapshots)
    BY <1>3, <1>7 DEF In
  <2> QED BY <2>1, <2>2, <2>3 DEF In
<1>9. ASSUME Distinct(d), \A u \in In(d.snapshots) : u.sequence # n
      PROVE  Distinct(k)
  <2>1. \A i \in DOMAIN d.snapshots : d.snapshots[i].sequence # n
    BY <1>9 DEF In
  <2>2. ASSUME NEW i \in DOMAIN k.snapshots, NEW j \in DOMAIN k.snapshots,
               k.snapshots[i].sequence = k.snapshots[j].sequence
        PROVE  i = j
    <3>1. CASE i = 1 \/ j = 1
      BY <1>2, <1>3, <1>5, <2>1, <2>2, <3>1
    <3>2. CASE i # 1 /\ j # 1
      <4>1. i - 1 = j - 1
        BY <1>5, <1>9, <2>2, <3>2 DEF Distinct
      <4>2. i \in Int /\ j \in Int
        BY <1>4
      <4> QED BY <4>1, <4>2
    <3> QED BY <3>1, <3>2
  <2> QED BY <2>2 DEF Distinct
<1>10. IsDelta(k)
  BY <1>1, <1>3 DEF IsDelta
<1> QED BY <1>1, <1>8, <1>9, <1>10 DEF k, t

-----------------------------------------------------------------------------
(* The bases that the reliable messages on their way will give the client *)

Applies(q, i) == q[i].kind = "APPLYSNAPSHOT"

StartsAt(a, d) == a.base = d.base /\ a.pvs = d.pvs /\ a.held = In(d.snapshots)

\* What applying the snapshot of that number makes of a, which holds it.
Moves(a, b, sequence) ==
  /\ \E t \in a.held : /\ t.sequence = sequence
                       /\ b.base = Overlay(a.base, t.states) /\ b.pvs = t.pvs
  /\ b.held = {u \in a.held : u.sequence > sequence}

\* ch[i] is what becomes of d once the first i messages have been read.
Chain(ch, d, q) ==
  /\ StartsAt(ch[0], d)
  /\ \A i \in 1 .. Len(q) : IF Applies(q, i) THEN Moves(ch[i - 1], ch[i], q[i].sequence)
                            ELSE ch[i] = ch[i - 1]

LEMMA ChainShift ==
  ASSUME NEW d, NEW q \in Seq(Receipts), q # <<>>, NEW ch, Chain(ch, d, q),
         NEW e, StartsAt(ch[1], e)
  PROVE  Chain([i \in 0 .. Len(q) - 1 |-> ch[i + 1]], e, Tail(q))
<1> DEFINE new == [i \in 0 .. Len(q) - 1 |-> ch[i + 1]]
<1>1. Len(q) \in Nat /\ Len(q) >= 1 /\ Len(Tail(q)) = Len(q) - 1
  OBVIOUS
<1>2. \A i \in 1 .. Len(q) - 1 : Tail(q)[i] = q[i + 1]
  OBVIOUS
<1>3. new[0] = ch[1]
  <2>1. 0 \in 0 .. Len(q) - 1 /\ 0 + 1 = 1
    BY <1>1
  <2> QED BY <2>1
<1>4. ASSUME NEW i \in 1 .. Len(Tail(q))
      PROVE  IF Applies(Tail(q), i) THEN Moves(new[i - 1], new[i], Tail(q)[i].sequence)
             ELSE new[i] = new[i - 1]
  <2>1. /\ i \in 0 .. Len(q) - 1 /\ i - 1 \in 0 .. Len(q) - 1 /\ (i - 1) + 1 = i
        /\ i + 1 \in 1 .. Len(q) /\ (i + 1) - 1 = i
    BY <1>1
  <2>2. new[i] = ch[i + 1] /\ new[i - 1] = ch[i] /\ Tail(q)[i] = q[i + 1]
    BY <1>1, <1>2, <2>1
  <2>3. IF Applies(q, i + 1) THEN Moves(ch[(i + 1) - 1], ch[i + 1], q[i + 1].sequence)
        ELSE ch[i + 1] = ch[(i + 1) - 1]
    BY <2>1 DEF Chain
  <2> HIDE DEF new
  <2> QED BY <2>1, <2>2, <2>3 DEF Applies
<1> QED BY <1>3, <1>4 DEF Chain

\* One more element.
Extends(new, ch, n, a) == new[n + 1] = a /\ \A i \in 0 .. n : new[i] = ch[i]

LEMMA ChainAppend ==
  ASSUME NEW d, NEW q \in Seq(Receipts), NEW ch, Chain(ch, d, q), NEW r \in Receipts, NEW a,
         r.kind = "APPLYSNAPSHOT" => Moves(ch[Len(q)], a, r.sequence),
         r.kind # "APPLYSNAPSHOT" => a = ch[Len(q)]
  PROVE  \E new : Chain(new, d, Append(q, r)) /\ Extends(new, ch, Len(q), a)
<1> DEFINE new == [i \in 0 .. Len(q) + 1 |-> IF i = Len(q) + 1 THEN a ELSE ch[i]]
<1>1. Len(q) \in Nat /\ Len(Append(q, r)) = Len(q) + 1 /\ Append(q, r)[Len(q) + 1] = r
  OBVIOUS
<1>2. \A i \in 1 .. Len(q) : Append(q, r)[i] = q[i]
  OBVIOUS
<1>3. new[Len(q) + 1] = a /\ \A i \in 0 .. Len(q) : new[i] = ch[i]
  BY <1>1
<1> HIDE DEF new
<1>4. ASSUME NEW i \in 1 .. Len(q) + 1
      PROVE  IF Applies(Append(q, r), i) THEN Moves(new[i - 1], new[i], Append(q, r)[i].sequence)
             ELSE new[i] = new[i - 1]
  <2>1. i - 1 \in 0 .. Len(q)
    BY <1>1
  <2>2. CASE i = Len(q) + 1
    <3>1. i - 1 = Len(q)
      BY <1>1, <2>2
    <3>2. new[i] = a /\ new[i - 1] = ch[Len(q)] /\ Append(q, r)[i] = r
      BY <1>1, <1>3, <2>1, <2>2, <3>1
    <3> QED BY <3>2 DEF Applies
  <2>3. CASE i # Len(q) + 1
    <3>1. i \in 1 .. Len(q) /\ i \in 0 .. Len(q)
      BY <1>1, <2>3
    <3>2. IF Applies(q, i) THEN Moves(ch[i - 1], ch[i], q[i].sequence)
          ELSE ch[i] = ch[i - 1]
      BY <3>1 DEF Chain
    <3>3. new[i] = ch[i] /\ new[i - 1] = ch[i - 1] /\ Append(q, r)[i] = q[i]
      BY <1>2, <1>3, <2>1, <3>1
    <3> QED BY <3>2, <3>3 DEF Applies
  <2> QED BY <2>2, <2>3
<1>5. StartsAt(new[0], d)
  BY <1>1, <1>3 DEF Chain
<1>6. Chain(new, d, Append(q, r))
  BY <1>1, <1>4, <1>5 DEF Chain
<1>7. Extends(new, ch, Len(q), a)
  BY <1>3 DEF Extends
<1> QED BY <1>6, <1>7

\* The same, but for t which is held too.
Joined(new, ch, n, t) ==
  \A i \in 0 .. n : /\ new[i].base = ch[i].base
                    /\ new[i].pvs = ch[i].pvs
                    /\ new[i].held = ch[i].held \cup {t}

\* A snapshot newer than those to be applied is held all along.
LEMMA ChainAdd ==
  ASSUME NEW d, NEW q \in Seq(Receipts), NEW ch, Chain(ch, d, q), NEW t,
         t.sequence \in Nat,
         \A i \in DOMAIN q : Applies(q, i) => q[i].sequence < t.sequence,
         NEW e, e.base = d.base, e.pvs = d.pvs, In(e.snapshots) = In(d.snapshots) \cup {t}
  PROVE  \E new : Chain(new, e, q) /\ Joined(new, ch, Len(q), t)
<1> DEFINE new == [i \in 0 .. Len(q) |-> [base |-> ch[i].base, pvs |-> ch[i].pvs,
                                          held |-> ch[i].held \cup {t}]]
<1>1. Len(q) \in Nat /\ DOMAIN q = 1 .. Len(q)
  OBVIOUS
<1>2. \A i \in 0 .. Len(q) : /\ new[i] = [base |-> ch[i].base, pvs |-> ch[i].pvs,
                                          held |-> ch[i].held \cup {t}]
                             /\ new[i].base = ch[i].base
                             /\ new[i].pvs = ch[i].pvs
                             /\ new[i].held = ch[i].held \cup {t}
  OBVIOUS
<1> HIDE DEF new
<1>3. ASSUME NEW i \in 1 .. Len(q)
      PROVE  IF Applies(q, i) THEN Moves(new[i - 1], new[i], q[i].sequence)
             ELSE new[i] = new[i - 1]
  <2>1. i - 1 \in 0 .. Len(q) /\ i \in 0 .. Len(q) /\ i \in DOMAIN q
    BY <1>1
  <2>2. IF Applies(q, i) THEN Moves(ch[i - 1], ch[i], q[i].sequence)
        ELSE ch[i] = ch[i - 1]
    BY DEF Chain
  <2>3. CASE Applies(q, i)
    <3>1. Moves(ch[i - 1], ch[i], q[i].sequence)
      BY <2>2, <2>3
    <3>2. q[i].sequence < t.sequence /\ q[i].sequence \in Nat
      BY <1>1, <2>1, <2>3 DEF Applies, Receipts
    <3>3. PICK x \in ch[i - 1].held :
            /\ x.sequence = q[i].sequence
            /\ ch[i].base = Overlay(ch[i - 1].base, x.states) /\ ch[i].pvs = x.pvs
      BY <3>1 DEF Moves
    <3>4. \E v \in new[i - 1].held :
            /\ v.sequence = q[i].sequence
            /\ new[i].base = Overlay(new[i - 1].base, v.states) /\ new[i].pvs = v.pvs
      BY <1>2, <2>1, <3>3
    <3>5. t.sequence > q[i].sequence
      BY <3>2
    <3>6. ch[i].held = {u \in ch[i - 1].held : u.sequence > q[i].sequence}
      BY <3>1 DEF Moves
    <3>7. new[i].held = {u \in new[i - 1].held : u.sequence > q[i].sequence}
      BY ZenonT(60), <1>2, <2>1, <3>5, <3>6
    <3> QED BY <2>3, <3>4, <3>7 DEF Moves
  <2>4. CASE ~Applies(q, i)
    <3>1. ch[i] = ch[i - 1]
      BY <2>2, <2>4
    <3> QED BY <1>2, <2>1, <2>4, <3>1
  <2> QED BY <2>3, <2>4
<1>4. StartsAt(new[0], e)
  <2>1. 0 \in 0 .. Len(q)
    BY <1>1
  <2> QED BY <1>2, <2>1 DEF Chain, StartsAt
<1>5. Chain(new, e, q)
  BY <1>3, <1>4 DEF Chain
<1>6. Joined(new, ch, Len(q), t)
  BY <1>2 DEF Joined
<1> QED BY <1>5, <1>6

LEMMA ChainConstant ==
  ASSUME NEW d, NEW q \in Seq(Receipts), \A i \in DOMAIN q : ~Applies(q, i)
  PROVE  \E ch : Chain(ch, d, q) /\ \A i \in 0 .. Len(q) : StartsAt(ch[i], d)
<1> DEFINE a == [base |-> d.base, pvs |-> d.pvs, held |-> In(d.snapshots)]
           ch == [i \in 0 .. Len(q) |-> a]
<1>1. StartsAt(a, d)
  BY DEF StartsAt
<1>2. Len(q) \in Nat /\ DOMAIN q = 1 .. Len(q)
  OBVIOUS
<1> HIDE DEF a
<1>3. \A i \in 0 .. Len(q) : ch[i] = a
  OBVIOUS
<1>4. \A i \in 1 .. Len(q) : i \in 0 .. Len(q) /\ i - 1 \in 0 .. Len(q)
  BY <1>2
<1>5. 0 \in 0 .. Len(q)
  BY <1>2
<1> HIDE DEF ch
<1>6. Chain(ch, d, q)
  BY <1>1, <1>2, <1>3, <1>4, <1>5 DEF Chain
<1> QED BY <1>1, <1>3, <1>6

-----------------------------------------------------------------------------
(* The inductive invariant *)

InGame == clientState = "SCS_INGAME"

\* The game the client is in, or will be with the connect response.
Entered == IF Connected THEN myGameInitId ELSE offered

Types ==
  /\ gameInitId \in Nat /\ gameInitId > 0
  /\ pure \in BOOLEAN /\ havePaks \in BOOLEAN
  /\ session \in Nat /\ session > 0
  /\ offered \in Nat /\ 0 < offered /\ offered <= gameInitId
  /\ clientState \in States
  /\ gameInitSequence \in Nat /\ snapshotSequence \in Nat /\ mySnapshotSequence \in Nat
  /\ \/ myGameInitId = GAME_INIT_ID_INVALID
     \/ myGameInitId \in Nat /\ offered <= myGameInitId /\ myGameInitId <= gameInitId
  /\ loadedGame \in Nat /\ (loadedGame = 0 \/ loadedGame <= myGameInitId)
  /\ IsDelta(serverDelta) /\ IsDelta(clientDelta)
  /\ failed \in BOOLEAN /\ misread \in BOOLEAN /\ reloaded \in BOOLEAN
  /\ bound \in Bounds

\* A snapshot in a message: what the player could see, either written or as in
\* the base it was written against.
Faithful(enc) ==
  /\ enc.states \in Pictures
  /\ enc.pvs \in SUBSET Entity
  /\ enc.truth = [e \in enc.pvs |-> IF e \in DOMAIN enc.states THEN enc.states[e]
                                    ELSE enc.from.base[e]]

ServerBody(b) ==
  \/ b.kind = "EMPTY"
  \/ b.kind = "GAMEINIT" /\ b.game \in Nat /\ b.pure \in BOOLEAN
  \/ b.kind = "SNAPSHOT" /\ b.game \in Nat /\ b.sequence \in Nat /\ Faithful(b.enc)

ClientBody(b) ==
  /\ b.kind = "CLIENT" /\ b.ack \in Nat /\ b.snap \in Nat
  /\ b.game = GAME_INIT_ID_MAP_LOAD \/ b.game \in Nat

Wires ==
  /\ CarrierOK(down) /\ CarrierOK(up)
  /\ \A p \in Under(down) : ServerBody(p.body)
  /\ \A p \in Under(up) : ClientBody(p.body)
  /\ ~(Busy(down) /\ Busy(up))
  /\ \A i \in DOMAIN up.reliable : up.reliable[i].kind = "PURE"
  /\ ~Connected => /\ up.net = {} /\ ~Busy(up) /\ up.reliable = <<>>
                   /\ down.last = 0 /\ ~Busy(down)

IsInit(p) == p.body.kind = "GAMEINIT"
IsSnapshot(p) == p.body.kind = "SNAPSHOT"
FromMapLoad(p) == p.body.game = GAME_INIT_ID_MAP_LOAD

\* A GAMEINIT that is still to be read is for a game to come, and the server does
\* not send another for the same game.
Inits ==
  /\ \A p \in Under(down) : IsInit(p) =>
       /\ Entered < p.body.game /\ p.body.game <= gameInitId
       /\ p.body.game = gameInitId => p.seq <= gameInitSequence /\ p.body.pure = pure
  /\ \A p, r \in Under(down) :
       IsInit(p) /\ IsInit(r) /\ p.seq < r.seq => p.body.game < r.body.game
  /\ \A p \in Under(up) :
       /\ p.body.ack <= down.last
       /\ ~FromMapLoad(p) => 0 < p.body.game /\ p.body.game <= myGameInitId
       /\ (/\ ~FromMapLoad(p) /\ p.body.game # gameInitId
           /\ p.body.ack > gameInitSequence) => myGameInitId # gameInitId

\* A pure server without a list for its clients.
Unlisted == pure /\ ~havePaks

\* Who is let into the game has loaded its map, or waits for a list in vain.
Loaded ==
  /\ InGame => myGameInitId = gameInitId
  /\ clientState # "SCS_PUREWAIT" /\ myGameInitId = gameInitId =>
       loadedGame = gameInitId \/ Unlisted
  /\ clientState # "SCS_PUREWAIT" /\ pure /\ havePaks => Entered = gameInitId

\* The answers on their way: at most one is for this game.
Answers ==
  \A i \in DOMAIN up.reliable :
    /\ up.reliable[i].game <= myGameInitId
    /\ up.reliable[i].game = myGameInitId => loadedGame = myGameInitId
    /\ up.reliable[i].game = gameInitId =>
         /\ clientState = "SCS_PUREWAIT"
         /\ \A j \in DOMAIN up.reliable : up.reliable[j].game = gameInitId => i = j

IsList(q, i) == q[i].kind = "PURE"

\* The lists on their way: at most one is for this game, and it comes before the
\* client can ask for another GAMEINIT.
Lists ==
  \A i \in DOMAIN down.reliable : IsList(down.reliable, i) =>
    /\ offered < down.reliable[i].game /\ down.reliable[i].game <= gameInitId
    /\ down.reliable[i].game = gameInitId =>
         /\ pure /\ havePaks
         /\ \A p \in Under(down) : p.seq > gameInitSequence => p.upTo >= down.read + i
         /\ ~Busy(down) => down.last <= gameInitSequence
         /\ myGameInitId = gameInitId =>
              /\ clientState = "SCS_PUREWAIT"
              /\ \A j \in DOMAIN up.reliable : up.reliable[j].game # gameInitId
         /\ \A j \in DOMAIN down.reliable :
              IsList(down.reliable, j) /\ down.reliable[j].game = gameInitId => i = j

\* The numbers of snapshots, here and in messages.
Sequences ==
  /\ Distinct(serverDelta) /\ Distinct(clientDelta)
  /\ mySnapshotSequence < snapshotSequence
  /\ \A u \in In(serverDelta.snapshots) : u.sequence < snapshotSequence
  /\ \A u \in In(clientDelta.snapshots) : u.sequence <= mySnapshotSequence
  /\ \A p \in Under(up) : p.body.snap <= mySnapshotSequence
  /\ \A i \in DOMAIN down.reliable : Applies(down.reliable, i) =>
       down.reliable[i].sequence <= mySnapshotSequence
  /\ \A p \in Under(down) : IsSnapshot(p) =>
       mySnapshotSequence < p.body.sequence /\ p.body.sequence < snapshotSequence
  /\ \A p, r \in Under(down) :
       IsSnapshot(p) /\ IsSnapshot(r) /\ p.seq < r.seq => p.body.sequence < r.body.sequence

\* The snapshots on their way.
Flying ==
  \A p \in Under(down) : IsSnapshot(p) =>
    /\ p.body.game <= myGameInitId
    /\ p.body.game = gameInitId =>
         /\ InGame
         /\ \A u \in In(serverDelta.snapshots) :
              u.sequence = p.body.sequence =>
                u.states = p.body.enc.states /\ u.pvs = p.body.enc.pvs
    /\ p.body.game = myGameInitId =>
         \A i \in DOMAIN down.reliable :
           IsList(down.reliable, i) => down.reliable[i].game # myGameInitId

\* No word to apply a snapshot waits behind what starts a game anew.
Queues ==
  /\ \A i, j \in DOMAIN down.reliable :
       /\ IsList(down.reliable, i) /\ down.reliable[i].game >= myGameInitId
       /\ i < j
       => ~Applies(down.reliable, j)
  /\ \A p \in Under(down) : IsInit(p) =>
       \A j \in DOMAIN down.reliable : down.read + j > p.upTo => ~Applies(down.reliable, j)
  /\ ~Connected => \A j \in DOMAIN down.reliable : ~Applies(down.reliable, j)
  /\ ~InGame => serverDelta = Cleared
  /\ ~InGame /\ myGameInitId = gameInitId /\ loadedGame = gameInitId =>
       /\ clientDelta = Cleared
       /\ \A j \in DOMAIN down.reliable : ~Applies(down.reliable, j)

\* Where the bases and what is held end up, when all is read.  A client that waits
\* for a list in vain holds what it is told to apply, whatever it made of it.
EndsEqual(end) ==
  InGame =>
    /\ Settled =>
         /\ end.base = serverDelta.base /\ end.pvs = serverDelta.pvs
         /\ \A t \in end.held, u \in In(serverDelta.snapshots) :
              t.sequence = u.sequence => t = u
    /\ \A u \in In(serverDelta.snapshots) :
         /\ u.sequence = mySnapshotSequence => \E t \in end.held : t.sequence = u.sequence
         /\ \A p \in Under(up) : p.body.game = gameInitId /\ p.body.snap = u.sequence =>
              \E t \in end.held : t.sequence = u.sequence

Readable(p, a) == p.body.enc.from.base = a.base /\ p.body.enc.from.pvs = a.pvs

Chained(ch) ==
  /\ Chain(ch, clientDelta, down.reliable)
  /\ EndsEqual(ch[Len(down.reliable)])
  /\ \A p \in Under(down) : IsSnapshot(p) /\ p.body.game = myGameInitId /\ Settled =>
       Readable(p, ch[p.upTo - down.read])

Synced ==
  ~failed /\ ~misread /\ Sequences /\ Flying /\ Queues /\ \E ch : Chained(ch)

InStep == FirstSession => Synced

IInv == Types /\ Wires /\ Inits /\ Loaded /\ Answers /\ Lists /\ ~reloaded /\ InStep

-----------------------------------------------------------------------------
(* What the steps do to the two directions *)

Like(c, e) == e.last = c.last /\ e.upTo = c.upTo /\ e.read = c.read /\ (Busy(e) <=> Busy(c))

NextPacket(c, b) == [seq |-> c.next, upTo |-> c.read + Len(c.reliable), body |-> b]

LEMMA SentEffect ==
  ASSUME NEW c, CarrierOK(c), NEW b
  PROVE  /\ CarrierOK(Sent(c, b)) /\ Like(c, Sent(c, b))
         /\ Sent(c, b).reliable = c.reliable /\ Sent(c, b).net = c.net \cup {NextPacket(c, b)}
         /\ Under(Sent(c, b)) = Under(c) \cup {NextPacket(c, b)}
         /\ NextPacket(c, b).body = b /\ NextPacket(c, b).seq = c.next
         /\ NextPacket(c, b).upTo = c.read + Len(c.reliable)
         /\ c.last < c.next /\ c.last \in Nat /\ c.next \in Nat
         /\ \A p \in Under(c) : p.seq < c.next
<1>1. NextPacket(c, b).body = b /\ NextPacket(c, b).seq = c.next
      /\ NextPacket(c, b).upTo = c.read + Len(c.reliable)
  BY DEF NextPacket
<1>2. CarrierOK(Sent(c, b)) /\ IsCarrier(c)
  BY SentOK DEF CarrierOK, Numbered
<1>3. /\ Like(c, Sent(c, b)) /\ Sent(c, b).reliable = c.reliable
      /\ Sent(c, b).net = c.net \cup {NextPacket(c, b)}
      /\ Under(Sent(c, b)) = Under(c) \cup {NextPacket(c, b)}
  BY <1>2, SentFields DEF Like, NextPacket
<1>4. c.last < c.next /\ c.last \in Nat /\ c.next \in Nat /\ \A p \in Under(c) : p.seq < c.next
  BY DEF CarrierOK, Numbered, Ordered
<1> QED BY <1>1, <1>2, <1>3, <1>4

LEMMA QueuedEffect ==
  ASSUME NEW c, CarrierOK(c), NEW r \in Receipts
  PROVE  /\ CarrierOK(Queued(c, r)) /\ Like(c, Queued(c, r))
         /\ Queued(c, r).reliable = Append(c.reliable, r)
         /\ Under(Queued(c, r)) = Under(c) /\ Queued(c, r).net = c.net
<1>1. CarrierOK(Queued(c, r)) /\ IsCarrier(c)
  BY QueuedOK DEF CarrierOK, Numbered
<1> QED BY <1>1, QueuedFields DEF Like

LEMMA HandedUpEffect ==
  ASSUME NEW c, CarrierOK(c), ~Busy(c), NEW m \in c.net, m.body # NoMsg
  PROVE  LET h == HandedUp(c, m)
         IN  /\ CarrierOK(h) /\ Busy(h) /\ Under(h) \subseteq Under(c)
             /\ m \in Under(h) /\ m \in Under(c) /\ m.seq > c.last
             /\ h.last = m.seq /\ h.upTo = m.upTo
             /\ h.read = c.read /\ h.reliable = c.reliable /\ h.msg = m.body
<1>1. IsCarrier(c)
  BY DEF CarrierOK, Numbered
<1> QED BY <1>1, HandedUpOK, HandedUpFields

LEMMA ReadEffect ==
  ASSUME NEW c, CarrierOK(c), HasReliable(c)
  PROVE  LET h == ReadReliable(c)
         IN  /\ CarrierOK(h) /\ Busy(h) /\ Busy(c) /\ Under(h) = Under(c)
             /\ h.last = c.last /\ h.upTo = c.upTo /\ h.read = c.read + 1
             /\ h.reliable = Tail(c.reliable)
             /\ c.reliable # <<>> /\ Head(c.reliable) \in Receipts
             /\ Len(h.reliable) = Len(c.reliable) - 1
<1>1. IsCarrier(c) /\ Busy(c)
  BY DEF CarrierOK, Numbered, HasReliable
<1> QED BY <1>1, ReadOK, ReadFields

LEMMA DoneEffect ==
  ASSUME NEW c, CarrierOK(c), AtUnreliable(c)
  PROVE  LET h == Done(c)
         IN  /\ CarrierOK(h) /\ ~Busy(h) /\ Busy(c) /\ Under(h) \subseteq Under(c)
             /\ h.net = c.net
             /\ \A p \in Under(h) : p.seq > c.last
             /\ AtHand(c) \in Under(c) /\ AtHand(c).body = c.msg /\ AtHand(c).seq = c.last
             /\ AtHand(c).upTo = c.read
             /\ h.last = c.last /\ h.upTo = c.upTo /\ h.read = c.read
             /\ h.reliable = c.reliable
<1>1. IsCarrier(c) /\ Busy(c) /\ c.read = c.upTo
  BY DEF CarrierOK, Numbered, AtUnreliable
<1>2. AtHand(c).body = c.msg /\ AtHand(c).seq = c.last /\ AtHand(c).upTo = c.read
  BY <1>1 DEF AtHand
<1>3. \A p \in c.net : p.seq > c.last
  BY DEF CarrierOK, Ordered
<1> QED BY <1>1, <1>2, <1>3, DoneOK, DoneFields

LEMMA ReceiptsAre ==
  /\ \A game \in Nat : PureMsg(game) \in Receipts /\ PureMsg(game).kind = "PURE"
                       /\ PureMsg(game).game = game
  /\ \A n \in Nat : /\ ApplySnapshotMsg(n) \in Receipts
                    /\ ApplySnapshotMsg(n).kind = "APPLYSNAPSHOT"
                    /\ ApplySnapshotMsg(n).sequence = n
  /\ \A r \in Receipts : \/ r.kind = "APPLYSNAPSHOT" /\ r.sequence \in Nat
                         \/ r.kind = "PURE" /\ r.game \in Nat
BY DEF Receipts, PureMsg, ApplySnapshotMsg

\* The lists' items, after one is appended or the first is taken out.
LEMMA AppendItems ==
  ASSUME NEW S, NEW q \in Seq(S), NEW r \in S
  PROVE  /\ Append(q, r) \in Seq(S) /\ Len(Append(q, r)) = Len(q) + 1 /\ Len(q) \in Nat
         /\ DOMAIN Append(q, r) = 1 .. Len(q) + 1 /\ DOMAIN q = 1 .. Len(q)
         /\ \A i \in DOMAIN Append(q, r) :
              \/ i \in DOMAIN q /\ Append(q, r)[i] = q[i]
              \/ i = Len(q) + 1 /\ Append(q, r)[i] = r
         /\ \A i \in DOMAIN q : i \in DOMAIN Append(q, r) /\ i <= Len(q)
OBVIOUS

LEMMA TailItems ==
  ASSUME NEW S, NEW q \in Seq(S), q # <<>>
  PROVE  /\ Tail(q) \in Seq(S) /\ Len(Tail(q)) = Len(q) - 1 /\ Len(q) \in Nat
         /\ \A i \in DOMAIN Tail(q) : i \in Nat /\ i + 1 \in DOMAIN q /\ Tail(q)[i] = q[i + 1]
         /\ 1 \in DOMAIN q /\ Head(q) = q[1] /\ q[1] \in S
OBVIOUS

LEMMA InitSent ==
  ASSUME Wires, NEW game \in Nat, NEW list \in BOOLEAN, NEW paks \in BOOLEAN,
         SendGameInitToClient(game, list, paks)
  PROVE  /\ CarrierOK(down') /\ Like(down, down')
         /\ Under(down') = Under(down) \cup {NextPacket(down, GameInitMsg(game, list))}
         /\ down'.reliable = IF list /\ paks THEN Append(down.reliable, PureMsg(game))
                             ELSE down.reliable
         /\ clientState' = IF list /\ paks THEN "SCS_PUREWAIT" ELSE "SCS_CONNECTED"
         /\ gameInitSequence' \in Nat /\ gameInitSequence' >= down.next
<1> DEFINE init == Sent(down, GameInitMsg(game, list))
<1>1. CarrierOK(down) /\ down.next \in Nat
  BY DEF Wires, CarrierOK, Numbered
<1>2. /\ CarrierOK(init) /\ Like(down, init) /\ init.reliable = down.reliable
      /\ Under(init) = Under(down) \cup {NextPacket(down, GameInitMsg(game, list))}
  BY <1>1, SentEffect
<1>3. down' = IF list /\ paks THEN Queued(init, PureMsg(game)) ELSE init
  BY DEF SendGameInitToClient
<1>4. gameInitSequence' \in Nat /\ gameInitSequence' >= down.next
  BY <1>1 DEF SendGameInitToClient
<1>5. clientState' = IF list /\ paks THEN "SCS_PUREWAIT" ELSE "SCS_CONNECTED"
  BY DEF SendGameInitToClient
<1> HIDE DEF init
<1>6. PureMsg(game) \in Receipts
  BY ReceiptsAre
<1>7. CASE list /\ paks
  <2>1. /\ CarrierOK(Queued(init, PureMsg(game))) /\ Like(init, Queued(init, PureMsg(game)))
        /\ Queued(init, PureMsg(game)).reliable = Append(init.reliable, PureMsg(game))
        /\ Under(Queued(init, PureMsg(game))) = Under(init)
    BY <1>2, <1>6, QueuedEffect
  <2> QED BY <1>2, <1>3, <1>4, <1>5, <1>7, <2>1 DEF Like
<1>8. CASE ~(list /\ paks)
  BY <1>2, <1>3, <1>4, <1>5, <1>8
<1> QED BY <1>7, <1>8

-----------------------------------------------------------------------------
(* Types, and well-formed directions *)

LEMMA BodiesAre ==
  ASSUME Wires
  PROVE  /\ \A p \in down.net : p \in Under(down) /\ p.body # NoMsg
         /\ \A p \in up.net : p \in Under(up) /\ p.body # NoMsg
<1>1. /\ \A p \in down.net : p \in Under(down)
      /\ \A p \in up.net : p \in Under(up)
  BY DEF Under
<1>2. NoMsg.kind = "none"
  BY DEF NoMsg
<1>3. \A p \in Under(down) : p.body.kind # "none"
  BY DEF Wires, ServerBody
<1>4. \A p \in Under(up) : p.body.kind # "none"
  BY DEF Wires, ClientBody
<1> QED BY <1>1, <1>2, <1>3, <1>4

LEMMA MapChangeBasics ==
  ASSUME IInv, NEW list \in BOOLEAN, NEW paks \in BOOLEAN, ExecuteMapChange(list, paks)
  PROVE  Types' /\ Wires'
<1>0. Types /\ Wires /\ gameInitId + 1 \in Nat
  BY DEF IInv, Types
<1>1. /\ gameInitId' = gameInitId + 1 /\ pure' = list
      /\ SendGameInitToClient(gameInitId + 1, list, paks) /\ serverDelta' = Cleared
      /\ Idle
      /\ bound' = bound /\ havePaks' = paks /\ session' = session /\ offered' = offered
      /\ snapshotSequence' = snapshotSequence /\ reloaded' = reloaded
      /\ myGameInitId' = myGameInitId /\ loadedGame' = loadedGame
      /\ mySnapshotSequence' = mySnapshotSequence /\ clientDelta' = clientDelta
      /\ failed' = failed /\ misread' = misread /\ up' = up
  BY DEF ExecuteMapChange, MapLoaded, connectVars, clientVars
<1>2. /\ CarrierOK(down') /\ Like(down, down')
      /\ Under(down') = Under(down) \cup {NextPacket(down, GameInitMsg(gameInitId + 1, list))}
      /\ clientState' = IF list /\ paks THEN "SCS_PUREWAIT" ELSE "SCS_CONNECTED"
      /\ gameInitSequence' \in Nat /\ gameInitSequence' >= down.next
  BY <1>0, <1>1, InitSent
<1>3. clientState' \in States
  BY <1>2 DEF States
<1>4. Types'
  BY <1>0, <1>1, <1>2, <1>3, ClearedFacts DEF Types
<1>5. ServerBody(NextPacket(down, GameInitMsg(gameInitId + 1, list)).body)
  <2>1. NextPacket(down, GameInitMsg(gameInitId + 1, list)).body = GameInitMsg(gameInitId + 1, list)
    BY DEF NextPacket
  <2>2. /\ GameInitMsg(gameInitId + 1, list).kind = "GAMEINIT"
        /\ GameInitMsg(gameInitId + 1, list).game = gameInitId + 1
        /\ GameInitMsg(gameInitId + 1, list).pure = list
    BY DEF GameInitMsg
  <2> QED BY <1>0, <2>1, <2>2 DEF ServerBody
<1>6. \A p \in Under(down') : ServerBody(p.body)
  BY <1>0, <1>2, <1>5 DEF Wires
<1>7. Wires'
  BY <1>0, <1>1, <1>2, <1>6 DEF Wires, Like, Connected, Idle
<1> QED BY <1>4, <1>7

LEMMA SendEmptyBasics ==
  ASSUME IInv, SendEmptyToClient
  PROVE  Types' /\ Wires'
<1>0. Types /\ Wires
  BY DEF IInv
<1>1. /\ down' = Sent(down, EmptyMsg) /\ UNCHANGED <<serverVars, clientVars, up>>
  BY DEF SendEmptyToClient
<1>2. /\ CarrierOK(down') /\ Like(down, down')
      /\ Under(down') = Under(down) \cup {NextPacket(down, EmptyMsg)}
      /\ NextPacket(down, EmptyMsg).body = EmptyMsg
  BY <1>0, <1>1, SentEffect DEF Wires
<1>3. Types'
  BY <1>0, <1>1 DEF Types, serverVars, clientVars, connectVars
<1>4. ServerBody(EmptyMsg)
  BY DEF ServerBody, EmptyMsg
<1>5. Wires'
  BY <1>0, <1>1, <1>2, <1>4 DEF Wires, Like, Connected, clientVars
<1> QED BY <1>3, <1>5

LEMMA EncodedFacts ==
  ASSUME NEW d, NEW E \in SUBSET Entity, NEW world \in [E -> State], NEW pvs \in SUBSET E
  PROVE  LET enc == Encoded(d, world, pvs)
         IN  /\ Faithful(enc) /\ enc.pvs = pvs
             /\ enc.from.base = d.base /\ enc.from.pvs = d.pvs
<1> DEFINE enc == Encoded(d, world, pvs)
           W == Written(d, world, pvs)
<1>1. /\ enc.states = [e \in W |-> world[e]] /\ enc.pvs = pvs
      /\ enc.from.base = d.base /\ enc.from.pvs = d.pvs
      /\ enc.truth = [e \in pvs |-> world[e]]
  BY DEF Encoded
<1>2. W \in SUBSET Entity /\ \A e \in pvs : e \notin W => world[e] = d.base[e]
  BY DEF Written
<1>3. W \subseteq pvs /\ \A e \in pvs : world[e] \in State
  BY DEF Written
<1> HIDE DEF enc, W
<1>4. enc.states \in Pictures
  <2>1. [e \in W |-> world[e]] \in [W -> State \cup {Garbage}]
    BY <1>3
  <2> QED BY <1>1, <1>2, <2>1 DEF Pictures
<1>5. DOMAIN enc.states = W /\ \A e \in W : enc.states[e] = world[e]
  BY <1>1
<1>6. enc.truth = [e \in enc.pvs |-> IF e \in DOMAIN enc.states THEN enc.states[e]
                                     ELSE enc.from.base[e]]
  BY <1>1, <1>2, <1>5
<1> QED BY <1>1, <1>4, <1>6 DEF Faithful, enc

\* The step in the words of the lemmas above.
LEMMA SendSnapshotEffect ==
  ASSUME IInv, NEW world \in [bound.entities -> State], NEW pvs \in SUBSET bound.entities,
         SendSnapshotToClient(world, pvs)
  PROVE  \E d, enc :
           /\ d = FreeSnapshotsOlderThanSequence(serverDelta, snapshotSequence - SnapshotBackup)
           /\ IsDelta(d) /\ d.base = serverDelta.base /\ d.pvs = serverDelta.pvs
           /\ In(d.snapshots) \subseteq In(serverDelta.snapshots)
           /\ Distinct(serverDelta) => Distinct(d)
           /\ Faithful(enc) /\ enc.from.base = d.base /\ enc.from.pvs = d.pvs
           /\ enc.pvs = pvs /\ pvs \in SUBSET (Entity \cup {Garbage})
           /\ serverDelta' = WithSnapshot(d, snapshotSequence, enc.states, pvs)
           /\ down' = Sent(down, SnapshotMsg(gameInitId, snapshotSequence, enc))
           /\ snapshotSequence' = snapshotSequence + 1
           /\ InGame /\ Idle
<1> DEFINE d == FreeSnapshotsOlderThanSequence(serverDelta, snapshotSequence - SnapshotBackup)
           enc == Encoded(d, world, pvs)
<1>1. /\ snapshotSequence \in Nat /\ IsDelta(serverDelta) /\ bound \in Bounds
  BY DEF IInv, Types
<1>2. snapshotSequence - SnapshotBackup \in Int
  BY <1>1, GameSyncAssumption
<1>3. /\ IsDelta(d) /\ d.base = serverDelta.base /\ d.pvs = serverDelta.pvs
      /\ In(d.snapshots) = {u \in In(serverDelta.snapshots) :
                              u.sequence >= snapshotSequence - SnapshotBackup}
      /\ Distinct(serverDelta) => Distinct(d)
  BY <1>1, <1>2, FreeFacts
<1>4. bound.entities \in SUBSET Entity
  BY <1>1, GameSyncAssumption
<1>5. /\ Faithful(enc) /\ enc.pvs = pvs /\ enc.from.base = d.base /\ enc.from.pvs = d.pvs
  <2> HIDE DEF d
  <2>1. PICK E : E = bound.entities
    OBVIOUS
  <2>2. E \in SUBSET Entity /\ world \in [E -> State] /\ pvs \in SUBSET E
    BY <1>4, <2>1
  <2> QED BY <2>2, EncodedFacts
<1>6. pvs \in SUBSET (Entity \cup {Garbage})
  BY <1>4
<1>7. /\ serverDelta' = WithSnapshot(d, snapshotSequence, enc.states, pvs)
      /\ down' = Sent(down, SnapshotMsg(gameInitId, snapshotSequence, enc))
      /\ snapshotSequence' = snapshotSequence + 1
      /\ clientState = "SCS_INGAME" /\ Idle
  BY DEF SendSnapshotToClient
<1>8. In(d.snapshots) \subseteq In(serverDelta.snapshots)
  BY <1>3
<1> QED BY <1>3, <1>5, <1>6, <1>7, <1>8 DEF InGame

LEMMA SendSnapshotBasics ==
  ASSUME IInv, NEW world \in [bound.entities -> State], NEW pvs \in SUBSET bound.entities,
         SendSnapshotToClient(world, pvs)
  PROVE  Types' /\ Wires'
<1>0. Types /\ Wires
  BY DEF IInv
<1>1. PICK d, enc :
           /\ IsDelta(d)
           /\ Faithful(enc) /\ enc.pvs = pvs /\ pvs \in SUBSET (Entity \cup {Garbage})
           /\ serverDelta' = WithSnapshot(d, snapshotSequence, enc.states, pvs)
           /\ down' = Sent(down, SnapshotMsg(gameInitId, snapshotSequence, enc))
           /\ snapshotSequence' = snapshotSequence + 1
  BY SendSnapshotEffect
<1>2. UNCHANGED <<bound, havePaks, gameInitId, pure, connectVars, clientState,
                  gameInitSequence, reloaded, clientVars, up>>
  BY DEF SendSnapshotToClient
<1>3. IsDelta(serverDelta')
  BY <1>0, <1>1, WithFacts DEF Types, Faithful
<1>4. Types'
  BY <1>0, <1>1, <1>2, <1>3 DEF Types, clientVars, connectVars
<1> DEFINE b == SnapshotMsg(gameInitId, snapshotSequence, enc)
<1>5. /\ CarrierOK(down') /\ Like(down, down')
      /\ Under(down') = Under(down) \cup {NextPacket(down, b)}
      /\ NextPacket(down, b).body = b
  BY <1>0, <1>1, SentEffect DEF Wires
<1>6. b.kind = "SNAPSHOT" /\ b.game = gameInitId /\ b.sequence = snapshotSequence /\ b.enc = enc
  BY DEF SnapshotMsg
<1> HIDE DEF b
<1>7. ServerBody(b)
  BY <1>0, <1>1, <1>6 DEF ServerBody, Types
<1>8. Wires'
  BY <1>0, <1>2, <1>5, <1>7 DEF Wires, Like, Connected, clientVars
<1> QED BY <1>4, <1>8

LEMMA ReconnectEffect ==
  ASSUME IInv, ProcessConnectMessage
  PROVE  /\ session' = session + 1 /\ offered' = gameInitId
         /\ clientState' = "SCS_CONNECTED" /\ gameInitSequence' = 1 /\ snapshotSequence' = 1
         /\ serverDelta' = serverDelta /\ down' = NewCarrier /\ up' = NewCarrier
         /\ myGameInitId' = GAME_INIT_ID_INVALID /\ loadedGame' = 0
         /\ mySnapshotSequence' = 0 /\ clientDelta' = Cleared
         /\ UNCHANGED <<bound, havePaks, gameInitId, pure, reloaded, failed, misread>>
         /\ CarrierOK(down') /\ CarrierOK(up') /\ Under(down') = {} /\ Under(up') = {}
         /\ ~Busy(down') /\ ~Busy(up') /\ down'.reliable = <<>> /\ up'.reliable = <<>>
         /\ down'.last = 0 /\ up'.net = {}
<1>1. down' = NewCarrier /\ up' = NewCarrier
  BY DEF ProcessConnectMessage
<1> QED BY <1>1, NewCarrierOK DEF ProcessConnectMessage, SlotTaken

LEMMA ReconnectBasics ==
  ASSUME IInv, ProcessConnectMessage
  PROVE  Types' /\ Wires'
<1>0. Types /\ Wires
  BY DEF IInv
<1>1. Types'
  BY <1>0, ReconnectEffect, ClearedFacts DEF Types, States
<1>2. Wires'
  BY <1>0, ReconnectEffect DEF Wires
<1> QED BY <1>1, <1>2

LEMMA ServerReceiveEffect ==
  ASSUME IInv, ServerReceive
  PROVE  /\ Idle /\ UNCHANGED <<serverVars, down, clientVars>>
         /\ CarrierOK(up') /\ Busy(up') /\ Under(up') \subseteq Under(up)
         /\ up'.reliable = up.reliable /\ Connected
<1>0. Wires
  BY DEF IInv
<1>1. PICK m \in up.net : up' = HandedUp(up, m)
  BY DEF ServerReceive
<1>2. ~Busy(up) /\ m.body # NoMsg /\ CarrierOK(up) /\ Idle
  BY <1>0, BodiesAre DEF ServerReceive, Idle, Wires
<1>3. Connected
  BY <1>0 DEF Wires
<1> QED BY <1>1, <1>2, <1>3, HandedUpEffect DEF ServerReceive

LEMMA ServerReceiveBasics ==
  ASSUME IInv, ServerReceive
  PROVE  Types' /\ Wires'
<1>0. Types /\ Wires
  BY DEF IInv
<1>1. UNCHANGED <<serverVars, clientVars>>
  BY ServerReceiveEffect
<1>2. Types'
  BY <1>0, <1>1 DEF Types, serverVars, clientVars, connectVars
<1>3. Wires'
  BY <1>0, <1>1, ServerReceiveEffect DEF Wires, Connected, clientVars, Idle
<1> QED BY <1>2, <1>3

LEMMA ReadAnswerEffect ==
  ASSUME IInv, ProcessReliablePure
  PROVE  /\ CarrierOK(up') /\ Busy(up') /\ Busy(up) /\ Under(up') = Under(up)
         /\ up.reliable \in Seq(Receipts) /\ up.reliable # <<>>
         /\ up'.reliable = Tail(up.reliable)
         /\ up.reliable[1].kind = "PURE" /\ up.reliable[1].game \in Nat
         /\ IF up.reliable[1].game # gameInitId
              THEN UNCHANGED <<clientState, reloaded>>
              ELSE /\ clientState' = "SCS_CONNECTED"
                   /\ reloaded' = (reloaded \/ clientState # "SCS_PUREWAIT")
         /\ UNCHANGED <<bound, havePaks, gameInitId, pure, connectVars, gameInitSequence,
                        snapshotSequence, serverDelta, down, clientVars>>
<1>0. Wires
  BY DEF IInv
<1>1. HasReliable(up) /\ up' = ReadReliable(up) /\ CarrierOK(up)
  BY <1>0 DEF ProcessReliablePure, Wires
<1>2. /\ CarrierOK(up') /\ Busy(up') /\ Busy(up) /\ Under(up') = Under(up)
      /\ up'.reliable = Tail(up.reliable) /\ up.reliable # <<>>
  BY <1>1, ReadEffect
<1>3. up.reliable \in Seq(Receipts)
  BY <1>1 DEF CarrierOK, Numbered
<1>4. 1 \in DOMAIN up.reliable /\ Head(up.reliable) = up.reliable[1] /\ up.reliable[1] \in Receipts
  BY <1>2, <1>3, TailItems
<1>5. up.reliable[1].kind = "PURE"
  BY <1>0, <1>4 DEF Wires
<1>6. up.reliable[1].game \in Nat
  BY <1>4, <1>5, ReceiptsAre
<1>7. /\ IF up.reliable[1].game # gameInitId
              THEN UNCHANGED <<clientState, reloaded>>
              ELSE /\ clientState' = "SCS_CONNECTED"
                   /\ reloaded' = (reloaded \/ clientState # "SCS_PUREWAIT")
      /\ UNCHANGED <<bound, havePaks, gameInitId, pure, connectVars, gameInitSequence,
                     snapshotSequence, serverDelta, down, clientVars>>
  BY <1>4 DEF ProcessReliablePure, Outdated
<1> QED BY <1>2, <1>3, <1>5, <1>6, <1>7

LEMMA ReadAnswerBasics ==
  ASSUME IInv, ProcessReliablePure
  PROVE  Types' /\ Wires'
<1>0. Types /\ Wires
  BY DEF IInv
<1>1. /\ UNCHANGED <<bound, havePaks, gameInitId, pure, connectVars, gameInitSequence,
                     snapshotSequence, serverDelta, down, clientVars>>
      /\ up.reliable \in Seq(Receipts) /\ up.reliable # <<>>
      /\ up'.reliable = Tail(up.reliable)
      /\ IF up.reliable[1].game # gameInitId
              THEN UNCHANGED <<clientState, reloaded>>
              ELSE /\ clientState' = "SCS_CONNECTED"
                   /\ reloaded' = (reloaded \/ clientState # "SCS_PUREWAIT")
  BY ReadAnswerEffect
<1>2. clientState' \in States /\ reloaded' \in BOOLEAN
  BY <1>0, <1>1 DEF Types, States
<1>3. Types'
  BY <1>0, <1>1, <1>2 DEF Types, clientVars, connectVars
<1>4. \A i \in DOMAIN up'.reliable : up'.reliable[i].kind = "PURE"
  BY <1>0, <1>1, TailItems DEF Wires
<1>5. Connected
  BY <1>0, <1>1 DEF Wires
<1>6. Wires'
  BY <1>0, <1>1, <1>4, <1>5, ReadAnswerEffect DEF Wires, Connected, clientVars
<1> QED BY <1>3, <1>6

\* The message at hand, when it is its turn.
LEMMA AtHandUp ==
  ASSUME Wires, ProcessUnreliableClientMessage
  PROVE  /\ CarrierOK(up') /\ ~Busy(up') /\ Busy(up) /\ ~Busy(down) /\ Connected
         /\ Under(up') \subseteq Under(up)
         /\ up'.reliable = up.reliable /\ up'.last = up.last
         /\ AtHand(up) \in Under(up) /\ AtHand(up).body = up.msg /\ ClientBody(up.msg)
         /\ UNCHANGED clientVars
<1>1. AtUnreliable(up) /\ up' = Done(up) /\ UNCHANGED clientVars
  BY DEF ProcessUnreliableClientMessage
<1>2. CarrierOK(up)
  BY DEF Wires
<1>3. /\ CarrierOK(up') /\ ~Busy(up') /\ Busy(up) /\ Under(up') \subseteq Under(up)
      /\ up'.reliable = up.reliable /\ up'.last = up.last
      /\ AtHand(up) \in Under(up) /\ AtHand(up).body = up.msg
  BY <1>1, <1>2, DoneEffect
<1>4. ClientBody(up.msg) /\ ~Busy(down) /\ Connected
  BY <1>3 DEF Wires
<1> QED BY <1>1, <1>3, <1>4

LEMMA ClientMessageBasics ==
  ASSUME IInv, ProcessUnreliableClientMessage
  PROVE  Types' /\ Wires'
<1>0. Types /\ Wires
  BY DEF IInv
<1>1. /\ CarrierOK(up') /\ ~Busy(up') /\ Busy(up) /\ ~Busy(down) /\ Connected
      /\ Under(up') \subseteq Under(up) /\ up'.reliable = up.reliable
      /\ ClientBody(up.msg)
      /\ UNCHANGED <<myGameInitId, loadedGame, mySnapshotSequence, clientDelta, failed, misread>>
  BY <1>0, AtHandUp DEF clientVars
<1>2. Connected' /\ \A p \in Under(up') : ClientBody(p.body)
  BY <1>0, <1>1 DEF Connected, Wires
<1>3. \/ IgnoreMapLoad(up.msg) \/ WrongGame(up.msg) \/ EnterGame(up.msg)
      \/ ServerApplySnapshot(up.msg) \/ AwaitPure(up.msg)
  BY DEF ProcessUnreliableClientMessage
<1>4. CASE IgnoreMapLoad(up.msg) \/ AwaitPure(up.msg)
  <2>1. UNCHANGED <<serverVars, down>>
    BY <1>4 DEF IgnoreMapLoad, AwaitPure
  <2>2. Types'
    BY <1>0, <1>1, <2>1 DEF Types, serverVars, connectVars
  <2>3. Wires'
    BY <1>0, <1>1, <1>2, <2>1 DEF Wires
  <2> QED BY <2>2, <2>3
<1>5. CASE WrongGame(up.msg)
  <2>1. UNCHANGED <<bound, havePaks, gameInitId, pure, connectVars, snapshotSequence,
                    serverDelta, reloaded>>
    BY <1>5 DEF WrongGame
  <2>2. CASE MissedGameInit(up.msg)
    <3>1. SendGameInitToClient(gameInitId, pure, havePaks)
      BY <1>5, <2>2 DEF WrongGame
    <3>2. gameInitId \in Nat /\ pure \in BOOLEAN /\ havePaks \in BOOLEAN
      BY <1>0 DEF Types
    <3>3. /\ CarrierOK(down') /\ Like(down, down')
          /\ Under(down') = Under(down) \cup {NextPacket(down, GameInitMsg(gameInitId, pure))}
          /\ clientState' = IF pure /\ havePaks THEN "SCS_PUREWAIT" ELSE "SCS_CONNECTED"
          /\ gameInitSequence' \in Nat
      BY <1>0, <3>1, <3>2, InitSent
    <3>4. clientState' \in States
      BY <3>3 DEF States
    <3>5. Types'
      BY <1>0, <1>1, <2>1, <3>3, <3>4 DEF Types, connectVars
    <3>6. ServerBody(NextPacket(down, GameInitMsg(gameInitId, pure)).body)
      BY <3>2 DEF NextPacket, GameInitMsg, ServerBody
    <3>7. Wires'
      BY <1>0, <1>1, <1>2, <3>3, <3>6 DEF Wires, Like
    <3> QED BY <3>5, <3>7
  <2>3. CASE ~MissedGameInit(up.msg)
    <3>1. UNCHANGED <<clientState, gameInitSequence, down>>
      BY <1>5, <2>3 DEF WrongGame
    <3>2. Types'
      BY <1>0, <1>1, <2>1, <3>1 DEF Types, connectVars
    <3>3. Wires'
      BY <1>0, <1>1, <1>2, <3>1 DEF Wires
    <3> QED BY <3>2, <3>3
  <2> QED BY <2>2, <2>3
<1>6. CASE EnterGame(up.msg)
  <2>1. /\ UNCHANGED <<bound, havePaks, gameInitId, pure, connectVars, gameInitSequence,
                       snapshotSequence, serverDelta, reloaded, down>>
        /\ clientState' = "SCS_INGAME"
    BY <1>6 DEF EnterGame
  <2>2. Types'
    BY <1>0, <1>1, <2>1 DEF Types, connectVars, States
  <2>3. Wires'
    BY <1>0, <1>1, <1>2, <2>1 DEF Wires
  <2> QED BY <2>2, <2>3
<1>7. CASE ServerApplySnapshot(up.msg)
  <2>1. /\ UNCHANGED <<bound, havePaks, gameInitId, pure, connectVars, clientState,
                       gameInitSequence, snapshotSequence, reloaded>>
        /\ serverDelta' = ApplySnapshot(serverDelta, up.msg.snap)
        /\ down' = TellToApply(up.msg.snap)
    BY <1>7 DEF ServerApplySnapshot
  <2>2. up.msg.snap \in Nat
    BY <1>1 DEF ClientBody
  <2>3. IsDelta(serverDelta')
    BY <1>0, <2>1, <2>2, ApplyFacts DEF Types
  <2>4. Types'
    BY <1>0, <1>1, <2>1, <2>3 DEF Types, connectVars
  <2>5. CarrierOK(down') /\ Under(down') = Under(down) /\ (Busy(down') <=> Busy(down))
    <3>1. ApplySnapshotMsg(up.msg.snap) \in Receipts /\ CarrierOK(down)
      BY <1>0, <2>2, ReceiptsAre DEF Wires
    <3> QED BY <2>1, <3>1, QueuedEffect DEF TellToApply, Like
  <2>6. Wires'
    BY <1>0, <1>1, <1>2, <2>5 DEF Wires
  <2> QED BY <2>4, <2>6
<1> QED BY <1>3, <1>4, <1>5, <1>6, <1>7

LEMMA ConnectResponseBasics ==
  ASSUME IInv, ProcessConnectResponse
  PROVE  Types' /\ Wires'
<1>0. Types /\ Wires
  BY DEF IInv
<1>1. /\ Idle /\ ~Connected /\ myGameInitId' = offered /\ loadedGame' = offered
      /\ clientDelta' = Cleared
      /\ UNCHANGED <<serverVars, down, mySnapshotSequence, failed, misread, up>>
  BY DEF ProcessConnectResponse
<1>2. Types'
  BY <1>0, <1>1, ClearedFacts DEF Types, serverVars, connectVars
<1>3. Connected'
  BY <1>0, <1>1 DEF Connected, Types, GAME_INIT_ID_INVALID
<1>4. Wires'
  BY <1>0, <1>1, <1>3 DEF Wires
<1> QED BY <1>2, <1>4

LEMMA ClientReceiveEffect ==
  ASSUME IInv, ClientReceive
  PROVE  /\ Idle /\ Connected /\ ~failed /\ UNCHANGED <<serverVars, clientVars, up>>
         /\ CarrierOK(down') /\ Busy(down') /\ Under(down') \subseteq Under(down)
         /\ down'.reliable = down.reliable /\ down'.read = down.read
         /\ \E m \in Under(down) : /\ down'.last = m.seq /\ down'.upTo = m.upTo
                                   /\ down'.msg = m.body /\ m.seq > down.last
<1>0. Wires
  BY DEF IInv
<1>1. PICK m \in down.net : down' = HandedUp(down, m)
  BY DEF ClientReceive
<1>2. ~Busy(down) /\ m.body # NoMsg /\ CarrierOK(down) /\ Idle
  BY <1>0, BodiesAre DEF ClientReceive, Idle, Wires
<1> QED BY <1>1, <1>2, HandedUpEffect DEF ClientReceive

LEMMA ClientReceiveBasics ==
  ASSUME IInv, ClientReceive
  PROVE  Types' /\ Wires'
<1>0. Types /\ Wires
  BY DEF IInv
<1>1. UNCHANGED <<serverVars, clientVars, up>> /\ Idle /\ Connected
  BY ClientReceiveEffect
<1>2. Types'
  BY <1>0, <1>1 DEF Types, serverVars, clientVars, connectVars
<1>3. Connected'
  BY <1>1 DEF Connected, clientVars
<1>4. Wires'
  BY <1>0, <1>1, <1>3, ClientReceiveEffect DEF Wires, Idle
<1> QED BY <1>2, <1>4

\* Reading a reliable message, on the client.
LEMMA ReadDown ==
  ASSUME Wires, HasReliable(down), down' = ReadReliable(down)
  PROVE  /\ CarrierOK(down') /\ Busy(down') /\ Busy(down) /\ ~Busy(up) /\ Connected
         /\ Under(down') = Under(down)
         /\ down'.last = down.last /\ down'.upTo = down.upTo /\ down'.read = down.read + 1
         /\ down.reliable \in Seq(Receipts) /\ down.reliable # <<>>
         /\ down'.reliable = Tail(down.reliable)
         /\ Len(down'.reliable) = Len(down.reliable) - 1
         /\ Head(down.reliable) = down.reliable[1] /\ down.reliable[1] \in Receipts
         /\ down.read \in Nat /\ down.upTo \in Nat /\ down.read < down.upTo
<1>1. CarrierOK(down)
  BY DEF Wires
<1>2. /\ CarrierOK(down') /\ Busy(down') /\ Busy(down)
      /\ Under(down') = Under(down)
      /\ down'.last = down.last /\ down'.upTo = down.upTo /\ down'.read = down.read + 1
      /\ down'.reliable = Tail(down.reliable) /\ down.reliable # <<>>
      /\ Len(down'.reliable) = Len(down.reliable) - 1
  BY <1>1, ReadEffect
<1>3. /\ down.reliable \in Seq(Receipts) /\ down.read \in Nat /\ down.upTo \in Nat
      /\ down.read < down.upTo
  BY <1>1 DEF CarrierOK, Numbered, HasReliable
<1>4. Head(down.reliable) = down.reliable[1] /\ down.reliable[1] \in Receipts
  BY <1>2, <1>3, TailItems
<1>5. ~Busy(up) /\ Connected
  BY <1>2 DEF Wires
<1> QED BY <1>2, <1>3, <1>4, <1>5

LEMMA ClientApplyEffect ==
  ASSUME IInv, ClientApplySnapshot
  PROVE  /\ HasReliable(down) /\ down' = ReadReliable(down)
         /\ Applies(down.reliable, 1) /\ down.reliable[1].sequence \in Nat
         /\ clientDelta' = ApplySnapshot(clientDelta, down.reliable[1].sequence)
         /\ failed' = (failed \/ ~Holds(clientDelta, down.reliable[1].sequence))
         /\ UNCHANGED <<serverVars, myGameInitId, loadedGame, mySnapshotSequence,
                        misread, up>>
<1>0. Wires
  BY DEF IInv
<1>1. /\ HasReliable(down) /\ down' = ReadReliable(down)
      /\ Head(down.reliable).kind = "APPLYSNAPSHOT"
      /\ clientDelta' = ApplySnapshot(clientDelta, Head(down.reliable).sequence)
      /\ failed' = (failed \/ ~Holds(clientDelta, Head(down.reliable).sequence))
      /\ UNCHANGED <<serverVars, myGameInitId, loadedGame, mySnapshotSequence, misread, up>>
  BY DEF ClientApplySnapshot
<1>2. Head(down.reliable) = down.reliable[1] /\ down.reliable[1] \in Receipts
  BY <1>0, <1>1, ReadDown
<1>3. down.reliable[1].sequence \in Nat
  BY <1>1, <1>2, ReceiptsAre
<1> QED BY <1>1, <1>2, <1>3 DEF Applies

LEMMA ClientApplyBasics ==
  ASSUME IInv, ClientApplySnapshot
  PROVE  Types' /\ Wires'
<1>0. Types /\ Wires
  BY DEF IInv
<1>1. /\ down' = ReadReliable(down) /\ HasReliable(down) /\ down.reliable[1].sequence \in Nat
      /\ clientDelta' = ApplySnapshot(clientDelta, down.reliable[1].sequence)
      /\ failed' = (failed \/ ~Holds(clientDelta, down.reliable[1].sequence))
      /\ UNCHANGED <<serverVars, myGameInitId, loadedGame, mySnapshotSequence, misread, up>>
  BY ClientApplyEffect
<1>2. IsDelta(clientDelta') /\ failed' \in BOOLEAN
  BY <1>0, <1>1, ApplyFacts DEF Types
<1>3. Types'
  BY <1>0, <1>1, <1>2 DEF Types, serverVars, connectVars
<1>4. /\ CarrierOK(down') /\ Busy(down) /\ ~Busy(up) /\ Connected /\ Under(down') = Under(down)
  BY <1>0, <1>1, ReadDown
<1>5. Connected'
  BY <1>1, <1>4 DEF Connected
<1>6. Wires'
  BY <1>0, <1>1, <1>4, <1>5 DEF Wires
<1> QED BY <1>3, <1>6

LEMMA ReadListEffect ==
  ASSUME IInv, ProcessReliableMessagePure
  PROVE  /\ HasReliable(down) /\ down' = ReadReliable(down)
         /\ IsList(down.reliable, 1) /\ down.reliable[1].game \in Nat
         /\ UNCHANGED <<serverVars, myGameInitId, mySnapshotSequence, failed, misread>>
         /\ \/ /\ down.reliable[1].game # myGameInitId
               /\ UNCHANGED <<loadedGame, clientDelta, up>>
            \/ /\ down.reliable[1].game = myGameInitId
               /\ loadedGame' = myGameInitId
               /\ clientDelta' = Cleared
               /\ up' = Queued(up, PureMsg(myGameInitId))
<1>0. Wires
  BY DEF IInv
<1>1. HasReliable(down) /\ down' = ReadReliable(down) /\ Head(down.reliable).kind = "PURE"
  BY DEF ProcessReliableMessagePure
<1>2. Head(down.reliable) = down.reliable[1] /\ down.reliable[1] \in Receipts
  BY <1>0, <1>1, ReadDown
<1>3. down.reliable[1].game \in Nat /\ IsList(down.reliable, 1)
  BY <1>1, <1>2, ReceiptsAre DEF IsList
<1> QED BY <1>1, <1>2, <1>3 DEF ProcessReliableMessagePure

LEMMA ReadListBasics ==
  ASSUME IInv, ProcessReliableMessagePure
  PROVE  Types' /\ Wires'
<1>0. Types /\ Wires
  BY DEF IInv
<1>1. /\ down' = ReadReliable(down) /\ HasReliable(down) /\ down.reliable[1].game \in Nat
      /\ UNCHANGED <<serverVars, myGameInitId, mySnapshotSequence, failed, misread>>
  BY ReadListEffect
<1>2. /\ CarrierOK(down') /\ Busy(down) /\ ~Busy(up) /\ Connected /\ Under(down') = Under(down)
  BY <1>0, <1>1, ReadDown
<1>3. Connected'
  BY <1>1, <1>2 DEF Connected
<1>4. CASE UNCHANGED <<loadedGame, clientDelta, up>>
  <2>1. Types'
    BY <1>0, <1>1, <1>4 DEF Types, serverVars, connectVars
  <2>2. Wires'
    BY <1>0, <1>2, <1>3, <1>4 DEF Wires
  <2> QED BY <2>1, <2>2
<1>5. CASE /\ down.reliable[1].game = myGameInitId
           /\ loadedGame' = myGameInitId
           /\ clientDelta' = Cleared
           /\ up' = Queued(up, PureMsg(myGameInitId))
  <2>1. myGameInitId \in Nat /\ myGameInitId <= gameInitId
    BY <1>0, <1>2 DEF Types, Connected
  <2>2. Types'
    BY <1>0, <1>1, <1>5, <2>1, ClearedFacts DEF Types, serverVars, connectVars
  <2>3. PureMsg(myGameInitId) \in Receipts /\ PureMsg(myGameInitId).kind = "PURE" /\ CarrierOK(up)
    BY <1>0, <2>1, ReceiptsAre DEF Wires
  <2>4. /\ CarrierOK(up') /\ Like(up, up') /\ Under(up') = Under(up)
        /\ up'.reliable = Append(up.reliable, PureMsg(myGameInitId))
    BY <1>5, <2>3, QueuedEffect
  <2>5. up.reliable \in Seq(Receipts)
    BY <2>3 DEF CarrierOK, Numbered
  <2>6. \A i \in DOMAIN up'.reliable : up'.reliable[i].kind = "PURE"
    <3>1. \A i \in DOMAIN up.reliable : up.reliable[i].kind = "PURE"
      BY <1>0 DEF Wires
    <3> QED BY <2>3, <2>4, <2>5, <3>1, AppendItems
  <2>7. Wires'
    BY <1>0, <1>2, <1>3, <2>4, <2>6 DEF Wires, Like
  <2> QED BY <2>2, <2>7
<1> QED BY <1>4, <1>5, ReadListEffect

LEMMA AtHandDown ==
  ASSUME Wires, ProcessUnreliableServerMessage
  PROVE  /\ CarrierOK(down') /\ ~Busy(down') /\ Busy(down) /\ ~Busy(up) /\ Connected
         /\ Under(down') \subseteq Under(down)
         /\ \A p \in Under(down') : p.seq > down.last
         /\ down'.reliable = down.reliable /\ down'.last = down.last /\ down'.read = down.read
         /\ AtHand(down) \in Under(down) /\ AtHand(down).body = down.msg
         /\ AtHand(down).seq = down.last /\ AtHand(down).upTo = down.read
         /\ ServerBody(down.msg)
         /\ ~failed /\ UNCHANGED <<serverVars, up>>
         /\ \/ down.msg.kind = "EMPTY" /\ UNCHANGED clientVars
            \/ ProcessGameInit(down.msg)
            \/ IgnoreSnapshot(down.msg)
            \/ ClientReadSnapshot(down.msg)
<1>1. AtUnreliable(down) /\ down' = Done(down) /\ CarrierOK(down)
  BY DEF ProcessUnreliableServerMessage, Wires
<1>2. /\ CarrierOK(down') /\ ~Busy(down') /\ Busy(down) /\ Under(down') \subseteq Under(down)
      /\ \A p \in Under(down') : p.seq > down.last
      /\ down'.reliable = down.reliable /\ down'.last = down.last /\ down'.read = down.read
      /\ AtHand(down) \in Under(down) /\ AtHand(down).body = down.msg
      /\ AtHand(down).seq = down.last /\ AtHand(down).upTo = down.read
  BY <1>1, DoneEffect
<1>3. ServerBody(down.msg) /\ ~Busy(up) /\ Connected
  BY <1>2 DEF Wires
<1> QED BY <1>2, <1>3 DEF ProcessUnreliableServerMessage

\* A snapshot read against any base.
LEMMA DecodedTypes ==
  ASSUME NEW d, NEW enc, Faithful(enc)
  PROVE  /\ DecodedStates(d, enc) \in Pictures
         /\ DecodedPVS(d, enc) \in SUBSET (Entity \cup {Garbage})
<1>1. PICK D \in SUBSET Entity : enc.states \in [D -> State \cup {Garbage}]
  BY DEF Faithful, Pictures
<1>2. DecodedStates(d, enc) \in [D -> State \cup {Garbage}]
  BY <1>1 DEF DecodedStates
<1>3. DecodedStates(d, enc) \in Pictures
  BY <1>2 DEF Pictures
<1>4. DecodedPVS(d, enc) \in SUBSET (Entity \cup {Garbage})
  BY DEF DecodedPVS, Faithful
<1> QED BY <1>3, <1>4

LEMMA ServerMessageBasics ==
  ASSUME IInv, ProcessUnreliableServerMessage
  PROVE  Types' /\ Wires'
<1>0. Types /\ Wires /\ Inits
  BY DEF IInv
<1>1. /\ CarrierOK(down') /\ ~Busy(down') /\ Busy(down) /\ ~Busy(up) /\ Connected
      /\ Under(down') \subseteq Under(down)
      /\ AtHand(down) \in Under(down) /\ AtHand(down).body = down.msg
      /\ ServerBody(down.msg) /\ UNCHANGED <<serverVars, up>>
  BY <1>0, AtHandDown
<1>2. ASSUME Connected' PROVE Wires'
  BY <1>0, <1>1, <1>2 DEF Wires
<1>3. CASE UNCHANGED clientVars
  <2>1. Types'
    BY <1>0, <1>1, <1>3 DEF Types, serverVars, connectVars, clientVars
  <2>2. Connected'
    BY <1>1, <1>3 DEF Connected, clientVars
  <2> QED BY <1>2, <2>1, <2>2
<1>4. CASE ProcessGameInit(down.msg)
  <2>1. /\ down.msg.kind = "GAMEINIT" /\ myGameInitId' = down.msg.game
        /\ loadedGame' = IF down.msg.pure THEN loadedGame ELSE down.msg.game
        /\ clientDelta' = IF down.msg.pure THEN clientDelta ELSE Cleared
        /\ UNCHANGED <<mySnapshotSequence, failed, misread>>
    BY <1>4 DEF ProcessGameInit
  <2>2. /\ myGameInitId < down.msg.game /\ down.msg.game <= gameInitId
    BY <1>0, <1>1, <2>1 DEF Inits, IsInit, Entered
  <2>3. down.msg.game \in Nat /\ down.msg.pure \in BOOLEAN
    BY <1>1, <2>1 DEF ServerBody
  <2>4. myGameInitId \in Nat /\ offered <= myGameInitId
    BY <1>0, <1>1 DEF Types, Connected
  <2>5. /\ loadedGame' \in Nat /\ (loadedGame' = 0 \/ loadedGame' <= myGameInitId')
        /\ IsDelta(clientDelta')
    BY <1>0, <2>1, <2>2, <2>3, <2>4, ClearedFacts DEF Types
  <2>6. myGameInitId' \in Nat /\ offered <= myGameInitId' /\ myGameInitId' <= gameInitId
    BY <1>0, <2>1, <2>2, <2>3, <2>4 DEF Types
  <2>7. Types'
    BY <1>0, <1>1, <2>1, <2>5, <2>6 DEF Types, serverVars, connectVars
  <2>8. Connected'
    BY <2>6 DEF Connected, GAME_INIT_ID_INVALID
  <2> QED BY <1>2, <2>7, <2>8
<1>5. CASE ClientReadSnapshot(down.msg)
  <2> DEFINE states == DecodedStates(clientDelta, down.msg.enc)
             pvs == DecodedPVS(clientDelta, down.msg.enc)
  <2>1. /\ down.msg.kind = "SNAPSHOT" /\ mySnapshotSequence' = down.msg.sequence
        /\ clientDelta' = WithSnapshot(clientDelta, down.msg.sequence, states, pvs)
        /\ misread' = (misread \/ (Settled /\ View(clientDelta, states, pvs) # down.msg.enc.truth))
        /\ UNCHANGED <<myGameInitId, loadedGame, failed>>
    BY <1>5 DEF ClientReadSnapshot
  <2>2. down.msg.sequence \in Nat /\ Faithful(down.msg.enc)
    BY <1>1, <2>1 DEF ServerBody
  <2>3. states \in Pictures /\ pvs \in SUBSET (Entity \cup {Garbage})
    BY <2>2, DecodedTypes
  <2> HIDE DEF states, pvs
  <2>5. IsDelta(clientDelta') /\ misread' \in BOOLEAN
    BY <1>0, <2>1, <2>2, <2>3, WithFacts DEF Types
  <2>6. Types'
    BY <1>0, <1>1, <2>1, <2>2, <2>5 DEF Types, serverVars, connectVars
  <2>7. Connected'
    BY <1>1, <2>1 DEF Connected
  <2> QED BY <1>2, <2>6, <2>7
<1> QED BY <1>0, <1>3, <1>4, <1>5, AtHandDown DEF IgnoreSnapshot

\* A message of the client.
LEMMA ClientSendEffect ==
  ASSUME IInv, SendToServer \/ PacifierUpdate
  PROVE  /\ UNCHANGED <<serverVars, down, clientVars>> /\ Connected
         /\ CarrierOK(up') /\ (Busy(up') <=> Busy(up)) /\ up'.reliable = up.reliable
         /\ \E p : /\ Under(up') = Under(up) \cup {p}
                   /\ ClientBody(p.body)
                   /\ p.body.ack = down.last /\ p.body.snap = mySnapshotSequence
                   /\ FromMapLoad(p) \/ p.body.game = myGameInitId
<1>0. Types /\ Wires
  BY DEF IInv
<1>1. Connected /\ UNCHANGED <<serverVars, down, clientVars>>
  BY <1>0 DEF SendToServer, PacifierUpdate, Wires
<1>2. PICK game : /\ game = GAME_INIT_ID_MAP_LOAD \/ game = myGameInitId
                  /\ up' = Sent(up, ClientMsg(down.last, game, mySnapshotSequence))
  BY DEF SendToServer, PacifierUpdate
<1> DEFINE b == ClientMsg(down.last, game, mySnapshotSequence)
<1>3. /\ b.kind = "CLIENT" /\ b.ack = down.last /\ b.game = game /\ b.snap = mySnapshotSequence
  BY DEF ClientMsg
<1> HIDE DEF b
<1>4. myGameInitId \in Nat /\ down.last \in Nat
  BY <1>0, <1>1 DEF Types, Connected, Wires, CarrierOK, Numbered
<1>5. ClientBody(b)
  BY <1>0, <1>2, <1>3, <1>4 DEF ClientBody, Types
<1>6. CarrierOK(up) /\ up' = Sent(up, b)
  BY <1>0, <1>2 DEF Wires, b
<1>7. /\ CarrierOK(up') /\ (Busy(up') <=> Busy(up)) /\ up'.reliable = up.reliable
      /\ Under(up') = Under(up) \cup {NextPacket(up, b)} /\ NextPacket(up, b).body = b
  BY <1>6, SentEffect DEF Like
<1> QED BY <1>1, <1>2, <1>3, <1>5, <1>7 DEF FromMapLoad

LEMMA ClientSendBasics ==
  ASSUME IInv, SendToServer \/ PacifierUpdate
  PROVE  Types' /\ Wires'
<1>0. Types /\ Wires
  BY DEF IInv
<1>1. UNCHANGED <<serverVars, down, clientVars>> /\ Connected
  BY ClientSendEffect
<1>2. Types'
  BY <1>0, <1>1 DEF Types, serverVars, connectVars, clientVars
<1>3. Connected'
  BY <1>1 DEF Connected, clientVars
<1>4. \A p \in Under(up') : ClientBody(p.body)
  BY <1>0, ClientSendEffect DEF Wires
<1>5. Wires'
  BY <1>0, <1>1, <1>3, <1>4, ClientSendEffect DEF Wires
<1> QED BY <1>2, <1>5

-----------------------------------------------------------------------------
(* The games that messages name: Inits *)

LEMMA InitsQuiet ==
  ASSUME Types, Wires, Wires', Inits,
         UNCHANGED <<havePaks, gameInitId, pure, offered, gameInitSequence, myGameInitId>>,
         \A p \in Under(down') : p \in Under(down) \/ ~IsInit(p),
         Under(up') \subseteq Under(up), down.last <= down'.last
  PROVE  Inits'
<1>1. Entered' = Entered
  BY DEF Entered, Connected
<1>2. \A p \in Under(up') : p.body.ack \in Nat /\ p.body.ack <= down.last
  BY DEF Inits, Wires, ClientBody
<1>3. down.last \in Nat /\ down'.last \in Nat
  BY DEF Wires, CarrierOK, Numbered
<1>4. \A p \in Under(up') : p.body.ack <= down'.last
  BY <1>2, <1>3
<1> QED BY <1>1, <1>4 DEF Inits, IsInit, FromMapLoad

LEMMA SendEmptyInits ==
  ASSUME IInv, SendEmptyToClient
  PROVE  Inits'
<1>0. Types /\ Wires /\ Wires' /\ Inits
  BY SendEmptyBasics DEF IInv
<1>1. /\ down' = Sent(down, EmptyMsg) /\ UNCHANGED <<serverVars, clientVars, up>>
  BY DEF SendEmptyToClient
<1>2. /\ Like(down, down') /\ down.last \in Nat
      /\ Under(down') = Under(down) \cup {NextPacket(down, EmptyMsg)}
      /\ NextPacket(down, EmptyMsg).body = EmptyMsg
  BY <1>0, <1>1, SentEffect DEF Wires
<1>3. ~IsInit(NextPacket(down, EmptyMsg))
  BY <1>2 DEF IsInit, EmptyMsg
<1>4. /\ UNCHANGED <<havePaks, gameInitId, pure, offered, gameInitSequence, myGameInitId>>
      /\ Under(up') = Under(up) /\ down.last <= down'.last
  BY <1>1, <1>2 DEF serverVars, connectVars, clientVars, Like
<1>5. \A p \in Under(down') : p \in Under(down) \/ ~IsInit(p)
  BY <1>2, <1>3
<1> QED BY <1>0, <1>4, <1>5, InitsQuiet

LEMMA SendSnapshotInits ==
  ASSUME IInv, NEW world \in [bound.entities -> State], NEW pvs \in SUBSET bound.entities,
         SendSnapshotToClient(world, pvs)
  PROVE  Inits'
<1>0. Types /\ Wires /\ Wires' /\ Inits
  BY SendSnapshotBasics DEF IInv
<1>1. PICK enc : down' = Sent(down, SnapshotMsg(gameInitId, snapshotSequence, enc))
  BY SendSnapshotEffect
<1> DEFINE b == SnapshotMsg(gameInitId, snapshotSequence, enc)
<1>2. /\ Like(down, down') /\ down.last \in Nat
      /\ Under(down') = Under(down) \cup {NextPacket(down, b)}
      /\ NextPacket(down, b).body = b
  BY <1>0, <1>1, SentEffect DEF Wires
<1>3. ~IsInit(NextPacket(down, b))
  BY <1>2 DEF IsInit, SnapshotMsg
<1> HIDE DEF b
<1>4. /\ UNCHANGED <<havePaks, gameInitId, pure, offered, gameInitSequence, myGameInitId>>
      /\ Under(up') = Under(up) /\ down.last <= down'.last
  BY <1>2 DEF SendSnapshotToClient, connectVars, clientVars, Like
<1>5. \A p \in Under(down') : p \in Under(down) \/ ~IsInit(p)
  BY <1>2, <1>3
<1> QED BY <1>0, <1>4, <1>5, InitsQuiet

LEMMA ServerReceiveInits ==
  ASSUME IInv, ServerReceive
  PROVE  Inits'
<1>0. Types /\ Wires /\ Wires' /\ Inits /\ down.last \in Nat
  BY ServerReceiveBasics DEF IInv, Wires, CarrierOK, Numbered
<1> QED BY <1>0, ServerReceiveEffect, InitsQuiet DEF serverVars, connectVars, clientVars

LEMMA ReadAnswerInits ==
  ASSUME IInv, ProcessReliablePure
  PROVE  Inits'
<1>0. Types /\ Wires /\ Wires' /\ Inits /\ down.last \in Nat
  BY ReadAnswerBasics DEF IInv, Wires, CarrierOK, Numbered
<1> QED BY <1>0, ReadAnswerEffect, InitsQuiet DEF connectVars, clientVars

LEMMA ClientReceiveInits ==
  ASSUME IInv, ClientReceive
  PROVE  Inits'
<1>0. Types /\ Wires /\ Wires' /\ Inits /\ down.last \in Nat
  BY ClientReceiveBasics DEF IInv, Wires, CarrierOK, Numbered
<1>1. PICK m \in Under(down) : down'.last = m.seq /\ m.seq > down.last
  BY ClientReceiveEffect
<1>2. m.seq \in Nat
  BY <1>0 DEF Wires, CarrierOK, Ordered
<1>3. down.last <= down'.last
  BY <1>0, <1>1, <1>2
<1>4. Under(down') \subseteq Under(down) /\ UNCHANGED <<serverVars, clientVars, up>>
  BY ClientReceiveEffect
<1> QED BY <1>0, <1>3, <1>4, InitsQuiet DEF serverVars, connectVars, clientVars

LEMMA ClientApplyInits ==
  ASSUME IInv, ClientApplySnapshot
  PROVE  Inits'
<1>0. Types /\ Wires /\ Wires' /\ Inits /\ down.last \in Nat
  BY ClientApplyBasics DEF IInv, Wires, CarrierOK, Numbered
<1>1. /\ HasReliable(down) /\ down' = ReadReliable(down)
      /\ UNCHANGED <<serverVars, myGameInitId, up>>
  BY ClientApplyEffect
<1>2. Under(down') = Under(down) /\ down'.last = down.last
  BY <1>0, <1>1, ReadDown
<1> QED BY <1>0, <1>1, <1>2, InitsQuiet DEF serverVars, connectVars

LEMMA ReadListInits ==
  ASSUME IInv, ProcessReliableMessagePure
  PROVE  Inits'
<1>0. Types /\ Wires /\ Wires' /\ Inits /\ down.last \in Nat /\ CarrierOK(up)
  BY ReadListBasics DEF IInv, Wires, CarrierOK, Numbered
<1>1. /\ HasReliable(down) /\ down' = ReadReliable(down)
      /\ UNCHANGED <<serverVars, myGameInitId>>
  BY ReadListEffect
<1>2. Under(down') = Under(down) /\ down'.last = down.last /\ Connected
  BY <1>0, <1>1, ReadDown
<1>3. Under(up') = Under(up)
  <2>1. IsCarrier(up)
    BY <1>0 DEF CarrierOK, Numbered
  <2> QED BY <2>1, ReadListEffect, QueuedFields
<1> QED BY <1>0, <1>1, <1>2, <1>3, InitsQuiet DEF serverVars, connectVars

LEMMA GameInitMsgIs ==
  ASSUME NEW game, NEW list
  PROVE  LET p == NextPacket(down, GameInitMsg(game, list))
         IN  /\ IsInit(p) /\ ~IsSnapshot(p) /\ p.body.game = game /\ p.body.pure = list
             /\ p.seq = down.next /\ p.upTo = down.read + Len(down.reliable)
BY DEF NextPacket, GameInitMsg, IsInit, IsSnapshot

LEMMA SeqsAre ==
  ASSUME Wires
  PROVE  /\ down.last \in Nat /\ down.next \in Nat /\ down.last < down.next
         /\ down.read \in Nat /\ down.upTo \in Nat /\ down.reliable \in Seq(Receipts)
         /\ \A p \in Under(down) : /\ p.seq \in Nat /\ p.seq < down.next
                                   /\ p.upTo \in Nat /\ down.upTo <= p.upTo
                                   /\ p.upTo <= down.read + Len(down.reliable)
         /\ ~Busy(down) => \A p \in Under(down) : p.seq > down.last
<1>1. ~Busy(down) => Under(down) = down.net
  BY DEF Under
<1> QED BY <1>1 DEF Wires, CarrierOK, Numbered, Ordered

LEMMA MapChangeInits ==
  ASSUME IInv, NEW list \in BOOLEAN, NEW paks \in BOOLEAN, ExecuteMapChange(list, paks)
  PROVE  Inits'
<1>0. Types /\ Wires /\ Inits /\ gameInitId + 1 \in Nat
  BY DEF IInv, Types
<1>1. /\ gameInitId' = gameInitId + 1 /\ pure' = list
      /\ SendGameInitToClient(gameInitId + 1, list, paks)
      /\ offered' = offered /\ myGameInitId' = myGameInitId /\ up' = up
  BY DEF ExecuteMapChange, connectVars, clientVars
<1> DEFINE q == NextPacket(down, GameInitMsg(gameInitId + 1, list))
<1>2. /\ down'.last = down.last /\ Under(down') = Under(down) \cup {q}
      /\ gameInitSequence' \in Nat /\ gameInitSequence' >= down.next
  BY <1>0, <1>1, InitSent DEF Like
<1>3. IsInit(q) /\ q.body.game = gameInitId + 1 /\ q.body.pure = list /\ q.seq = down.next
  BY GameInitMsgIs
<1> HIDE DEF q
<1>4. Entered' = Entered /\ Entered \in Int /\ Entered <= gameInitId
  BY <1>0, <1>1 DEF Entered, Connected, Types
<1>5. \A p \in Under(down) : IsInit(p) => p.body.game \in Nat /\ p.body.game <= gameInitId
  BY <1>0 DEF Inits, Wires, ServerBody, IsInit
<1>6. \A p \in Under(down') : IsInit(p) =>
        /\ Entered' < p.body.game /\ p.body.game <= gameInitId'
        /\ p.body.game = gameInitId' => p.seq <= gameInitSequence' /\ p.body.pure = pure'
  <2> TAKE p \in Under(down')
  <2>1. CASE p = q
    BY <1>0, <1>1, <1>2, <1>3, <1>4, <2>1, SeqsAre DEF Types
  <2>2. CASE p \in Under(down)
    BY <1>0, <1>1, <1>4, <1>5, <2>2 DEF Inits, Types
  <2> QED BY <1>2, <2>1, <2>2
<1>7. \A p, r \in Under(down') :
        IsInit(p) /\ IsInit(r) /\ p.seq < r.seq => p.body.game < r.body.game
  <2> TAKE p, r \in Under(down')
  <2>1. CASE p \in Under(down) /\ r \in Under(down)
    BY <1>0, <2>1 DEF Inits
  <2>2. CASE p = q
    BY <1>0, <1>2, <1>3, <2>2, SeqsAre
  <2>3. CASE p \in Under(down) /\ r = q
    BY <1>0, <1>3, <1>5, <2>3 DEF Types
  <2> QED BY <1>2, <2>1, <2>2, <2>3
<1>8. myGameInitId' # gameInitId'
  BY <1>0, <1>1 DEF Types, GAME_INIT_ID_INVALID
<1> QED BY <1>0, <1>1, <1>2, <1>6, <1>7, <1>8 DEF Inits, IsInit, FromMapLoad

\* The server sends another GAMEINIT: the client has seen a later message, so the
\* one before it can no longer come.
LEMMA ResendFacts ==
  ASSUME Types, Wires, Inits, ProcessUnreliableClientMessage, WrongGame(up.msg),
         MissedGameInit(up.msg)
  PROVE  /\ SendGameInitToClient(gameInitId, pure, havePaks)
         /\ UNCHANGED <<bound, havePaks, gameInitId, pure, connectVars, snapshotSequence,
                        serverDelta,
                        reloaded, clientVars>>
         /\ down.last > gameInitSequence
         /\ \A p \in Under(down) : p.seq > gameInitSequence
         /\ \A p \in Under(down) : ~(IsInit(p) /\ p.body.game = gameInitId)
         /\ myGameInitId # gameInitId /\ Entered < gameInitId /\ Connected
         /\ myGameInitId \in Nat
<1>1. /\ SendGameInitToClient(gameInitId, pure, havePaks)
      /\ UNCHANGED <<bound, havePaks, gameInitId, pure, connectVars, snapshotSequence,
                     serverDelta,
                     reloaded, clientVars>>
      /\ up.msg.game # GAME_INIT_ID_MAP_LOAD /\ up.msg.game # gameInitId
      /\ up.msg.ack > gameInitSequence
  BY DEF WrongGame, MissedGameInit, InRightGame, ProcessUnreliableClientMessage
<1>2. /\ ~Busy(down) /\ Connected /\ AtHand(up) \in Under(up) /\ AtHand(up).body = up.msg
      /\ ClientBody(up.msg)
  BY AtHandUp
<1>3. up.msg.ack <= down.last /\ myGameInitId # gameInitId
  BY <1>1, <1>2 DEF Inits, FromMapLoad
<1>4. up.msg.ack \in Nat /\ gameInitSequence \in Nat /\ down.last \in Nat
  BY <1>2, SeqsAre DEF ClientBody, Types
<1>5. down.last > gameInitSequence
  BY <1>1, <1>3, <1>4
<1>6. \A p \in Under(down) : p.seq > gameInitSequence /\ p.seq \in Nat
  BY <1>2, <1>4, <1>5, SeqsAre
<1>7. \A p \in Under(down) : ~(IsInit(p) /\ p.body.game = gameInitId)
  BY <1>4, <1>6 DEF Inits
<1>8. myGameInitId \in Nat /\ Entered < gameInitId
  BY <1>2, <1>3 DEF Types, Entered, Connected
<1> QED BY <1>1, <1>2, <1>3, <1>5, <1>6, <1>7, <1>8

LEMMA ClientMessageInits ==
  ASSUME IInv, ProcessUnreliableClientMessage
  PROVE  Inits'
<1>0. Types /\ Wires /\ Wires' /\ Inits /\ down.last \in Nat
  BY ClientMessageBasics, SeqsAre DEF IInv
<1>1. /\ Under(up') \subseteq Under(up) /\ UNCHANGED clientVars
  BY <1>0, AtHandUp
<1>2. \/ IgnoreMapLoad(up.msg) \/ WrongGame(up.msg) \/ EnterGame(up.msg)
      \/ ServerApplySnapshot(up.msg) \/ AwaitPure(up.msg)
  BY DEF ProcessUnreliableClientMessage
<1>3. CASE WrongGame(up.msg) /\ MissedGameInit(up.msg)
  <2>0. /\ SendGameInitToClient(gameInitId, pure, havePaks)
        /\ UNCHANGED <<havePaks, gameInitId, pure, connectVars, myGameInitId>>
        /\ \A p \in Under(down) : ~(IsInit(p) /\ p.body.game = gameInitId)
        /\ myGameInitId # gameInitId /\ Entered < gameInitId
    BY <1>0, <1>3, ResendFacts DEF clientVars
  <2> DEFINE q == NextPacket(down, GameInitMsg(gameInitId, pure))
  <2>1. gameInitId \in Nat /\ pure \in BOOLEAN /\ havePaks \in BOOLEAN
    BY <1>0 DEF Types
  <2>2. /\ down'.last = down.last /\ Under(down') = Under(down) \cup {q}
        /\ gameInitSequence' \in Nat /\ gameInitSequence' >= down.next
    BY <1>0, <2>0, <2>1, InitSent DEF Like
  <2>3. IsInit(q) /\ q.body.game = gameInitId /\ q.body.pure = pure /\ q.seq = down.next
    BY GameInitMsgIs
  <2> HIDE DEF q
  <2>4. Entered' = Entered
    BY <2>0 DEF Entered, Connected, connectVars
  <2>5. \A p \in Under(down) : IsInit(p) =>
          p.body.game \in Nat /\ p.body.game < gameInitId /\ Entered < p.body.game
    BY <1>0, <2>0, <2>1 DEF Inits, Wires, ServerBody, IsInit
  <2>6. \A p \in Under(down') : IsInit(p) =>
          /\ Entered' < p.body.game /\ p.body.game <= gameInitId'
          /\ p.body.game = gameInitId' => p.seq <= gameInitSequence' /\ p.body.pure = pure'
    BY <1>0, <2>0, <2>1, <2>2, <2>3, <2>4, <2>5, SeqsAre
  <2>7. \A p, r \in Under(down') :
          IsInit(p) /\ IsInit(r) /\ p.seq < r.seq => p.body.game < r.body.game
    <3> TAKE p, r \in Under(down')
    <3>1. CASE p \in Under(down) /\ r \in Under(down)
      BY <1>0, <3>1 DEF Inits
    <3>2. CASE p = q
      BY <1>0, <2>2, <2>3, <3>2, SeqsAre
    <3>3. CASE p \in Under(down) /\ r = q
      BY <2>3, <2>5, <3>3
    <3> QED BY <2>2, <3>1, <3>2, <3>3
  <2> QED BY <1>0, <1>1, <2>0, <2>2, <2>6, <2>7 DEF Inits, IsInit, FromMapLoad
<1>4. CASE ~(WrongGame(up.msg) /\ MissedGameInit(up.msg))
  <2>1. UNCHANGED <<havePaks, gameInitId, pure, offered, gameInitSequence, myGameInitId>>
    BY <1>1, <1>2, <1>4
       DEF clientVars, serverVars, connectVars, IgnoreMapLoad, WrongGame, EnterGame,
           ServerApplySnapshot, AwaitPure
  <2>2. Under(down') = Under(down) /\ down'.last = down.last
    <3>1. IsCarrier(down)
      BY <1>0 DEF Wires, CarrierOK, Numbered
    <3> QED BY <1>2, <1>4, <3>1, QueuedFields
          DEF IgnoreMapLoad, WrongGame, EnterGame, ServerApplySnapshot, AwaitPure, TellToApply
  <2> QED BY <1>0, <1>1, <2>1, <2>2, InitsQuiet
<1> QED BY <1>3, <1>4

LEMMA ReconnectInits ==
  ASSUME IInv, ProcessConnectMessage
  PROVE  Inits'
BY ReconnectEffect DEF Inits

LEMMA ConnectResponseInits ==
  ASSUME IInv, ProcessConnectResponse
  PROVE  Inits'
<1>0. Types /\ Wires /\ Inits
  BY DEF IInv
<1>1. /\ ~Connected /\ myGameInitId' = offered /\ UNCHANGED <<serverVars, down, up>>
  BY DEF ProcessConnectResponse
<1>2. Under(up) = {}
  BY <1>0, <1>1 DEF Wires, Under
<1>3. Entered' = Entered
  BY <1>0, <1>1 DEF Entered, Connected, Types, serverVars, connectVars
<1> QED BY <1>0, <1>1, <1>2, <1>3 DEF Inits, IsInit, FromMapLoad, serverVars, connectVars

LEMMA ServerMessageInits ==
  ASSUME IInv, ProcessUnreliableServerMessage
  PROVE  Inits'
<1>0. Types /\ Wires /\ Wires' /\ Inits
  BY ServerMessageBasics DEF IInv
<1>1. /\ Connected /\ Under(down') \subseteq Under(down) /\ down'.last = down.last
      /\ \A p \in Under(down') : p.seq > down.last
      /\ AtHand(down) \in Under(down) /\ AtHand(down).body = down.msg
      /\ AtHand(down).seq = down.last
      /\ ServerBody(down.msg) /\ UNCHANGED <<serverVars, up>>
      /\ \/ down.msg.kind = "EMPTY" /\ UNCHANGED clientVars
         \/ ProcessGameInit(down.msg)
         \/ IgnoreSnapshot(down.msg)
         \/ ClientReadSnapshot(down.msg)
  BY <1>0, AtHandDown
<1>2. CASE ProcessGameInit(down.msg)
  <2>1. down.msg.kind = "GAMEINIT" /\ myGameInitId' = down.msg.game
    BY <1>2 DEF ProcessGameInit
  <2>2. myGameInitId < down.msg.game /\ down.msg.game <= gameInitId /\ IsInit(AtHand(down))
        /\ (down.msg.game = gameInitId => down.last <= gameInitSequence)
    BY <1>0, <1>1, <2>1 DEF Inits, IsInit, Entered
  <2>3. down.msg.game \in Nat /\ myGameInitId \in Nat /\ gameInitId \in Nat
        /\ down.last \in Nat /\ gameInitSequence \in Nat
    BY <1>0, <1>1, <2>1, SeqsAre DEF ServerBody, Types, Connected
  <2>4. Entered' = down.msg.game
    BY <2>1, <2>3 DEF Entered, Connected, GAME_INIT_ID_INVALID
  <2>5. \A p \in Under(down') : IsInit(p) => down.msg.game < p.body.game
    BY <1>0, <1>1, <2>2 DEF Inits
  <2>6. \A p \in Under(up) :
          /\ p.body.ack <= down.last /\ p.body.ack \in Nat
          /\ ~FromMapLoad(p) => 0 < p.body.game /\ p.body.game <= myGameInitId
                                /\ p.body.game \in Nat
    BY <1>0 DEF Inits, Wires, ClientBody, FromMapLoad
  <2>7. \A p \in Under(up') :
          /\ p.body.ack <= down'.last
          /\ ~FromMapLoad(p) => 0 < p.body.game /\ p.body.game <= myGameInitId'
          /\ (p.body.ack > gameInitSequence' => myGameInitId' # gameInitId')
    BY <1>1, <2>1, <2>2, <2>3, <2>6 DEF serverVars
  <2> QED BY <1>0, <1>1, <2>4, <2>5, <2>7 DEF Inits, IsInit, FromMapLoad, serverVars
<1>3. CASE ~ProcessGameInit(down.msg)
  <2>1. UNCHANGED <<havePaks, gameInitId, pure, offered, gameInitSequence, myGameInitId>>
    BY <1>1, <1>3 DEF clientVars, serverVars, connectVars, IgnoreSnapshot, ClientReadSnapshot
  <2>2. down.last \in Nat
    BY <1>0, SeqsAre
  <2> QED BY <1>0, <1>1, <2>1, <2>2, InitsQuiet
<1> QED BY <1>2, <1>3

LEMMA ClientSendInits ==
  ASSUME IInv, SendToServer \/ PacifierUpdate
  PROVE  Inits'
<1>0. Types /\ Wires /\ Inits
  BY DEF IInv
<1>1. UNCHANGED <<serverVars, down, clientVars>> /\ Connected
  BY ClientSendEffect
<1>2. PICK p : /\ Under(up') = Under(up) \cup {p}
               /\ p.body.ack = down.last
               /\ FromMapLoad(p) \/ p.body.game = myGameInitId
  BY ClientSendEffect
<1>3. down.last \in Nat /\ myGameInitId \in Nat /\ 0 < myGameInitId
  BY <1>0, <1>1, SeqsAre DEF Types, Connected
<1>4. Entered' = Entered
  BY <1>1 DEF Entered, Connected, serverVars, connectVars, clientVars
<1> QED BY <1>0, <1>1, <1>2, <1>3, <1>4 DEF Inits, IsInit, FromMapLoad, serverVars, clientVars

-----------------------------------------------------------------------------
(* What is loaded, lists and answers *)

Agreed == Loaded /\ Answers /\ Lists /\ ~reloaded

\* A list that is pending cannot be behind the message at hand once that is done.
LEMMA ListNotMissed ==
  ASSUME Types, Wires, Lists, Busy(down), down.upTo = down.read,
         NEW i \in DOMAIN down.reliable, IsList(down.reliable, i),
         down.reliable[i].game = gameInitId
  PROVE  down.last <= gameInitSequence
<1>1. /\ down.last \in Nat /\ gameInitSequence \in Nat /\ down.read \in Nat
      /\ i \in Nat /\ i >= 1
  BY SeqsAre DEF Types
<1>2. AtHand(down) \in Under(down) /\ AtHand(down).seq = down.last
      /\ AtHand(down).upTo = down.upTo
  BY DEF Under, AtHand
<1>3. down.last > gameInitSequence => down.upTo >= down.read + i
  BY <1>2 DEF Lists
<1> QED BY <1>1, <1>3

LEMMA AgreedQuiet ==
  ASSUME Types, Wires, Wires', Agreed,
         UNCHANGED <<havePaks, gameInitId, pure, offered, clientState, gameInitSequence,
                     myGameInitId, loadedGame, reloaded>>,
         up'.reliable = up.reliable, down'.read = down.read,
         \A i \in DOMAIN down'.reliable : IsList(down'.reliable, i) =>
           i \in DOMAIN down.reliable /\ down'.reliable[i] = down.reliable[i],
         \A p \in Under(down') :
           p \in Under(down) \/ p.upTo >= down.read + Len(down.reliable),
         ~Busy(down') => /\ down'.last = down.last
                         /\ ~Busy(down) \/ down.upTo = down.read
  PROVE  Agreed'
<1>1. Loaded' /\ Answers' /\ ~reloaded'
  BY DEF Agreed, Loaded, Answers, InGame, Entered, Connected, Unlisted
<1>2. ASSUME NEW i \in DOMAIN down'.reliable, IsList(down'.reliable, i),
             down'.reliable[i].game = gameInitId
      PROVE  /\ \A p \in Under(down') : p.seq > gameInitSequence => p.upTo >= down.read + i
             /\ ~Busy(down') => down.last <= gameInitSequence
  <2>1. /\ i \in DOMAIN down.reliable /\ IsList(down.reliable, i)
        /\ down.reliable[i].game = gameInitId
    BY <1>2 DEF IsList
  <2>2. i \in Nat /\ i <= Len(down.reliable) /\ Len(down.reliable) \in Nat /\ down.read \in Nat
    BY <2>1, SeqsAre
  <2>3. \A p \in Under(down') : p.upTo \in Nat
    BY DEF Wires, CarrierOK, Ordered
  <2>4. \A p \in Under(down) : p.seq > gameInitSequence => p.upTo >= down.read + i
    BY <2>1 DEF Agreed, Lists
  <2>5. \A p \in Under(down') : p.seq > gameInitSequence => p.upTo >= down.read + i
    BY <2>2, <2>3, <2>4
  <2>6. ~Busy(down') => down.last <= gameInitSequence
    BY <2>1, ListNotMissed DEF Agreed, Lists
  <2> QED BY <2>5, <2>6
<1>3. \A i \in DOMAIN down'.reliable : IsList(down'.reliable, i) =>
        /\ IsList(down.reliable, i) /\ i \in DOMAIN down.reliable
        /\ down'.reliable[i] = down.reliable[i]
  BY DEF IsList
<1>4. Lists'
  <2> SUFFICES ASSUME NEW i \in DOMAIN down'.reliable, IsList(down'.reliable, i)
               PROVE  /\ offered < down'.reliable[i].game
                      /\ down'.reliable[i].game <= gameInitId
                      /\ down'.reliable[i].game = gameInitId =>
                         /\ pure /\ havePaks
                         /\ \A p \in Under(down') :
                              p.seq > gameInitSequence => p.upTo >= down.read + i
                         /\ ~Busy(down') => down'.last <= gameInitSequence
                         /\ myGameInitId = gameInitId =>
                              /\ clientState = "SCS_PUREWAIT"
                              /\ \A j \in DOMAIN up.reliable :
                                   up.reliable[j].game # gameInitId
                         /\ \A j \in DOMAIN down'.reliable :
                              IsList(down'.reliable, j) /\ down'.reliable[j].game = gameInitId
                              => i = j
    BY DEF Lists, IsList
  <2>1. /\ IsList(down.reliable, i) /\ i \in DOMAIN down.reliable
        /\ down'.reliable[i] = down.reliable[i]
    BY <1>3
  <2> QED BY <1>2, <1>3, <2>1 DEF Agreed, Lists
<1> QED BY <1>1, <1>4 DEF Agreed

LEMMA SendEmptyAgreed ==
  ASSUME IInv, SendEmptyToClient
  PROVE  Agreed'
<1>0. Types /\ Wires /\ Wires' /\ Agreed
  BY SendEmptyBasics DEF IInv, Agreed
<1>1. /\ down' = Sent(down, EmptyMsg) /\ UNCHANGED <<serverVars, clientVars, up>>
  BY DEF SendEmptyToClient
<1>2. /\ Like(down, down') /\ down'.reliable = down.reliable
      /\ Under(down') = Under(down) \cup {NextPacket(down, EmptyMsg)}
      /\ NextPacket(down, EmptyMsg).upTo = down.read + Len(down.reliable)
  BY <1>0, <1>1, SentEffect DEF Wires
<1>3. down.read \in Nat /\ Len(down.reliable) \in Nat
  BY <1>0, SeqsAre
<1>4. /\ \A p \in Under(down') : p \in Under(down) \/ p.upTo >= down.read + Len(down.reliable)
      /\ down'.read = down.read /\ (Busy(down') <=> Busy(down)) /\ down'.last = down.last
  BY <1>2, <1>3 DEF Like
<1> QED BY <1>0, <1>1, <1>2, <1>4, AgreedQuiet DEF serverVars, connectVars, clientVars

LEMMA SendSnapshotAgreed ==
  ASSUME IInv, NEW world \in [bound.entities -> State], NEW pvs \in SUBSET bound.entities,
         SendSnapshotToClient(world, pvs)
  PROVE  Agreed'
<1>0. Types /\ Wires /\ Wires' /\ Agreed
  BY SendSnapshotBasics DEF IInv, Agreed
<1>1. PICK enc : down' = Sent(down, SnapshotMsg(gameInitId, snapshotSequence, enc))
  BY SendSnapshotEffect
<1> DEFINE b == SnapshotMsg(gameInitId, snapshotSequence, enc)
<1>2. /\ Like(down, down') /\ down'.reliable = down.reliable
      /\ Under(down') = Under(down) \cup {NextPacket(down, b)}
      /\ NextPacket(down, b).upTo = down.read + Len(down.reliable)
  BY <1>0, <1>1, SentEffect DEF Wires
<1> HIDE DEF b
<1>3. down.read \in Nat /\ Len(down.reliable) \in Nat
  BY <1>0, SeqsAre
<1>4. /\ \A p \in Under(down') : p \in Under(down) \/ p.upTo >= down.read + Len(down.reliable)
      /\ down'.read = down.read /\ (Busy(down') <=> Busy(down)) /\ down'.last = down.last
  BY <1>2, <1>3 DEF Like
<1>5. UNCHANGED <<havePaks, gameInitId, pure, offered, clientState, gameInitSequence,
                  myGameInitId,
                  loadedGame, reloaded, up>>
  BY DEF SendSnapshotToClient, connectVars, clientVars
<1> QED BY <1>0, <1>2, <1>4, <1>5, AgreedQuiet

LEMMA ServerReceiveAgreed ==
  ASSUME IInv, ServerReceive
  PROVE  Agreed'
<1>0. Types /\ Wires /\ Wires' /\ Agreed
  BY ServerReceiveBasics DEF IInv, Agreed
<1>1. /\ UNCHANGED <<serverVars, down, clientVars>> /\ up'.reliable = up.reliable /\ Idle
  BY ServerReceiveEffect
<1>2. ~Busy(down)
  BY <1>1 DEF Idle
<1>3. UNCHANGED <<havePaks, gameInitId, pure, offered, clientState, gameInitSequence,
                  myGameInitId,
                  loadedGame, reloaded, down>>
  BY <1>1 DEF serverVars, connectVars, clientVars
<1> QED BY <1>0, <1>1, <1>2, <1>3, AgreedQuiet

LEMMA ClientReceiveAgreed ==
  ASSUME IInv, ClientReceive
  PROVE  Agreed'
<1>0. Types /\ Wires /\ Wires' /\ Agreed
  BY ClientReceiveBasics DEF IInv, Agreed
<1>1. /\ UNCHANGED <<serverVars, clientVars, up>> /\ Busy(down')
      /\ Under(down') \subseteq Under(down)
      /\ down'.reliable = down.reliable /\ down'.read = down.read
  BY ClientReceiveEffect
<1>2. UNCHANGED <<havePaks, gameInitId, pure, offered, clientState, gameInitSequence,
                  myGameInitId,
                  loadedGame, reloaded, up>>
  BY <1>1 DEF serverVars, connectVars, clientVars
<1> QED BY <1>0, <1>1, <1>2, AgreedQuiet

LEMMA ClientSendAgreed ==
  ASSUME IInv, SendToServer \/ PacifierUpdate
  PROVE  Agreed'
<1>0. Types /\ Wires /\ Wires' /\ Agreed
  BY ClientSendBasics DEF IInv, Agreed
<1>1. /\ UNCHANGED <<serverVars, down, clientVars>> /\ up'.reliable = up.reliable
      /\ Busy(down) \/ ~Busy(down)
  BY ClientSendEffect
<1>2. UNCHANGED <<havePaks, gameInitId, pure, offered, clientState, gameInitSequence,
                  myGameInitId,
                  loadedGame, reloaded, down>>
  BY <1>1 DEF serverVars, connectVars, clientVars
<1>3. ~Busy(down') => ~Busy(down)
  BY <1>2
<1> QED BY <1>0, <1>1, <1>2, <1>3, AgreedQuiet

\* A reliable message from the server has been read: the others move up.
LEMMA ListsShift ==
  ASSUME Types, Wires, Lists, HasReliable(down), down' = ReadReliable(down),
         UNCHANGED <<havePaks, gameInitId, pure, offered, clientState, gameInitSequence,
                     myGameInitId>>,
         \/ up'.reliable = up.reliable
         \/ IsList(down.reliable, 1) /\ down.reliable[1].game = myGameInitId
  PROVE  Lists'
<1>1. /\ Busy(down') /\ Under(down') = Under(down) /\ down'.read = down.read + 1
      /\ down.reliable \in Seq(Receipts) /\ down.reliable # <<>>
      /\ down'.reliable = Tail(down.reliable) /\ down.read \in Nat
  BY ReadDown
<1>2. /\ \A i \in DOMAIN down'.reliable :
           /\ i \in Nat /\ i + 1 \in DOMAIN down.reliable
           /\ down'.reliable[i] = down.reliable[i + 1]
      /\ 1 \in DOMAIN down.reliable
  BY <1>1, TailItems
<1>3. \A i \in DOMAIN down'.reliable : IsList(down'.reliable, i) =>
        IsList(down.reliable, i + 1)
  BY <1>2 DEF IsList
<1> SUFFICES ASSUME NEW i \in DOMAIN down'.reliable, IsList(down'.reliable, i)
             PROVE  /\ offered < down'.reliable[i].game
                    /\ down'.reliable[i].game <= gameInitId
                    /\ down'.reliable[i].game = gameInitId =>
                       /\ pure
                       /\ \A p \in Under(down') :
                            p.seq > gameInitSequence => p.upTo >= down'.read + i
                       /\ myGameInitId = gameInitId =>
                            /\ clientState = "SCS_PUREWAIT"
                            /\ \A j \in DOMAIN up'.reliable :
                                 up'.reliable[j].game # gameInitId
                       /\ \A j \in DOMAIN down'.reliable :
                            IsList(down'.reliable, j) /\ down'.reliable[j].game = gameInitId
                            => i = j
  BY <1>1 DEF Lists, IsList
<1>4. /\ IsList(down.reliable, i + 1) /\ i + 1 \in DOMAIN down.reliable /\ i \in Nat
      /\ down'.reliable[i] = down.reliable[i + 1]
  BY <1>2, <1>3
<1>5. offered < down'.reliable[i].game /\ down'.reliable[i].game <= gameInitId
  BY <1>4 DEF Lists
<1>6. ASSUME down'.reliable[i].game = gameInitId
      PROVE  /\ pure
             /\ \A p \in Under(down') : p.seq > gameInitSequence => p.upTo >= down'.read + i
             /\ myGameInitId = gameInitId =>
                  /\ clientState = "SCS_PUREWAIT"
                  /\ \A j \in DOMAIN up'.reliable : up'.reliable[j].game # gameInitId
             /\ \A j \in DOMAIN down'.reliable :
                  IsList(down'.reliable, j) /\ down'.reliable[j].game = gameInitId => i = j
  <2>1. /\ pure
        /\ \A p \in Under(down) : p.seq > gameInitSequence => p.upTo >= down.read + (i + 1)
        /\ myGameInitId = gameInitId =>
             /\ clientState = "SCS_PUREWAIT"
             /\ \A j \in DOMAIN up.reliable : up.reliable[j].game # gameInitId
        /\ \A j \in DOMAIN down.reliable :
             IsList(down.reliable, j) /\ down.reliable[j].game = gameInitId => i + 1 = j
    BY <1>4, <1>6 DEF Lists
  <2>2. \A p \in Under(down') : p.seq > gameInitSequence => p.upTo >= down'.read + i
    <3>1. down.read \in Nat /\ i \in Nat /\ down'.read = down.read + 1
      BY <1>1, <1>4
    <3>2. down.read + (i + 1) = down'.read + i
      BY <3>1
    <3> QED BY <1>1, <2>1, <3>2
  <2>3. \A j \in DOMAIN down'.reliable :
          IsList(down'.reliable, j) /\ down'.reliable[j].game = gameInitId => i = j
    <3> TAKE j \in DOMAIN down'.reliable
    <3> HAVE IsList(down'.reliable, j) /\ down'.reliable[j].game = gameInitId
    <3>1. i + 1 = j + 1 /\ j \in Nat
      BY <1>2, <1>3, <2>1
    <3> QED BY <1>4, <3>1
  <2>4. myGameInitId = gameInitId => up'.reliable = up.reliable
    <3>1. ASSUME IsList(down.reliable, 1), down.reliable[1].game = myGameInitId,
                 myGameInitId = gameInitId
          PROVE  FALSE
      <4>1. i + 1 = 1
        BY <1>2, <2>1, <3>1
      <4>2. i \in Nat /\ i >= 1
        BY <1>1, TailItems
      <4> QED BY <4>1, <4>2
    <3> QED BY <3>1
  <2> QED BY <2>1, <2>2, <2>3, <2>4
<1> QED BY <1>5, <1>6

LEMMA ClientApplyAgreed ==
  ASSUME IInv, ClientApplySnapshot
  PROVE  Agreed'
<1>0. Types /\ Wires /\ Agreed /\ Lists
  BY DEF IInv, Agreed
<1>1. /\ HasReliable(down) /\ down' = ReadReliable(down)
      /\ UNCHANGED <<serverVars, myGameInitId, loadedGame, up>>
  BY ClientApplyEffect
<1>2. UNCHANGED <<havePaks, gameInitId, pure, offered, clientState, gameInitSequence,
                  myGameInitId,
                  loadedGame, reloaded, up>>
  BY <1>1 DEF serverVars, connectVars
<1>3. Lists'
  BY <1>0, <1>1, <1>2, ListsShift
<1>4. Loaded' /\ Answers' /\ ~reloaded'
  BY <1>0, <1>2 DEF Agreed, Loaded, Answers, InGame, Entered, Connected, Unlisted
<1> QED BY <1>3, <1>4 DEF Agreed

LEMMA ReadListAgreed ==
  ASSUME IInv, ProcessReliableMessagePure
  PROVE  Agreed'
<1>0. Types /\ Wires /\ Agreed /\ Lists
  BY DEF IInv, Agreed
<1>1. /\ HasReliable(down) /\ down' = ReadReliable(down) /\ IsList(down.reliable, 1)
      /\ UNCHANGED <<serverVars, myGameInitId>>
  BY ReadListEffect
<1>2. UNCHANGED <<havePaks, gameInitId, pure, offered, clientState, gameInitSequence,
                  myGameInitId,
                  reloaded>>
  BY <1>1 DEF serverVars, connectVars
<1>3. /\ down.reliable \in Seq(Receipts) /\ down.reliable # <<>> /\ Connected
      /\ 1 \in DOMAIN down.reliable
  BY <1>0, <1>1, ReadDown, TailItems
<1>4. CASE UNCHANGED <<loadedGame, clientDelta, up>>
  <2>1. Lists'
    BY <1>0, <1>1, <1>2, <1>4, ListsShift
  <2>2. Loaded' /\ Answers' /\ ~reloaded'
    BY <1>0, <1>2, <1>4 DEF Agreed, Loaded, Answers, InGame, Entered, Connected, Unlisted
  <2> QED BY <2>1, <2>2 DEF Agreed
<1>5. CASE /\ down.reliable[1].game = myGameInitId
           /\ loadedGame' = myGameInitId
           /\ clientDelta' = Cleared
           /\ up' = Queued(up, PureMsg(myGameInitId))
  <2>1. Lists'
    BY <1>0, <1>1, <1>2, <1>5, ListsShift
  <2>2. Loaded' /\ ~reloaded'
    BY <1>0, <1>2, <1>5 DEF Agreed, Loaded, InGame, Entered, Connected, Unlisted
  <2>3. myGameInitId \in Nat /\ PureMsg(myGameInitId) \in Receipts
        /\ PureMsg(myGameInitId).game = myGameInitId /\ CarrierOK(up)
    BY <1>0, <1>3, ReceiptsAre DEF Types, Connected, Wires
  <2>4. up'.reliable = Append(up.reliable, PureMsg(myGameInitId)) /\ up.reliable \in Seq(Receipts)
    BY <1>5, <2>3, QueuedEffect DEF CarrierOK, Numbered
  <2>5. \A i \in DOMAIN up'.reliable :
          \/ i \in DOMAIN up.reliable /\ up'.reliable[i] = up.reliable[i]
          \/ i = Len(up.reliable) + 1 /\ up'.reliable[i] = PureMsg(myGameInitId)
    BY <2>3, <2>4, AppendItems
  <2>6. myGameInitId = gameInitId =>
          clientState = "SCS_PUREWAIT" /\ \A j \in DOMAIN up.reliable :
                                            up.reliable[j].game # gameInitId
    BY <1>0, <1>1, <1>3, <1>5 DEF Lists
  <2>7. \A i \in DOMAIN up.reliable : up.reliable[i].game <= myGameInitId
                                      /\ up.reliable[i].game \in Nat
    <3>1. \A i \in DOMAIN up.reliable : up.reliable[i] \in Receipts
                                        /\ up.reliable[i].kind = "PURE"
      BY <1>0, <2>4 DEF Wires
    <3> QED BY <1>0, <3>1, ReceiptsAre DEF Agreed, Answers
  <2>8. gameInitId \in Nat /\ myGameInitId <= gameInitId
    BY <1>0, <1>3 DEF Types, Connected
  <2>9. \A i \in DOMAIN up'.reliable : up'.reliable[i].game = gameInitId =>
          /\ myGameInitId = gameInitId /\ i = Len(up.reliable) + 1
    <3> TAKE i \in DOMAIN up'.reliable
    <3> HAVE up'.reliable[i].game = gameInitId
    <3>1. CASE i \in DOMAIN up.reliable /\ up'.reliable[i] = up.reliable[i]
      BY <2>3, <2>6, <2>7, <2>8, <3>1
    <3>2. CASE i = Len(up.reliable) + 1 /\ up'.reliable[i] = PureMsg(myGameInitId)
      BY <2>3, <3>2
    <3> QED BY <2>5, <3>1, <3>2
  <2>10. \A i \in DOMAIN up'.reliable : up'.reliable[i].game <= myGameInitId
    BY <2>3, <2>5, <2>7
  <2>11. Answers'
    BY <1>2, <1>5, <2>6, <2>9, <2>10 DEF Answers
  <2> QED BY <2>1, <2>2, <2>11 DEF Agreed
<1> QED BY <1>4, <1>5, ReadListEffect

LEMMA ReadAnswerAgreed ==
  ASSUME IInv, ProcessReliablePure
  PROVE  Agreed'
<1>0. Types /\ Wires /\ Agreed /\ Inits
  BY DEF IInv, Agreed
<1> DEFINE answer == up.reliable[1].game
<1>1. /\ Busy(up) /\ up.reliable \in Seq(Receipts) /\ up.reliable # <<>>
      /\ up'.reliable = Tail(up.reliable) /\ answer \in Nat
      /\ UNCHANGED <<havePaks, gameInitId, pure, offered, gameInitSequence, down,
                     myGameInitId, loadedGame>>
      /\ IF answer # gameInitId
           THEN UNCHANGED <<clientState, reloaded>>
           ELSE /\ clientState' = "SCS_CONNECTED"
                /\ reloaded' = (reloaded \/ clientState # "SCS_PUREWAIT")
  BY ReadAnswerEffect DEF connectVars, clientVars
<1>2. /\ \A i \in DOMAIN up'.reliable :
           /\ i \in Nat /\ i + 1 \in DOMAIN up.reliable
           /\ up'.reliable[i] = up.reliable[i + 1]
      /\ 1 \in DOMAIN up.reliable
  BY <1>1, TailItems
<1>3. \A i \in DOMAIN up'.reliable : i + 1 # 1
  <2>1. \A i \in DOMAIN up'.reliable : i \in Nat /\ i >= 1
    BY <1>1, TailItems
  <2> QED BY <2>1
<1>4. answer <= myGameInitId /\ Connected /\ myGameInitId <= gameInitId
      /\ myGameInitId \in Nat /\ gameInitId \in Nat
  BY <1>0, <1>1, <1>2 DEF Agreed, Answers, Types, Connected, Wires
<1>5. \A i \in DOMAIN up'.reliable :
        /\ up'.reliable[i].game <= myGameInitId
        /\ up'.reliable[i].game = myGameInitId => loadedGame = myGameInitId
        /\ up'.reliable[i].game = gameInitId =>
             /\ clientState = "SCS_PUREWAIT" /\ answer # gameInitId
             /\ \A j \in DOMAIN up'.reliable : up'.reliable[j].game = gameInitId => i = j
  <2> TAKE i \in DOMAIN up'.reliable
  <2>1. /\ up'.reliable[i].game <= myGameInitId
        /\ up'.reliable[i].game = myGameInitId => loadedGame = myGameInitId
    BY <1>0, <1>2 DEF Agreed, Answers
  <2>2. up'.reliable[i].game = gameInitId =>
          /\ clientState = "SCS_PUREWAIT"
          /\ \A j \in DOMAIN up.reliable : up.reliable[j].game = gameInitId => i + 1 = j
    BY <1>0, <1>2 DEF Agreed, Answers
  <2>3. ASSUME up'.reliable[i].game = gameInitId, NEW j \in DOMAIN up'.reliable,
               up'.reliable[j].game = gameInitId
        PROVE  i = j
    <3>1. i + 1 = j + 1 /\ i \in Nat /\ j \in Nat
      BY <1>2, <2>2, <2>3
    <3> QED BY <3>1
  <2> QED BY <1>2, <1>3, <2>1, <2>2, <2>3
<1>6. CASE answer # gameInitId
  <2>1. UNCHANGED <<clientState, reloaded>>
    BY <1>1, <1>6
  <2>2. Loaded' /\ ~reloaded' /\ Answers'
    BY <1>0, <1>1, <1>5, <2>1 DEF Agreed, Loaded, Answers, InGame, Entered, Connected, Unlisted
  <2>3. Lists'
    BY <1>0, <1>1, <1>2, <2>1 DEF Agreed, Lists, IsList
  <2> QED BY <2>2, <2>3 DEF Agreed
<1>7. CASE answer = gameInitId
  <2>1. clientState = "SCS_PUREWAIT" /\ loadedGame = myGameInitId /\ myGameInitId = gameInitId
    BY <1>0, <1>2, <1>4, <1>7 DEF Agreed, Answers
  <2>2. clientState' = "SCS_CONNECTED" /\ ~reloaded'
    BY <1>0, <1>1, <1>7, <2>1 DEF Agreed
  <2>3. Loaded'
    BY <1>1, <1>4, <2>1, <2>2 DEF Loaded, InGame, Entered, Connected, Unlisted
  <2>4. Answers'
    BY <1>1, <1>5, <1>7 DEF Answers
  <2>5. \A i \in DOMAIN down.reliable :
          IsList(down.reliable, i) => down.reliable[i].game # gameInitId
    BY <1>0, <1>2, <1>7, <2>1 DEF Agreed, Lists
  <2>6. Lists'
    BY <1>0, <1>1, <2>5 DEF Agreed, Lists, IsList
  <2> QED BY <2>2, <2>3, <2>4, <2>6 DEF Agreed
<1> QED BY <1>6, <1>7

LEMMA ReconnectAgreed ==
  ASSUME IInv, ProcessConnectMessage
  PROVE  Agreed'
<1>1. DOMAIN (<<>>) = {}
  OBVIOUS
<1>2. ~Connected' /\ myGameInitId' # gameInitId' /\ Entered' = gameInitId'
      /\ clientState' = "SCS_CONNECTED" /\ ~reloaded'
      /\ DOMAIN down'.reliable = {} /\ DOMAIN up'.reliable = {}
  BY <1>1, ReconnectEffect DEF IInv, Types, Entered, Connected, GAME_INIT_ID_INVALID
<1> QED BY <1>2 DEF Agreed, Loaded, Answers, Lists, InGame

LEMMA ConnectResponseAgreed ==
  ASSUME IInv, ProcessConnectResponse
  PROVE  Agreed'
<1>0. Types /\ Wires /\ Agreed
  BY DEF IInv, Agreed
<1>1. /\ Idle /\ ~Connected /\ myGameInitId' = offered /\ loadedGame' = offered
      /\ UNCHANGED <<serverVars, down, up>>
  BY DEF ProcessConnectResponse
<1>2. DOMAIN up.reliable = {} /\ offered \in Nat /\ gameInitId \in Nat
  BY <1>0, <1>1 DEF Wires, Types
<1>3. UNCHANGED <<havePaks, gameInitId, pure, offered, clientState, gameInitSequence,
                  reloaded, down, up>>
  BY <1>1 DEF serverVars, connectVars
<1>4. ~InGame /\ Entered' = Entered /\ Entered = offered
  BY <1>0, <1>1, <1>2, <1>3
     DEF Agreed, Loaded, Connected, Entered, GAME_INIT_ID_INVALID
<1>5. Loaded'
  BY <1>0, <1>1, <1>3, <1>4 DEF Agreed, Loaded, InGame
<1>6. \A i \in DOMAIN down.reliable :
        IsList(down.reliable, i) /\ down.reliable[i].game = gameInitId => offered # gameInitId
  BY <1>0, <1>2 DEF Agreed, Lists
<1>7. Lists'
  BY <1>0, <1>1, <1>3, <1>6 DEF Agreed, Lists, IsList
<1>8. Answers'
  BY <1>2, <1>3 DEF Answers
<1> QED BY <1>0, <1>3, <1>5, <1>7, <1>8 DEF Agreed

\* After a GAMEINIT, with or without a list.
LEMMA ListAdded ==
  ASSUME Types, Wires, NEW game \in Nat, NEW list \in BOOLEAN, NEW paks \in BOOLEAN,
         SendGameInitToClient(game, list, paks), gameInitId' = game, pure' = list,
         havePaks' = paks, offered' = offered, myGameInitId' = myGameInitId,
         offered < game, myGameInitId # game, ~Busy(down),
         \A i \in DOMAIN down.reliable : IsList(down.reliable, i) =>
           offered < down.reliable[i].game /\ down.reliable[i].game < game
  PROVE  Lists'
<1>1. /\ Like(down, down')
      /\ Under(down') = Under(down) \cup {NextPacket(down, GameInitMsg(game, list))}
      /\ down'.reliable = IF list /\ paks THEN Append(down.reliable, PureMsg(game))
                          ELSE down.reliable
      /\ gameInitSequence' \in Nat /\ gameInitSequence' >= down.next
  BY InitSent
<1>2. \A p \in Under(down') : p.seq <= gameInitSequence' /\ p.seq \in Nat
  BY <1>1, SeqsAre, GameInitMsgIs
<1>3. \A p \in Under(down') : ~(p.seq > gameInitSequence')
  BY <1>1, <1>2
<1>4. down'.last <= gameInitSequence'
  BY <1>1, SeqsAre DEF Like
<1>5. down.reliable \in Seq(Receipts) /\ PureMsg(game) \in Receipts
      /\ PureMsg(game).kind = "PURE" /\ PureMsg(game).game = game
  BY SeqsAre, ReceiptsAre
<1>6. \A i \in DOMAIN down'.reliable :
        \/ i \in DOMAIN down.reliable /\ down'.reliable[i] = down.reliable[i]
        \/ i = Len(down.reliable) + 1 /\ down'.reliable[i] = PureMsg(game)
           /\ list /\ paks
  BY <1>1, <1>5, AppendItems
<1>7. \A i \in DOMAIN down.reliable : IsList(down.reliable, i) =>
        down.reliable[i].game \in Nat /\ down.reliable[i].game # game
        /\ down.reliable[i].game <= game
  <2>1. \A i \in DOMAIN down.reliable : down.reliable[i] \in Receipts
    BY <1>5
  <2>2. \A i \in DOMAIN down.reliable : IsList(down.reliable, i) =>
          down.reliable[i].game \in Nat
    BY <2>1, ReceiptsAre DEF IsList
  <2> QED BY <2>2
<1>8. ASSUME NEW i \in DOMAIN down'.reliable, IsList(down'.reliable, i)
      PROVE  /\ offered < down'.reliable[i].game /\ down'.reliable[i].game <= game
             /\ down'.reliable[i].game = game => i = Len(down.reliable) + 1 /\ list /\ paks
  <2>1. CASE i \in DOMAIN down.reliable /\ down'.reliable[i] = down.reliable[i]
    <3>1. IsList(down.reliable, i)
      BY <1>8, <2>1 DEF IsList
    <3> QED BY <1>7, <2>1, <3>1
  <2>2. CASE i = Len(down.reliable) + 1 /\ down'.reliable[i] = PureMsg(game) /\ list /\ paks
    BY <1>5, <2>2
  <2> QED BY <1>6, <2>1, <2>2
<1> SUFFICES ASSUME NEW i \in DOMAIN down'.reliable, IsList(down'.reliable, i)
             PROVE  /\ offered < down'.reliable[i].game
                    /\ down'.reliable[i].game <= game
                    /\ down'.reliable[i].game = game =>
                       /\ list /\ paks
                       /\ \A p \in Under(down') :
                            p.seq > gameInitSequence' => p.upTo >= down'.read + i
                       /\ down'.last <= gameInitSequence'
                       /\ \A j \in DOMAIN down'.reliable :
                            IsList(down'.reliable, j) /\ down'.reliable[j].game = game
                            => i = j
  BY DEF Lists, IsList
<1>9. \A j \in DOMAIN down'.reliable :
        IsList(down'.reliable, j) /\ down'.reliable[j].game = game => j = Len(down.reliable) + 1
  BY <1>8
<1> QED BY <1>3, <1>4, <1>8, <1>9

LEMMA MapChangeAgreed ==
  ASSUME IInv, NEW list \in BOOLEAN, NEW paks \in BOOLEAN, ExecuteMapChange(list, paks)
  PROVE  Agreed'
<1>0. Types /\ Wires /\ Agreed /\ gameInitId \in Nat /\ gameInitId + 1 \in Nat
  BY DEF IInv, Types, Agreed
<1>1. /\ gameInitId' = gameInitId + 1 /\ pure' = list /\ havePaks' = paks
      /\ SendGameInitToClient(gameInitId + 1, list, paks) /\ Idle
      /\ offered' = offered /\ myGameInitId' = myGameInitId /\ loadedGame' = loadedGame
      /\ up' = up /\ reloaded' = reloaded
  BY DEF ExecuteMapChange, connectVars, clientVars
<1>2. clientState' = IF list /\ paks THEN "SCS_PUREWAIT" ELSE "SCS_CONNECTED"
  BY <1>0, <1>1, InitSent
<1>3. /\ myGameInitId # gameInitId + 1 /\ offered < gameInitId + 1 /\ ~Busy(down)
  BY <1>0, <1>1 DEF Types, Idle, GAME_INIT_ID_INVALID
<1>4. \A i \in DOMAIN down.reliable : IsList(down.reliable, i) =>
        offered < down.reliable[i].game /\ down.reliable[i].game < gameInitId + 1
  <2>1. \A i \in DOMAIN down.reliable : down.reliable[i] \in Receipts
    BY <1>0, SeqsAre
  <2>2. \A i \in DOMAIN down.reliable : IsList(down.reliable, i) =>
          down.reliable[i].game \in Nat
    BY <2>1, ReceiptsAre DEF IsList
  <2> QED BY <1>0, <2>2 DEF Agreed, Lists
<1>5. Lists'
  BY <1>0, <1>1, <1>3, <1>4, ListAdded
<1>6. Loaded'
  BY <1>1, <1>2, <1>3 DEF Loaded, InGame
<1>7. \A i \in DOMAIN up.reliable : up.reliable[i].game # gameInitId + 1
  <2>1. \A i \in DOMAIN up.reliable : up.reliable[i] \in Receipts /\ up.reliable[i].kind = "PURE"
    BY <1>0 DEF Wires, CarrierOK, Numbered
  <2>2. \A i \in DOMAIN up.reliable : /\ up.reliable[i].game \in Nat
                                      /\ up.reliable[i].game <= myGameInitId
    BY <1>0, <2>1, ReceiptsAre DEF Agreed, Answers
  <2> QED BY <1>0, <2>2 DEF Types, GAME_INIT_ID_INVALID
<1>8. Answers'
  BY <1>0, <1>1, <1>7 DEF Agreed, Answers
<1> QED BY <1>0, <1>1, <1>5, <1>6, <1>8 DEF Agreed

LEMMA ClientMessageAgreed ==
  ASSUME IInv, ProcessUnreliableClientMessage
  PROVE  Agreed'
<1>0. Types /\ Wires /\ Wires' /\ Agreed /\ Inits
  BY ClientMessageBasics DEF IInv, Agreed
<1>1. /\ ~Busy(down) /\ Connected /\ up'.reliable = up.reliable
      /\ AtHand(up) \in Under(up) /\ AtHand(up).body = up.msg
      /\ UNCHANGED <<myGameInitId, loadedGame>> /\ up.msg.snap \in Nat
  BY <1>0, AtHandUp DEF clientVars, ClientBody
<1>2. \/ IgnoreMapLoad(up.msg) \/ WrongGame(up.msg) \/ EnterGame(up.msg)
      \/ ServerApplySnapshot(up.msg) \/ AwaitPure(up.msg)
  BY DEF ProcessUnreliableClientMessage
<1>3. \A i \in DOMAIN up.reliable : /\ up.reliable[i].game \in Nat
                                    /\ up.reliable[i].game <= myGameInitId
  <2>1. \A i \in DOMAIN up.reliable : up.reliable[i] \in Receipts /\ up.reliable[i].kind = "PURE"
    BY <1>0 DEF Wires, CarrierOK, Numbered
  <2> QED BY <1>0, <2>1, ReceiptsAre DEF Agreed, Answers
<1>4. gameInitId \in Nat /\ myGameInitId \in Nat /\ myGameInitId <= gameInitId
      /\ offered \in Nat /\ offered <= myGameInitId
  BY <1>0, <1>1 DEF Types, Connected
<1>5. CASE WrongGame(up.msg) /\ MissedGameInit(up.msg)
  <2>1. /\ SendGameInitToClient(gameInitId, pure, havePaks)
        /\ UNCHANGED <<havePaks, gameInitId, pure, connectVars, reloaded>>
        /\ down.last > gameInitSequence /\ myGameInitId # gameInitId
    BY <1>0, <1>5, ResendFacts
  <2>2. /\ gameInitId \in Nat /\ pure \in BOOLEAN /\ havePaks \in BOOLEAN
        /\ gameInitSequence \in Nat /\ down.last \in Nat
    BY <1>0, SeqsAre DEF Types
  <2>3. clientState' = IF pure /\ havePaks THEN "SCS_PUREWAIT" ELSE "SCS_CONNECTED"
    BY <1>0, <2>1, <2>2, InitSent
  <2>4. \A i \in DOMAIN down.reliable : IsList(down.reliable, i) =>
          offered < down.reliable[i].game /\ down.reliable[i].game < gameInitId
    <3>1. \A i \in DOMAIN down.reliable : down.reliable[i] \in Receipts
      BY <1>0, SeqsAre
    <3>2. \A i \in DOMAIN down.reliable : IsList(down.reliable, i) =>
            down.reliable[i].game \in Nat
      BY <3>1, ReceiptsAre DEF IsList
    <3>3. ~(down.last <= gameInitSequence)
      BY <2>1, <2>2
    <3>4. \A i \in DOMAIN down.reliable : IsList(down.reliable, i) =>
            /\ offered < down.reliable[i].game /\ down.reliable[i].game <= gameInitId
            /\ down.reliable[i].game # gameInitId
      BY <1>0, <1>1, <3>3 DEF Agreed, Lists
    <3> QED BY <2>2, <3>2, <3>4
  <2>5. offered < gameInitId
    BY <1>4, <2>1
  <2>6. Lists'
    BY <1>0, <1>1, <2>1, <2>2, <2>4, <2>5, ListAdded DEF connectVars
  <2>7. Loaded'
    BY <1>1, <2>1, <2>3 DEF Loaded, InGame, Unlisted
  <2>8. \A i \in DOMAIN up.reliable : up.reliable[i].game # gameInitId
    BY <1>3, <1>4, <2>1
  <2>9. Answers'
    BY <1>0, <1>1, <2>1, <2>8 DEF Agreed, Answers
  <2> QED BY <1>0, <2>1, <2>6, <2>7, <2>9 DEF Agreed
<1>6. CASE EnterGame(up.msg)
  <2>1. /\ up.msg.game = gameInitId /\ clientState = "SCS_CONNECTED"
        /\ clientState' = "SCS_INGAME"
        /\ UNCHANGED <<havePaks, gameInitId, pure, offered, gameInitSequence, reloaded, down>>
    BY <1>6 DEF EnterGame, InRightGame, connectVars
  <2>2. ~FromMapLoad(AtHand(up))
    BY <1>1, <1>4, <2>1 DEF FromMapLoad, GAME_INIT_ID_MAP_LOAD
  <2>3. gameInitId <= myGameInitId
    BY <1>0, <1>1, <2>1, <2>2 DEF Inits
  <2>4. myGameInitId = gameInitId /\ (loadedGame = gameInitId \/ Unlisted)
    BY <1>0, <1>4, <2>1, <2>3 DEF Agreed, Loaded
  <2>5. Loaded'
    BY <1>0, <1>1, <2>1, <2>4 DEF Agreed, Loaded, InGame, Entered, Connected, Unlisted
  <2>6. \A i \in DOMAIN up.reliable : up.reliable[i].game # gameInitId
    BY <1>0, <2>1 DEF Agreed, Answers
  <2>7. Answers'
    BY <1>0, <1>1, <2>1, <2>6 DEF Agreed, Answers
  <2>8. \A i \in DOMAIN down.reliable : IsList(down.reliable, i) =>
          down.reliable[i].game # gameInitId
    BY <1>0, <2>1, <2>4 DEF Agreed, Lists
  <2>9. Lists'
    BY <1>0, <1>1, <2>1, <2>8 DEF Agreed, Lists, IsList
  <2> QED BY <1>0, <2>1, <2>5, <2>7, <2>9 DEF Agreed
<1>7. CASE ServerApplySnapshot(up.msg)
  <2>1. /\ UNCHANGED <<havePaks, gameInitId, pure, offered, clientState, gameInitSequence,
                       reloaded>>
        /\ down' = TellToApply(up.msg.snap)
    BY <1>7 DEF ServerApplySnapshot, connectVars
  <2>2. ApplySnapshotMsg(up.msg.snap) \in Receipts /\ down.reliable \in Seq(Receipts)
        /\ ApplySnapshotMsg(up.msg.snap).kind = "APPLYSNAPSHOT" /\ CarrierOK(down)
    BY <1>0, <1>1, ReceiptsAre, SeqsAre DEF Wires
  <2>3. /\ down'.read = down.read /\ down'.last = down.last /\ Under(down') = Under(down)
        /\ \/ down'.reliable = down.reliable
           \/ down'.reliable = Append(down.reliable, ApplySnapshotMsg(up.msg.snap))
    BY <2>1, <2>2, QueuedEffect DEF TellToApply, Like
  <2>4. \A i \in DOMAIN down'.reliable : IsList(down'.reliable, i) =>
          i \in DOMAIN down.reliable /\ down'.reliable[i] = down.reliable[i]
    BY <2>2, <2>3, AppendItems DEF IsList
  <2> QED BY <1>0, <1>1, <2>1, <2>3, <2>4, AgreedQuiet
<1>8. CASE \/ IgnoreMapLoad(up.msg) \/ AwaitPure(up.msg)
           \/ WrongGame(up.msg) /\ ~MissedGameInit(up.msg)
  <2>1. UNCHANGED <<havePaks, gameInitId, pure, offered, clientState, gameInitSequence,
                    reloaded, down>>
    BY <1>8 DEF IgnoreMapLoad, AwaitPure, WrongGame, serverVars, connectVars
  <2> QED BY <1>0, <1>1, <2>1, AgreedQuiet
<1> QED BY <1>2, <1>5, <1>6, <1>7, <1>8

LEMMA ServerMessageAgreed ==
  ASSUME IInv, ProcessUnreliableServerMessage
  PROVE  Agreed'
<1>0. Types /\ Wires /\ Wires' /\ Agreed /\ Inits
  BY ServerMessageBasics DEF IInv, Agreed
<1>1. /\ Connected /\ Busy(down) /\ Under(down') \subseteq Under(down) /\ down'.last = down.last
      /\ ~Busy(down') /\ down'.read = down.read /\ down'.reliable = down.reliable
      /\ AtHand(down) \in Under(down) /\ AtHand(down).body = down.msg
      /\ AtHand(down).upTo = down.read
      /\ ServerBody(down.msg) /\ UNCHANGED <<serverVars, up>>
      /\ \/ down.msg.kind = "EMPTY" /\ UNCHANGED clientVars
         \/ ProcessGameInit(down.msg)
         \/ IgnoreSnapshot(down.msg)
         \/ ClientReadSnapshot(down.msg)
  BY <1>0, AtHandDown
<1>2. down.upTo = down.read
  BY <1>1 DEF AtHand
<1>3. CASE ProcessGameInit(down.msg)
  <2>1. /\ down.msg.kind = "GAMEINIT" /\ myGameInitId' = down.msg.game
        /\ loadedGame' = IF down.msg.pure THEN loadedGame ELSE down.msg.game
    BY <1>3 DEF ProcessGameInit
  <2>2. /\ myGameInitId < down.msg.game /\ down.msg.game <= gameInitId
        /\ down.msg.game = gameInitId => down.msg.pure = pure
    BY <1>0, <1>1, <2>1 DEF Inits, IsInit, Entered
  <2>3. down.msg.game \in Nat /\ myGameInitId \in Nat /\ gameInitId \in Nat
    BY <1>0, <1>1, <2>1 DEF ServerBody, Types, Connected
  <2>4. myGameInitId < gameInitId /\ myGameInitId # gameInitId
    BY <2>2, <2>3
  <2>5. UNCHANGED <<havePaks, gameInitId, pure, offered, clientState, gameInitSequence,
                    reloaded>>
    BY <1>1 DEF serverVars, connectVars
  <2>6. ~InGame /\ (pure /\ havePaks => clientState = "SCS_PUREWAIT")
    BY <1>0, <1>1, <2>4 DEF Agreed, Loaded, Entered
  <2>7. Entered' = down.msg.game
    BY <2>1, <2>3 DEF Entered, Connected, GAME_INIT_ID_INVALID
  <2>8. Loaded'
    BY <2>1, <2>2, <2>5, <2>6, <2>7 DEF Loaded, InGame, Unlisted
  <2>9. \A i \in DOMAIN up.reliable : /\ up.reliable[i].game \in Nat
                                      /\ up.reliable[i].game <= myGameInitId
    <3>1. \A i \in DOMAIN up.reliable :
            up.reliable[i] \in Receipts /\ up.reliable[i].kind = "PURE"
      BY <1>0 DEF Wires, CarrierOK, Numbered
    <3> QED BY <1>0, <3>1, ReceiptsAre DEF Agreed, Answers
  <2>10. \A i \in DOMAIN up.reliable : /\ up.reliable[i].game < down.msg.game
                                       /\ up.reliable[i].game # down.msg.game
                                       /\ up.reliable[i].game # gameInitId
    BY <2>2, <2>3, <2>9
  <2>11. Answers'
    BY <1>1, <2>1, <2>3, <2>5, <2>9, <2>10 DEF Answers
  <2>12. \A i \in DOMAIN down.reliable :
           IsList(down.reliable, i) /\ down.reliable[i].game = gameInitId =>
             pure /\ havePaks /\ down.last <= gameInitSequence
    BY <1>0, <1>1, <1>2, ListNotMissed DEF Agreed, Lists
  <2>13. Lists'
    BY <1>0, <1>1, <2>1, <2>5, <2>6, <2>10, <2>12 DEF Agreed, Lists, IsList
  <2> QED BY <1>0, <2>5, <2>8, <2>11, <2>13 DEF Agreed
<1>4. CASE ~ProcessGameInit(down.msg)
  <2>1. UNCHANGED <<havePaks, gameInitId, pure, offered, clientState, gameInitSequence,
                    myGameInitId, loadedGame, reloaded, up>>
    BY <1>1, <1>4 DEF clientVars, serverVars, connectVars, IgnoreSnapshot, ClientReadSnapshot
  <2> QED BY <1>0, <1>1, <1>2, <2>1, AgreedQuiet
<1> QED BY <1>3, <1>4

-----------------------------------------------------------------------------
(* Bases and snapshots in step *)

\* What is held after some messages is held now.
LEMMA ChainHeld ==
  ASSUME NEW d, NEW q \in Seq(Receipts), NEW ch, Chain(ch, d, q)
  PROVE  \A i \in 0 .. Len(q) : ch[i].held \subseteq In(d.snapshots)
<1>1. Len(q) \in Nat
  OBVIOUS
<1> DEFINE bad == {i \in 0 .. Len(q) : ~(ch[i].held \subseteq In(d.snapshots))}
<1>2. ASSUME bad # {}
      PROVE  FALSE
  <2>1. bad \in SUBSET Nat
    OBVIOUS
  <2>2. PICK i \in bad : \A j \in bad : i <= j
    BY <1>2, <2>1, NatLeast
  <2>3. i # 0
    BY <2>2 DEF Chain, StartsAt
  <2>4. i \in 1 .. Len(q) /\ i - 1 \in 0 .. Len(q) /\ ~(i <= i - 1)
    BY <1>1, <2>2, <2>3
  <2>5. ch[i - 1].held \subseteq In(d.snapshots)
    BY <2>2, <2>4
  <2>6. ch[i].held \subseteq ch[i - 1].held
    BY <2>4 DEF Chain, Moves
  <2> QED BY <2>2, <2>5, <2>6
<1> QED BY <1>2

LEMMA InSnapshot ==
  ASSUME NEW d, Distinct(d), NEW t \in In(d.snapshots), NEW u \in In(d.snapshots),
         t.sequence = u.sequence
  PROVE  t = u
BY DEF Distinct, In

\* Chains and messages seen from the same place of the list.
LEMMA SyncedQuiet ==
  ASSUME Types, Wires, Wires', Synced, (InGame' <=> InGame), (Connected' <=> Connected),
         UNCHANGED <<gameInitId, myGameInitId, loadedGame, serverDelta, clientDelta,
                     snapshotSequence, mySnapshotSequence, failed, misread>>,
         down'.reliable = down.reliable, down'.read = down.read,
         \A p \in Under(down') : p \in Under(down) \/ (~IsInit(p) /\ ~IsSnapshot(p)),
         \A p \in Under(up') : p \in Under(up) \/ p.body.snap = mySnapshotSequence
  PROVE  Synced'
<1>1. PICK ch : Chained(ch)
  BY DEF Synced
<1>2. mySnapshotSequence \in Nat
  BY DEF Types
<1>3. Sequences'
  BY <1>2 DEF Synced, Sequences, Applies, IsSnapshot
<1>4. Flying'
  BY DEF Synced, Flying, IsSnapshot, IsList
<1>5. Queues'
  BY DEF Synced, Queues, IsList, Applies, IsInit
<1>6. EndsEqual(ch[Len(down.reliable)])'
  BY <1>1 DEF Chained, EndsEqual, Settled
<1>7. Chained(ch)'
  BY <1>1, <1>6 DEF Chained, IsSnapshot, Readable, Settled
<1> QED BY <1>3, <1>4, <1>5, <1>7 DEF Synced

LEMMA SendEmptySynced ==
  ASSUME IInv, Synced, SendEmptyToClient
  PROVE  Synced'
<1>0. Types /\ Wires /\ Wires'
  BY SendEmptyBasics DEF IInv
<1>1. /\ down' = Sent(down, EmptyMsg) /\ UNCHANGED <<serverVars, clientVars, up>>
  BY DEF SendEmptyToClient
<1>2. /\ Like(down, down') /\ down'.reliable = down.reliable
      /\ Under(down') = Under(down) \cup {NextPacket(down, EmptyMsg)}
      /\ NextPacket(down, EmptyMsg).body = EmptyMsg
  BY <1>0, <1>1, SentEffect DEF Wires
<1>3. /\ \A p \in Under(down') : p \in Under(down) \/ (~IsInit(p) /\ ~IsSnapshot(p))
      /\ down'.read = down.read
  BY <1>2 DEF Like, IsInit, IsSnapshot, EmptyMsg
<1>4. /\ UNCHANGED <<gameInitId, myGameInitId, loadedGame, serverDelta, clientDelta,
                     snapshotSequence, mySnapshotSequence, failed, misread, up>>
      /\ (InGame' <=> InGame) /\ (Connected' <=> Connected)
  BY <1>1 DEF serverVars, connectVars, clientVars, InGame, Connected
<1> QED BY <1>0, <1>2, <1>3, <1>4, SyncedQuiet

LEMMA ServerReceiveSynced ==
  ASSUME IInv, Synced, ServerReceive
  PROVE  Synced'
<1>0. Types /\ Wires /\ Wires'
  BY ServerReceiveBasics DEF IInv
<1>1. /\ UNCHANGED <<serverVars, down, clientVars>> /\ Under(up') \subseteq Under(up)
  BY ServerReceiveEffect
<1>2. /\ UNCHANGED <<gameInitId, myGameInitId, loadedGame, serverDelta, clientDelta,
                     snapshotSequence, mySnapshotSequence, failed, misread, down>>
      /\ (InGame' <=> InGame) /\ (Connected' <=> Connected)
  BY <1>1 DEF serverVars, connectVars, clientVars, InGame, Connected
<1> QED BY <1>0, <1>1, <1>2, SyncedQuiet

LEMMA ReadAnswerSynced ==
  ASSUME IInv, Synced, ProcessReliablePure
  PROVE  Synced'
<1>0. Types /\ Wires /\ Wires' /\ Answers
  BY ReadAnswerBasics DEF IInv
<1>1. /\ Under(up') = Under(up) /\ up.reliable \in Seq(Receipts) /\ up.reliable # <<>>
      /\ IF up.reliable[1].game # gameInitId
           THEN UNCHANGED <<clientState, reloaded>>
           ELSE /\ clientState' = "SCS_CONNECTED"
                /\ reloaded' = (reloaded \/ clientState # "SCS_PUREWAIT")
      /\ UNCHANGED <<gameInitId, myGameInitId, loadedGame, serverDelta, clientDelta,
                     snapshotSequence, mySnapshotSequence, failed, misread, down>>
  BY ReadAnswerEffect DEF clientVars
<1>2. 1 \in DOMAIN up.reliable
  BY <1>1, TailItems
<1>3. (InGame' <=> InGame) /\ (Connected' <=> Connected)
  BY <1>0, <1>1, <1>2 DEF InGame, Connected, Answers
<1> QED BY <1>0, <1>1, <1>3, SyncedQuiet

LEMMA ClientReceiveSynced ==
  ASSUME IInv, Synced, ClientReceive
  PROVE  Synced'
<1>0. Types /\ Wires /\ Wires'
  BY ClientReceiveBasics DEF IInv
<1>1. /\ UNCHANGED <<serverVars, clientVars, up>>
      /\ Under(down') \subseteq Under(down)
      /\ down'.reliable = down.reliable /\ down'.read = down.read
  BY ClientReceiveEffect
<1>2. /\ UNCHANGED <<gameInitId, myGameInitId, loadedGame, serverDelta, clientDelta,
                     snapshotSequence, mySnapshotSequence, failed, misread, up>>
      /\ (InGame' <=> InGame) /\ (Connected' <=> Connected)
  BY <1>1 DEF serverVars, connectVars, clientVars, InGame, Connected
<1> QED BY <1>0, <1>1, <1>2, SyncedQuiet

LEMMA ClientSendSynced ==
  ASSUME IInv, Synced, SendToServer \/ PacifierUpdate
  PROVE  Synced'
<1>0. Types /\ Wires /\ Wires'
  BY ClientSendBasics DEF IInv
<1>1. PICK p : /\ Under(up') = Under(up) \cup {p}
               /\ p.body.snap = mySnapshotSequence
  BY ClientSendEffect
<1>2. UNCHANGED <<serverVars, down, clientVars>>
  BY ClientSendEffect
<1>3. /\ UNCHANGED <<gameInitId, myGameInitId, loadedGame, serverDelta, clientDelta,
                     snapshotSequence, mySnapshotSequence, failed, misread, down>>
      /\ (InGame' <=> InGame) /\ (Connected' <=> Connected)
  BY <1>2 DEF serverVars, connectVars, clientVars, InGame, Connected
<1> QED BY <1>0, <1>1, <1>3, SyncedQuiet

\* A GAMEINIT is sent, to a client that is not in its game.
LEMMA InitSentSynced ==
  ASSUME Types, Wires, Wires', Synced, NEW game \in Nat, NEW list \in BOOLEAN,
         NEW paks \in BOOLEAN,
         SendGameInitToClient(game, list, paks), gameInitId' = game, myGameInitId < game,
         serverDelta' = Cleared,
         UNCHANGED <<myGameInitId, loadedGame, snapshotSequence, mySnapshotSequence,
                     clientDelta, failed, misread>>,
         Under(up') \subseteq Under(up)
  PROVE  Synced'
<1> DEFINE q == NextPacket(down, GameInitMsg(game, list))
<1>1. /\ Like(down, down') /\ Under(down') = Under(down) \cup {q}
      /\ down'.reliable = IF list /\ paks THEN Append(down.reliable, PureMsg(game))
                          ELSE down.reliable
      /\ clientState' = IF list /\ paks THEN "SCS_PUREWAIT" ELSE "SCS_CONNECTED"
  BY InitSent
<1>2. IsInit(q) /\ ~IsSnapshot(q) /\ q.upTo = down.read + Len(down.reliable)
  BY GameInitMsgIs
<1> HIDE DEF q
<1>3. /\ PureMsg(game) \in Receipts /\ PureMsg(game).kind = "PURE"
      /\ PureMsg(game).game = game /\ PureMsg(game).kind # "APPLYSNAPSHOT"
      /\ down.reliable \in Seq(Receipts) /\ down.read \in Nat /\ Len(down.reliable) \in Nat
  BY ReceiptsAre, SeqsAre
<1>4. ~InGame' /\ Connected' = Connected /\ down'.read = down.read
  BY <1>1 DEF InGame, Connected, Like
<1>5. \A i \in DOMAIN down'.reliable :
        \/ i \in DOMAIN down.reliable /\ down'.reliable[i] = down.reliable[i]
        \/ i = Len(down.reliable) + 1 /\ down'.reliable[i] = PureMsg(game)
  BY <1>1, <1>3, AppendItems
<1>6. \A i \in DOMAIN down'.reliable : Applies(down'.reliable, i) =>
        /\ Applies(down.reliable, i) /\ i \in DOMAIN down.reliable
        /\ down'.reliable[i] = down.reliable[i]
  BY <1>3, <1>5 DEF Applies
<1>7. \A i \in DOMAIN down.reliable : i \in Nat /\ i <= Len(down.reliable)
  BY <1>3
<1>8. \A p \in Under(down') : IsSnapshot(p) =>
        /\ p \in Under(down) /\ p.body.game <= myGameInitId
        /\ p.body.game \in Nat
  BY <1>1, <1>2 DEF Synced, Flying, Wires, ServerBody, IsSnapshot
<1>9. \A p \in Under(down') : IsSnapshot(p) => p.body.game # game
  <2>1. myGameInitId \in Int
    BY DEF Types, GAME_INIT_ID_INVALID
  <2> QED BY <1>8, <2>1
<1>10. myGameInitId # game
  BY DEF Types
<1>11. Sequences'
  <2>1. Distinct(serverDelta') /\ In(serverDelta'.snapshots) = {}
    BY ClearedFacts
  <2> QED BY <1>1, <1>2, <1>6, <2>1 DEF Synced, Sequences, IsSnapshot
<1>12. Flying'
  <2>1. \A i \in DOMAIN down'.reliable : IsList(down'.reliable, i) =>
          \/ /\ IsList(down.reliable, i) /\ i \in DOMAIN down.reliable
             /\ down'.reliable[i] = down.reliable[i]
          \/ down'.reliable[i].game = game
    BY <1>3, <1>5 DEF IsList
  <2>2. \A p \in Under(down') : IsSnapshot(p) /\ p.body.game = myGameInitId =>
          \A i \in DOMAIN down'.reliable :
            IsList(down'.reliable, i) => down'.reliable[i].game # myGameInitId
    BY <1>8, <1>10, <2>1 DEF Synced, Flying
  <2> QED BY <1>8, <1>9, <2>2 DEF Flying, IsSnapshot, IsList
<1>13. Queues'
  <2>1. ASSUME NEW i \in DOMAIN down'.reliable, NEW j \in DOMAIN down'.reliable,
               IsList(down'.reliable, i), down'.reliable[i].game >= myGameInitId, i < j
        PROVE  ~Applies(down'.reliable, j)
    <3>1. CASE i \in DOMAIN down.reliable /\ down'.reliable[i] = down.reliable[i]
      <4>1. IsList(down.reliable, i)
        BY <2>1, <3>1 DEF IsList
      <4> QED BY <1>6, <2>1, <3>1, <4>1 DEF Synced, Queues
    <3>2. CASE i = Len(down.reliable) + 1
      <4>1. j \notin DOMAIN down.reliable
        BY <1>3, <1>7, <2>1, <3>2
      <4> QED BY <1>6, <4>1
    <3> QED BY <1>5, <3>1, <3>2
  <2>2. ASSUME NEW p \in Under(down'), IsInit(p), NEW j \in DOMAIN down'.reliable,
               down.read + j > p.upTo
        PROVE  ~Applies(down'.reliable, j)
    <3>1. CASE p \in Under(down)
      BY <1>6, <2>2, <3>1 DEF Synced, Queues
    <3>2. CASE p = q
      <4>1. j \notin DOMAIN down.reliable
        BY <1>2, <1>3, <1>7, <2>2, <3>2
      <4> QED BY <1>6, <4>1
    <3> QED BY <1>1, <3>1, <3>2
  <2>3. ~Connected' => \A j \in DOMAIN down'.reliable : ~Applies(down'.reliable, j)
    BY <1>4, <1>6 DEF Synced, Queues
  <2> QED BY <1>4, <1>10, <2>1, <2>2, <2>3 DEF Queues, IsList, Applies, IsInit
<1>14. PICK ch : Chained(ch)
  BY DEF Synced
<1>15. Chain(ch, clientDelta, down.reliable)
       /\ \A p \in Under(down) : IsSnapshot(p) /\ p.body.game = myGameInitId /\ Settled =>
            Readable(p, ch[p.upTo - down.read])
  BY <1>14 DEF Chained
<1>16. \E new : /\ Chain(new, clientDelta, down'.reliable)
                /\ \A i \in 0 .. Len(down.reliable) : new[i] = ch[i]
  <2>1. CASE list /\ paks
    <3>1. \E new : /\ Chain(new, clientDelta, Append(down.reliable, PureMsg(game)))
                   /\ new[Len(down.reliable) + 1] = ch[Len(down.reliable)]
                   /\ \A i \in 0 .. Len(down.reliable) : new[i] = ch[i]
      <4>1. PICK a, r : a = ch[Len(down.reliable)] /\ r = PureMsg(game)
        OBVIOUS
      <4>2. r.kind # "APPLYSNAPSHOT" /\ a = ch[Len(down.reliable)]
        BY <1>3, <4>1
      <4>3. r \in Receipts /\ down.reliable \in Seq(Receipts)
            /\ Chain(ch, clientDelta, down.reliable)
        BY <1>3, <1>15, <4>1
      <4>4. \E new : /\ Chain(new, clientDelta, Append(down.reliable, r))
                     /\ Extends(new, ch, Len(down.reliable), a)
        BY <4>2, <4>3, ChainAppend
      <4> QED BY <4>1, <4>4 DEF Extends
    <3> QED BY <1>1, <2>1, <3>1
  <2>2. CASE ~(list /\ paks)
    BY <1>1, <1>15, <2>2
  <2> QED BY <2>1, <2>2
<1>17. PICK new : /\ Chain(new, clientDelta, down'.reliable)
                  /\ \A i \in 0 .. Len(down.reliable) : new[i] = ch[i]
  BY <1>16
<1>18. \A p \in Under(down') : IsSnapshot(p) /\ p.body.game = myGameInitId /\ Settled =>
         Readable(p, new[p.upTo - down.read])
  <2> TAKE p \in Under(down')
  <2> HAVE IsSnapshot(p) /\ p.body.game = myGameInitId /\ Settled
  <2>1. p \in Under(down)
    BY <1>8
  <2>2. down.upTo \in Nat /\ p.upTo \in Nat /\ down.upTo <= p.upTo
        /\ p.upTo <= down.read + Len(down.reliable) /\ down.read <= down.upTo
    BY <2>1, SeqsAre DEF Wires, CarrierOK, Numbered
  <2>3. p.upTo - down.read \in 0 .. Len(down.reliable)
    BY <1>3, <2>2
  <2> QED BY <1>15, <1>17, <2>1, <2>3
<1>19. EndsEqual(new[Len(down.reliable)])'
  BY <1>4 DEF EndsEqual
<1>20. Chained(new)'
  BY <1>4, <1>17, <1>18, <1>19 DEF Chained, IsSnapshot, Readable, Settled
<1> QED BY <1>11, <1>12, <1>13, <1>20 DEF Synced

LEMMA MapChangeSynced ==
  ASSUME IInv, Synced, NEW list \in BOOLEAN, NEW paks \in BOOLEAN, ExecuteMapChange(list, paks)
  PROVE  Synced'
<1>0. Types /\ Wires /\ Wires' /\ gameInitId + 1 \in Nat
  BY MapChangeBasics DEF IInv, Types
<1>1. /\ gameInitId' = gameInitId + 1
      /\ SendGameInitToClient(gameInitId + 1, list, paks) /\ serverDelta' = Cleared
      /\ UNCHANGED <<myGameInitId, loadedGame, snapshotSequence, mySnapshotSequence,
                     clientDelta, failed, misread, up>>
  BY DEF ExecuteMapChange, MapLoaded, clientVars
<1>2. myGameInitId < gameInitId + 1
  BY <1>0 DEF Types, GAME_INIT_ID_INVALID
<1> QED BY <1>0, <1>1, <1>2, InitSentSynced

\* Where in the list a message finds the client.
LEMMA PlaceIs ==
  ASSUME Wires, NEW p \in Under(down)
  PROVE  /\ p.upTo - down.read \in 0 .. Len(down.reliable) /\ Len(down.reliable) \in Nat
         /\ p.upTo \in Nat /\ down.read \in Nat /\ down.upTo <= p.upTo
<1>1. /\ down.upTo \in Nat /\ p.upTo \in Nat /\ down.upTo <= p.upTo
      /\ p.upTo <= down.read + Len(down.reliable)
      /\ down.read \in Nat /\ Len(down.reliable) \in Nat
  BY SeqsAre
<1>2. down.read <= down.upTo
  BY DEF Wires, CarrierOK, Numbered
<1>3. \A x, y, n \in Nat : y <= x /\ x <= y + n => x - y \in 0 .. n
  OBVIOUS
<1>4. down.read <= p.upTo
  BY <1>1, <1>2
<1> QED BY <1>1, <1>3, <1>4

LEMMA SendSnapshotSynced ==
  ASSUME IInv, Synced, NEW world \in [bound.entities -> State],
         NEW pvs \in SUBSET bound.entities, SendSnapshotToClient(world, pvs)
  PROVE  Synced'
<1>0. Types /\ Wires /\ Wires' /\ Loaded /\ Lists /\ Inits
  BY SendSnapshotBasics DEF IInv
<1>1. PICK d, enc :
           /\ IsDelta(d) /\ d.base = serverDelta.base /\ d.pvs = serverDelta.pvs
           /\ In(d.snapshots) \subseteq In(serverDelta.snapshots)
           /\ Distinct(serverDelta) => Distinct(d)
           /\ Faithful(enc) /\ enc.from.base = d.base /\ enc.from.pvs = d.pvs
           /\ enc.pvs = pvs /\ pvs \in SUBSET (Entity \cup {Garbage})
           /\ serverDelta' = WithSnapshot(d, snapshotSequence, enc.states, pvs)
           /\ down' = Sent(down, SnapshotMsg(gameInitId, snapshotSequence, enc))
           /\ snapshotSequence' = snapshotSequence + 1
           /\ InGame
  BY SendSnapshotEffect
<1>2. /\ UNCHANGED <<gameInitId, myGameInitId, loadedGame, clientDelta, mySnapshotSequence,
                     failed, misread, up>>
      /\ InGame' /\ (Connected' <=> Connected) /\ (Settled' <=> Settled)
  BY <1>1 DEF SendSnapshotToClient, clientVars, InGame, Connected, Settled
<1> DEFINE b == SnapshotMsg(gameInitId, snapshotSequence, enc)
           q == NextPacket(down, b)
           t == [sequence |-> snapshotSequence, states |-> enc.states, pvs |-> pvs]
<1>3. /\ Like(down, down') /\ down'.reliable = down.reliable
      /\ Under(down') = Under(down) \cup {q} /\ q.body = b /\ q.seq = down.next
      /\ q.upTo = down.read + Len(down.reliable)
      /\ \A p \in Under(down) : p.seq < down.next /\ p.seq \in Nat
      /\ down.next \in Nat /\ down.read \in Nat /\ Len(down.reliable) \in Nat
  BY <1>0, <1>1, SentEffect, SeqsAre DEF Wires
<1>4. /\ IsSnapshot(q) /\ ~IsInit(q) /\ q.body.game = gameInitId
      /\ q.body.sequence = snapshotSequence /\ q.body.enc = enc
  BY <1>3 DEF SnapshotMsg, IsSnapshot, IsInit
<1>5. t.sequence = snapshotSequence /\ t.states = enc.states /\ t.pvs = pvs
  OBVIOUS
<1> HIDE DEF b, q
<1>6. snapshotSequence \in Nat /\ mySnapshotSequence \in Nat
  BY <1>0 DEF Types
<1>7. /\ Sequences /\ Flying /\ Queues
  BY DEF Synced
<1>8. \A u \in In(d.snapshots) : u.sequence < snapshotSequence /\ u.sequence \in Nat
  <2>1. \A u \in In(d.snapshots) : u \in In(serverDelta.snapshots) /\ u.sequence \in Nat
    BY <1>1, HeldAre
  <2> QED BY <1>7, <2>1 DEF Sequences
<1>9. /\ serverDelta'.base = serverDelta.base /\ serverDelta'.pvs = serverDelta.pvs
      /\ In(serverDelta'.snapshots) = In(d.snapshots) \cup {t}
      /\ Distinct(serverDelta')
  <2>1. \A u \in In(d.snapshots) : u.sequence # snapshotSequence
    BY <1>6, <1>8
  <2>2. Distinct(d)
    BY <1>1, <1>7 DEF Sequences
  <2>3. enc.states \in Pictures
    BY <1>1 DEF Faithful
  <2> QED BY <1>1, <1>6, <2>1, <2>2, <2>3, WithFacts
<1> HIDE DEF t
<1>10. \A p \in Under(down) : IsSnapshot(p) =>
         /\ p.body.sequence \in Nat /\ p.body.sequence < snapshotSequence
         /\ mySnapshotSequence < p.body.sequence
  BY <1>0, <1>7 DEF Sequences, Wires, ServerBody, IsSnapshot
<1>11. mySnapshotSequence < snapshotSequence
  BY <1>7 DEF Sequences
<1>12. Sequences'
  <2>1. \A u \in In(serverDelta'.snapshots) : u.sequence < snapshotSequence + 1
    BY <1>5, <1>6, <1>8, <1>9
  <2>2. \A p \in Under(down') : IsSnapshot(p) =>
          mySnapshotSequence < p.body.sequence /\ p.body.sequence < snapshotSequence + 1
    BY <1>3, <1>4, <1>6, <1>10, <1>11
  <2>3. \A p, r \in Under(down') :
          IsSnapshot(p) /\ IsSnapshot(r) /\ p.seq < r.seq => p.body.sequence < r.body.sequence
    <3> TAKE p, r \in Under(down')
    <3>1. CASE p \in Under(down) /\ r \in Under(down)
      BY <1>7, <3>1 DEF Sequences
    <3>2. CASE p \in Under(down) /\ r = q
      BY <1>4, <1>10, <3>2
    <3>3. CASE p = q
      BY <1>3, <3>3
    <3> QED BY <1>3, <3>1, <3>2, <3>3
  <2>4. mySnapshotSequence < snapshotSequence + 1
    BY <1>6, <1>11
  <2> QED BY <1>1, <1>2, <1>3, <1>7, <1>9, <2>1, <2>2, <2>3, <2>4
        DEF Sequences, Applies, IsSnapshot
<1>13. myGameInitId = gameInitId
  BY <1>0, <1>1 DEF Loaded
<1>14. \A i \in DOMAIN down.reliable :
         IsList(down.reliable, i) => down.reliable[i].game # myGameInitId
  BY <1>0, <1>1, <1>13 DEF Lists, InGame
<1>15. Flying'
  <2>1. ASSUME NEW p \in Under(down'), IsSnapshot(p)
        PROVE  /\ p.body.game <= myGameInitId
               /\ p.body.game = gameInitId =>
                    \A u \in In(serverDelta'.snapshots) :
                      u.sequence = p.body.sequence =>
                        u.states = p.body.enc.states /\ u.pvs = p.body.enc.pvs
    <3>1. CASE p \in Under(down)
      BY <1>1, <1>5, <1>6, <1>7, <1>9, <1>10, <2>1, <3>1 DEF Flying
    <3>2. CASE p = q
      <4>1. \A u \in In(serverDelta'.snapshots) : u.sequence = snapshotSequence => u = t
        BY <1>6, <1>8, <1>9
      <4>2. gameInitId \in Nat
        BY <1>0 DEF Types
      <4> QED BY <1>1, <1>4, <1>5, <1>13, <3>2, <4>1, <4>2
    <3> QED BY <1>3, <2>1, <3>1, <3>2
  <2> QED BY <1>2, <1>3, <1>14, <2>1 DEF Flying, IsSnapshot, IsList
<1>16. Queues'
  BY <1>2, <1>3, <1>4, <1>7 DEF Queues, IsList, Applies, IsInit, Like
<1>17. PICK ch : Chained(ch)
  BY DEF Synced
<1> DEFINE end == ch[Len(down.reliable)]
<1>18. /\ Chain(ch, clientDelta, down.reliable) /\ EndsEqual(end)
       /\ \A p \in Under(down) : IsSnapshot(p) /\ p.body.game = myGameInitId /\ Settled =>
            Readable(p, ch[p.upTo - down.read])
  BY <1>17 DEF Chained
<1>19. \A u \in end.held : u.sequence <= mySnapshotSequence /\ u.sequence \in Nat
  <2>1. Len(down.reliable) \in 0 .. Len(down.reliable) /\ down.reliable \in Seq(Receipts)
    BY <1>0, <1>3, SeqsAre
  <2>2. end.held \subseteq In(clientDelta.snapshots)
    BY <1>18, <2>1, ChainHeld
  <2>3. \A u \in In(clientDelta.snapshots) : u.sequence \in Nat
    BY <1>0, HeldAre DEF Types
  <2> QED BY <1>7, <2>2, <2>3 DEF Sequences
<1>20. \A p \in Under(up) : p.body.snap <= mySnapshotSequence /\ p.body.snap \in Nat
  BY <1>0, <1>7 DEF Sequences, Wires, ClientBody
<1>21. EndsEqual(end)'
  <2> HIDE DEF end
  <2>1. Settled => end.base = serverDelta'.base /\ end.pvs = serverDelta'.pvs
    BY <1>1, <1>9, <1>18 DEF EndsEqual
  <2>2. ASSUME Settled
        PROVE  \A v \in end.held, u \in In(serverDelta'.snapshots) :
                 v.sequence = u.sequence => v = u
    <3> TAKE v \in end.held, u \in In(serverDelta'.snapshots)
    <3>1. CASE u \in In(d.snapshots)
      BY <1>1, <1>18, <2>2, <3>1 DEF EndsEqual
    <3>2. CASE u = t
      BY <1>5, <1>6, <1>11, <1>19, <3>2
    <3> QED BY <1>9, <3>1, <3>2
  <2>3. ASSUME NEW u \in In(serverDelta'.snapshots)
        PROVE  /\ u.sequence = mySnapshotSequence =>
                    \E v \in end.held : v.sequence = u.sequence
               /\ \A p \in Under(up) :
                    p.body.game = gameInitId /\ p.body.snap = u.sequence =>
                      \E v \in end.held : v.sequence = u.sequence
    <3>1. CASE u \in In(d.snapshots)
      BY <1>1, <1>18, <3>1 DEF EndsEqual
    <3>2. CASE u = t
      BY <1>5, <1>6, <1>11, <1>20, <3>2
    <3> QED BY <1>9, <3>1, <3>2
  <2>4. PICK last : last = end
    OBVIOUS
  <2>5. EndsEqual(last)'
    BY <1>2, <2>1, <2>2, <2>3, <2>4 DEF EndsEqual
  <2> QED BY <1>3, <2>4, <2>5 DEF end
<1>22. Chained(ch)'
  <2>1. Settled => Readable(q, end)
    BY <1>1, <1>4, <1>18 DEF Readable, EndsEqual
  <2>2. q.upTo - down.read = Len(down.reliable)
    BY <1>3
  <2>3. \A p \in Under(down') : IsSnapshot(p) /\ p.body.game = myGameInitId /\ Settled =>
          Readable(p, ch[p.upTo - down.read])
    BY <1>3, <1>18, <2>1, <2>2
  <2> QED BY <1>2, <1>3, <1>18, <1>21, <2>3 DEF Chained, Readable, IsSnapshot, Like
<1> QED BY <1>2, <1>12, <1>15, <1>16, <1>22 DEF Synced

LEMMA ResendSynced ==
  ASSUME IInv, Synced, ProcessUnreliableClientMessage, WrongGame(up.msg), MissedGameInit(up.msg)
  PROVE  Synced'
<1>0. Types /\ Wires /\ Wires' /\ Inits /\ Loaded
  BY ClientMessageBasics DEF IInv
<1>1. /\ SendGameInitToClient(gameInitId, pure, havePaks)
      /\ UNCHANGED <<gameInitId, snapshotSequence, serverDelta, clientVars>>
      /\ myGameInitId # gameInitId /\ Connected
  BY <1>0, ResendFacts
<1>2. /\ gameInitId \in Nat /\ pure \in BOOLEAN /\ havePaks \in BOOLEAN
      /\ myGameInitId < gameInitId
  BY <1>0, <1>1 DEF Types, Connected
<1>3. serverDelta' = Cleared
  BY <1>0, <1>1 DEF Synced, Queues, Loaded
<1>4. Under(up') \subseteq Under(up)
  BY <1>0, AtHandUp
<1>5. UNCHANGED <<myGameInitId, loadedGame, snapshotSequence, mySnapshotSequence,
                  clientDelta, failed, misread>> /\ gameInitId' = gameInitId
  BY <1>1 DEF clientVars
<1> QED BY <1>0, <1>1, <1>2, <1>3, <1>4, <1>5, InitSentSynced

\* The client is let into the game.  If it has loaded the map, neither side has a
\* base yet, and no word to apply a snapshot is on its way; if it waits for a list
\* in vain, it goes on with what it has, and the server with nothing.
LEMMA EnterGameSynced ==
  ASSUME IInv, Synced, ProcessUnreliableClientMessage, EnterGame(up.msg)
  PROVE  Synced'
<1>0. Types /\ Wires /\ Wires' /\ Inits /\ Loaded
  BY ClientMessageBasics DEF IInv
<1>1. /\ up.msg.game = gameInitId /\ ~InGame /\ clientState = "SCS_CONNECTED" /\ InGame'
      /\ UNCHANGED <<gameInitId, snapshotSequence, serverDelta, down>>
  BY DEF EnterGame, InRightGame, InGame
<1>2. /\ AtHand(up) \in Under(up) /\ AtHand(up).body = up.msg /\ Connected
      /\ Under(up') \subseteq Under(up)
      /\ UNCHANGED <<myGameInitId, loadedGame, clientDelta, mySnapshotSequence, failed, misread>>
  BY <1>0, AtHandUp DEF clientVars
<1>3. ~FromMapLoad(AtHand(up)) /\ gameInitId \in Nat /\ myGameInitId \in Nat
      /\ myGameInitId <= gameInitId
  BY <1>0, <1>1, <1>2 DEF FromMapLoad, GAME_INIT_ID_MAP_LOAD, Types, Connected
<1>4. gameInitId <= myGameInitId
  BY <1>0, <1>1, <1>2, <1>3 DEF Inits
<1>5. myGameInitId = gameInitId /\ (Settled' <=> Settled)
  BY <1>2, <1>3, <1>4 DEF Settled
<1>6. /\ serverDelta = Cleared
      /\ Settled => /\ clientDelta = Cleared
                    /\ \A j \in DOMAIN down.reliable : ~Applies(down.reliable, j)
  BY <1>1, <1>5 DEF Synced, Queues, Settled
<1>7. \A p \in Under(down) : IsSnapshot(p) => p.body.game # gameInitId
  BY <1>1 DEF Synced, Flying
<1>8. Sequences'
  BY <1>1, <1>2 DEF Synced, Sequences, Applies, IsSnapshot
<1>9. Flying'
  BY <1>1, <1>2, <1>7 DEF Synced, Flying, IsList, IsSnapshot
<1>10. Queues'
  BY <1>1, <1>2 DEF Synced, Queues, IsList, IsInit, Applies, Connected
<1>11. down.reliable \in Seq(Receipts) /\ Len(down.reliable) \in Nat
  BY <1>0, SeqsAre
<1>12. In(serverDelta.snapshots) = {}
  BY <1>6, ClearedFacts
<1>13. \E ch : /\ Chain(ch, clientDelta, down.reliable)
               /\ Settled => /\ ch[Len(down.reliable)].base = serverDelta.base
                             /\ ch[Len(down.reliable)].pvs = serverDelta.pvs
  <2>1. CASE Settled
    <3>1. PICK ch : /\ Chain(ch, clientDelta, down.reliable)
                    /\ \A i \in 0 .. Len(down.reliable) : StartsAt(ch[i], clientDelta)
      BY <1>6, <1>11, <2>1, ChainConstant
    <3>2. StartsAt(ch[Len(down.reliable)], clientDelta)
      BY <1>11, <3>1
    <3> QED BY <1>6, <2>1, <3>1, <3>2 DEF StartsAt
  <2>2. CASE ~Settled
    BY <2>2 DEF Synced, Chained
  <2> QED BY <2>1, <2>2
<1>14. PICK ch : /\ Chain(ch, clientDelta, down.reliable)
                 /\ Settled => /\ ch[Len(down.reliable)].base = serverDelta.base
                               /\ ch[Len(down.reliable)].pvs = serverDelta.pvs
  BY <1>13
<1>15. PICK end : end = ch[Len(down.reliable)]
  OBVIOUS
<1>16. EndsEqual(end)'
  BY <1>1, <1>5, <1>12, <1>14, <1>15 DEF EndsEqual
<1>17. Chained(ch)'
  BY <1>1, <1>2, <1>5, <1>7, <1>14, <1>15, <1>16 DEF Chained, IsSnapshot
<1> QED BY <1>2, <1>8, <1>9, <1>10, <1>17 DEF Synced

\* The server applies a snapshot that the client has; if it holds it, so does the
\* client by the time it is told to apply it.
LEMMA ServerApplySynced ==
  ASSUME IInv, Synced, ProcessUnreliableClientMessage, ServerApplySnapshot(up.msg)
  PROVE  Synced'
<1>0. Types /\ Wires /\ Wires' /\ Inits /\ Loaded /\ Lists
  BY ClientMessageBasics DEF IInv
<1> DEFINE s == up.msg.snap
<1>1. /\ up.msg.game = gameInitId /\ InGame /\ InGame'
      /\ serverDelta' = ApplySnapshot(serverDelta, s) /\ down' = TellToApply(s)
      /\ UNCHANGED <<gameInitId, snapshotSequence>>
  BY DEF ServerApplySnapshot, InRightGame, InGame
<1>2. /\ AtHand(up) \in Under(up) /\ AtHand(up).body = up.msg /\ Connected /\ s \in Nat
      /\ Under(up') \subseteq Under(up)
      /\ UNCHANGED <<myGameInitId, loadedGame, clientDelta, mySnapshotSequence, failed, misread>>
  BY <1>0, AtHandUp DEF clientVars, ClientBody
<1>3. Sequences /\ Flying /\ Queues
  BY DEF Synced
<1>4. s <= mySnapshotSequence
  BY <1>2, <1>3 DEF Sequences
<1>5. /\ In(serverDelta'.snapshots) = {u \in In(serverDelta.snapshots) : u.sequence > s}
      /\ Distinct(serverDelta')
      /\ Holds(serverDelta, s) =>
           \E t \in In(serverDelta.snapshots) : /\ t.sequence = s
                                                /\ serverDelta'.base =
                                                     Overlay(serverDelta.base, t.states)
                                                /\ serverDelta'.pvs = t.pvs
      /\ ~Holds(serverDelta, s) =>
           serverDelta'.base = serverDelta.base /\ serverDelta'.pvs = serverDelta.pvs
  <2>1. IsDelta(serverDelta) /\ Distinct(serverDelta)
    BY <1>0, <1>3 DEF Types, Sequences
  <2>2. PICK d, k, n : d = serverDelta /\ k = serverDelta' /\ n = s
    OBVIOUS
  <2>3. IsDelta(d) /\ Distinct(d) /\ n \in Nat /\ k = ApplySnapshot(d, n)
    BY <1>1, <1>2, <2>1, <2>2
  <2>4. /\ Distinct(k) /\ In(k.snapshots) = {u \in In(d.snapshots) : u.sequence > n}
        /\ Holds(d, n) =>
             \E t \in In(d.snapshots) : /\ t.sequence = n
                                        /\ k.base = Overlay(d.base, t.states)
                                        /\ k.pvs = t.pvs
        /\ ~Holds(d, n) => k.base = d.base /\ k.pvs = d.pvs
    BY <2>3, ApplyIs
  <2> QED BY <2>2, <2>4
<1> HIDE DEF s
<1>6. myGameInitId = gameInitId /\ (Settled' <=> Settled)
  BY <1>0, <1>1, <1>2 DEF Loaded, Settled
<1>7. \A i \in DOMAIN down.reliable :
        IsList(down.reliable, i) => ~(down.reliable[i].game >= myGameInitId)
  <2>1. down.reliable \in Seq(Receipts) /\ gameInitId \in Nat
    BY <1>0, SeqsAre DEF Types
  <2>2. \A i \in DOMAIN down.reliable : IsList(down.reliable, i) =>
          down.reliable[i].game \in Nat
    BY <2>1, ReceiptsAre DEF IsList
  <2>3. \A i \in DOMAIN down.reliable : IsList(down.reliable, i) =>
          down.reliable[i].game <= gameInitId /\ down.reliable[i].game # gameInitId
    BY <1>0, <1>1, <1>6 DEF Lists, InGame
  <2> QED BY <1>6, <2>1, <2>2, <2>3
<1>8. \A p \in Under(down) : ~IsInit(p)
  <2>1. \A p \in Under(down) : IsInit(p) => p.body.game \in Nat
    BY <1>0 DEF Wires, ServerBody, IsInit
  <2> QED BY <1>0, <1>2, <1>6, <2>1 DEF Inits, Entered, Types
<1>9. PICK ch : Chained(ch)
  BY DEF Synced
<1>10. /\ Chain(ch, clientDelta, down.reliable)
       /\ \A p \in Under(down) : IsSnapshot(p) /\ p.body.game = myGameInitId /\ Settled =>
            Readable(p, ch[p.upTo - down.read])
  BY <1>9 DEF Chained
<1>11. PICK end : end = ch[Len(down.reliable)] /\ EndsEqual(end)
  BY <1>9 DEF Chained
<1>12. \A p \in Under(down) : IsSnapshot(p) =>
         /\ p.body.game <= myGameInitId
         /\ p.body.game = gameInitId =>
              \A u \in In(serverDelta'.snapshots) :
                u.sequence = p.body.sequence =>
                  u.states = p.body.enc.states /\ u.pvs = p.body.enc.pvs
  BY <1>3, <1>5 DEF Flying
<1>13. \A u \in In(serverDelta'.snapshots) : u.sequence < snapshotSequence
  BY <1>3, <1>5 DEF Sequences
<1>14. CASE ~Holds(serverDelta, s)
  <2>1. down' = down
    BY <1>1, <1>14 DEF TellToApply
  <2>2. Sequences'
    BY <1>1, <1>2, <1>3, <1>5, <1>13, <2>1 DEF Sequences, Applies, IsSnapshot
  <2>3. Flying'
    BY <1>1, <1>2, <1>3, <1>12, <2>1 DEF Flying, IsSnapshot, IsList
  <2>4. Queues'
    BY <1>1, <1>2, <1>3, <2>1 DEF Queues, IsList, Applies, IsInit, Connected
  <2>5. EndsEqual(end)'
    BY <1>1, <1>2, <1>5, <1>6, <1>11, <1>14 DEF EndsEqual
  <2>6. Chained(ch)'
    BY <1>2, <1>6, <1>10, <1>11, <2>1, <2>5 DEF Chained, IsSnapshot, Readable
  <2> QED BY <1>2, <2>2, <2>3, <2>4, <2>6 DEF Synced
<1>15. CASE Holds(serverDelta, s)
  <2>1. /\ down' = Queued(down, ApplySnapshotMsg(s))
        /\ ApplySnapshotMsg(s) \in Receipts /\ ApplySnapshotMsg(s).kind = "APPLYSNAPSHOT"
        /\ ApplySnapshotMsg(s).sequence = s /\ CarrierOK(down)
    BY <1>0, <1>1, <1>2, <1>15, ReceiptsAre DEF TellToApply, Wires
  <2>2. /\ Like(down, down') /\ down'.reliable = Append(down.reliable, ApplySnapshotMsg(s))
        /\ Under(down') = Under(down)
    BY <2>1, QueuedEffect
  <2>3. down.reliable \in Seq(Receipts) /\ Len(down.reliable) \in Nat /\ down.read \in Nat
        /\ down'.read = down.read
    BY <1>0, <2>2, SeqsAre DEF Like
  <2>4. \A i \in DOMAIN down'.reliable :
          \/ i \in DOMAIN down.reliable /\ down'.reliable[i] = down.reliable[i]
          \/ i = Len(down.reliable) + 1 /\ down'.reliable[i] = ApplySnapshotMsg(s)
    BY <2>1, <2>2, <2>3, AppendItems
  <2>5. \A i \in DOMAIN down'.reliable : IsList(down'.reliable, i) =>
          /\ i \in DOMAIN down.reliable /\ IsList(down.reliable, i)
          /\ down'.reliable[i] = down.reliable[i]
    BY <2>1, <2>4 DEF IsList
  <2>6. Sequences'
    <3>1. \A i \in DOMAIN down'.reliable : Applies(down'.reliable, i) =>
            down'.reliable[i].sequence <= mySnapshotSequence
      BY <1>3, <1>4, <2>1, <2>4 DEF Applies, Sequences
    <3> QED BY <1>1, <1>2, <1>3, <1>5, <1>13, <2>2, <3>1 DEF Sequences, Applies, IsSnapshot
  <2>7. Flying'
    BY <1>1, <1>2, <1>3, <1>12, <2>2, <2>5 DEF Flying, IsSnapshot, IsList
  <2>8. Queues'
    BY <1>1, <1>2, <1>7, <1>8, <2>2, <2>5 DEF Queues, IsList, Applies, IsInit, Connected
  <2>9. PICK u \in In(serverDelta.snapshots) :
          /\ u.sequence = s /\ serverDelta'.base = Overlay(serverDelta.base, u.states)
          /\ serverDelta'.pvs = u.pvs
    BY <1>5, <1>15
  <2>10. PICK held \in end.held : held.sequence = s /\ (Settled => held = u)
    <3>1. PICK v \in end.held : v.sequence = s
      BY <1>1, <1>2, <1>11, <2>9 DEF EndsEqual, s
    <3>2. Settled => v = u
      BY <1>1, <1>11, <2>9, <3>1 DEF EndsEqual
    <3> QED BY <3>1, <3>2
  <2>11. PICK a : a = [base |-> Overlay(end.base, held.states), pvs |-> held.pvs,
                       held |-> {v \in end.held : v.sequence > s}]
    OBVIOUS
  <2>12. /\ a.base = Overlay(end.base, held.states) /\ a.pvs = held.pvs
         /\ a.held = {v \in end.held : v.sequence > s}
    BY <2>11
  <2>13. Moves(end, a, s)
    BY <2>10, <2>12 DEF Moves
  <2>14. PICK r : r = ApplySnapshotMsg(s)
    OBVIOUS
  <2>15. /\ r.kind = "APPLYSNAPSHOT" => Moves(ch[Len(down.reliable)], a, r.sequence)
         /\ r.kind = "APPLYSNAPSHOT" /\ r \in Receipts
    BY <1>11, <2>1, <2>13, <2>14
  <2>16. PICK new : /\ Chain(new, clientDelta, Append(down.reliable, r))
                    /\ Extends(new, ch, Len(down.reliable), a)
    BY <1>10, <2>3, <2>15, ChainAppend
  <2>17. Settled => a.base = serverDelta'.base /\ a.pvs = serverDelta'.pvs
    BY <1>1, <1>11, <2>9, <2>10, <2>12 DEF EndsEqual
  <2>18. EndsEqual(a)'
    <3>1. Settled => \A v \in a.held, w \in In(serverDelta'.snapshots) :
                       v.sequence = w.sequence => v = w
      BY <1>1, <1>5, <1>11, <2>12 DEF EndsEqual
    <3>2. ASSUME NEW w \in In(serverDelta'.snapshots)
          PROVE  /\ w.sequence = mySnapshotSequence => \E v \in a.held : v.sequence = w.sequence
                 /\ \A p \in Under(up') :
                      p.body.game = gameInitId /\ p.body.snap = w.sequence =>
                        \E v \in a.held : v.sequence = w.sequence
      <4>1. w \in In(serverDelta.snapshots) /\ w.sequence > s
        BY <1>5
      <4>2. (\E v \in end.held : v.sequence = w.sequence) =>
              \E v \in a.held : v.sequence = w.sequence
        BY <2>12, <4>1
      <4> QED BY <1>1, <1>2, <1>11, <4>1, <4>2 DEF EndsEqual
    <3> QED BY <1>1, <1>2, <1>6, <2>17, <3>1, <3>2 DEF EndsEqual
  <2>19. Len(Append(down.reliable, r)) = Len(down.reliable) + 1
    BY <2>3, <2>15
  <2>20. a = new[Len(Append(down.reliable, r))] /\ \A i \in 0 .. Len(down.reliable) : new[i] = ch[i]
    BY <2>16, <2>19 DEF Extends
  <2>21. a = new[Len(down'.reliable)] /\ Chain(new, clientDelta, down'.reliable)
    BY <2>2, <2>14, <2>16, <2>20
  <2>22. \A p \in Under(down') : IsSnapshot(p) /\ p.body.game = myGameInitId /\ Settled =>
           Readable(p, new[p.upTo - down.read])
    BY <1>0, <1>10, <2>2, <2>20, PlaceIs
  <2>23. Chained(new)'
    BY <1>2, <1>6, <2>3, <2>18, <2>21, <2>22 DEF Chained, IsSnapshot, Readable
  <2> QED BY <1>2, <2>6, <2>7, <2>8, <2>23 DEF Synced
<1> QED BY <1>14, <1>15

LEMMA ClientMessageSynced ==
  ASSUME IInv, Synced, ProcessUnreliableClientMessage
  PROVE  Synced'
<1>0. Types /\ Wires /\ Wires'
  BY ClientMessageBasics DEF IInv
<1>1. \/ IgnoreMapLoad(up.msg) \/ WrongGame(up.msg) \/ EnterGame(up.msg)
      \/ ServerApplySnapshot(up.msg) \/ AwaitPure(up.msg)
  BY DEF ProcessUnreliableClientMessage
<1>2. CASE \/ IgnoreMapLoad(up.msg) \/ AwaitPure(up.msg)
           \/ WrongGame(up.msg) /\ ~MissedGameInit(up.msg)
  <2>1. Under(up') \subseteq Under(up) /\ UNCHANGED clientVars
    BY <1>0, AtHandUp
  <2>2. UNCHANGED <<gameInitId, snapshotSequence, serverDelta, clientState, down>>
    BY <1>2 DEF IgnoreMapLoad, AwaitPure, WrongGame, serverVars, connectVars
  <2>3. /\ UNCHANGED <<gameInitId, myGameInitId, loadedGame, serverDelta, clientDelta,
                       snapshotSequence, mySnapshotSequence, failed, misread, down>>
        /\ (InGame' <=> InGame) /\ (Connected' <=> Connected)
    BY <2>1, <2>2 DEF clientVars, InGame, Connected
  <2> QED BY <1>0, <2>1, <2>3, SyncedQuiet
<1>3. CASE WrongGame(up.msg) /\ MissedGameInit(up.msg)
  BY <1>3, ResendSynced
<1>4. CASE EnterGame(up.msg)
  BY <1>4, EnterGameSynced
<1>5. CASE ServerApplySnapshot(up.msg)
  BY <1>5, ServerApplySynced
<1> QED BY <1>1, <1>2, <1>3, <1>4, <1>5

LEMMA ConnectResponseSynced ==
  ASSUME IInv, Synced, ProcessConnectResponse
  PROVE  Synced'
<1>0. Types /\ Wires /\ Wires' /\ Loaded
  BY ConnectResponseBasics DEF IInv
<1>1. /\ ~Connected /\ myGameInitId' = offered /\ loadedGame' = offered
      /\ clientDelta' = Cleared
      /\ UNCHANGED <<serverVars, down, mySnapshotSequence, failed, misread, up>>
  BY DEF ProcessConnectResponse
<1>2. UNCHANGED <<gameInitId, serverDelta, snapshotSequence, clientState>>
  BY <1>1 DEF serverVars
<1>3. Sequences /\ Flying /\ Queues
  BY DEF Synced
<1>4. \A j \in DOMAIN down.reliable : ~Applies(down.reliable, j)
  BY <1>1, <1>3 DEF Queues
<1>5. myGameInitId = -1
  BY <1>1 DEF Connected, GAME_INIT_ID_INVALID
<1>6. \A p \in Under(down) : ~IsSnapshot(p)
  <2>1. \A p \in Under(down) : IsSnapshot(p) => p.body.game \in Nat
    BY <1>0 DEF Wires, ServerBody, IsSnapshot
  <2>2. \A p \in Under(down) : IsSnapshot(p) => p.body.game <= -1
    BY <1>3, <1>5 DEF Flying
  <2> QED BY <2>1, <2>2
<1>7. ~InGame /\ ~InGame'
  BY <1>0, <1>2, <1>5 DEF Loaded, Types, InGame
<1>8. Sequences'
  BY <1>1, <1>2, <1>3, ClearedFacts DEF Sequences, Applies, IsSnapshot
<1>9. Flying'
  BY <1>1, <1>6 DEF Flying, IsSnapshot
<1>10. Queues'
  BY <1>1, <1>2, <1>3, <1>4, <1>7 DEF Queues, IsList, Applies, IsInit
<1>11. down.reliable \in Seq(Receipts) /\ Len(down.reliable) \in Nat
  BY <1>0, SeqsAre
<1>12. PICK ch : Chain(ch, clientDelta', down.reliable)
  <2>1. PICK d : d = clientDelta'
    OBVIOUS
  <2>2. \E ch : Chain(ch, d, down.reliable)
    BY <1>4, <1>11, ChainConstant
  <2> QED BY <2>1, <2>2
<1>13. EndsEqual(ch[Len(down.reliable)])'
  BY <1>7 DEF EndsEqual
<1>14. Chained(ch)'
  BY <1>1, <1>6, <1>12, <1>13 DEF Chained, IsSnapshot
<1> QED BY <1>1, <1>3, <1>8, <1>9, <1>10, <1>14 DEF Synced

\* One reliable message has been read, and what remains follows on.
LEMMA ShiftSynced ==
  ASSUME Types, Wires, Wires', Synced, HasReliable(down), down' = ReadReliable(down),
         UNCHANGED <<serverVars, myGameInitId, mySnapshotSequence, misread>>, ~failed',
         Under(up') = Under(up),
         IsDelta(clientDelta'), Distinct(clientDelta'),
         \A u \in In(clientDelta'.snapshots) : u.sequence <= mySnapshotSequence,
         \/ UNCHANGED <<loadedGame, clientDelta>>
         \/ Applies(down.reliable, 1) /\ loadedGame' = loadedGame
         \/ /\ ~InGame /\ clientDelta' = Cleared
            /\ \A j \in DOMAIN down.reliable : ~Applies(down.reliable, j),
         NEW new, Chain(new, clientDelta', Tail(down.reliable)),
         EndsEqual(new[Len(down.reliable) - 1]),
         \A p \in Under(down) : IsSnapshot(p) /\ p.body.game = myGameInitId /\ Settled' =>
           Readable(p, new[p.upTo - (down.read + 1)])
  PROVE  Synced'
<1>1. /\ Under(down') = Under(down) /\ down'.read = down.read + 1
      /\ down.reliable \in Seq(Receipts) /\ down.reliable # <<>>
      /\ down'.reliable = Tail(down.reliable) /\ down.read \in Nat
      /\ Len(down'.reliable) = Len(down.reliable) - 1 /\ Connected
  BY ReadDown
<1>2. /\ \A i \in DOMAIN down'.reliable :
           /\ i \in Nat /\ i + 1 \in DOMAIN down.reliable
           /\ down'.reliable[i] = down.reliable[i + 1]
      /\ 1 \in DOMAIN down.reliable
  BY <1>1, TailItems
<1>3. \A i \in DOMAIN down'.reliable :
        /\ IsList(down'.reliable, i) <=> IsList(down.reliable, i + 1)
        /\ Applies(down'.reliable, i) <=> Applies(down.reliable, i + 1)
  BY <1>2 DEF IsList, Applies
<1>4. UNCHANGED <<gameInitId, serverDelta, snapshotSequence, clientState>>
      /\ (InGame' <=> InGame) /\ Connected'
  BY <1>1 DEF serverVars, InGame, Connected
<1>5. Sequences /\ Flying /\ Queues
  BY DEF Synced
<1>6. Sequences'
  <2>1. \A i \in DOMAIN down'.reliable : Applies(down'.reliable, i) =>
          down'.reliable[i].sequence <= mySnapshotSequence
    BY <1>2, <1>3, <1>5 DEF Sequences
  <2> QED BY <1>1, <1>4, <1>5, <2>1 DEF Sequences, IsSnapshot, Applies
<1>7. Flying'
  <2>1. \A p \in Under(down) : IsSnapshot(p) /\ p.body.game = myGameInitId =>
          \A i \in DOMAIN down'.reliable :
            IsList(down'.reliable, i) => down'.reliable[i].game # myGameInitId
    BY <1>2, <1>3, <1>5 DEF Flying
  <2> QED BY <1>1, <1>4, <1>5, <2>1 DEF Flying, IsSnapshot, IsList
<1>8. Queues'
  <2>1. ASSUME NEW i \in DOMAIN down'.reliable, NEW j \in DOMAIN down'.reliable,
               IsList(down'.reliable, i), down'.reliable[i].game >= myGameInitId, i < j
        PROVE  ~Applies(down'.reliable, j)
    <3>1. i + 1 < j + 1
      BY <1>2, <2>1
    <3> QED BY <1>2, <1>3, <1>5, <2>1, <3>1 DEF Queues
  <2>2. ASSUME NEW p \in Under(down'), IsInit(p), NEW j \in DOMAIN down'.reliable,
               down'.read + j > p.upTo
        PROVE  ~Applies(down'.reliable, j)
    <3>1. down.read + (j + 1) > p.upTo
      <4>1. j \in Nat /\ down.read \in Nat /\ down'.read = down.read + 1
        BY <1>1, <1>2
      <4>2. down.read + (j + 1) = down'.read + j
        BY <4>1
      <4> QED BY <2>2, <4>2
    <3> QED BY <1>1, <1>2, <1>3, <1>5, <2>2, <3>1 DEF Queues
  <2>3. ASSUME ~InGame, myGameInitId = gameInitId, loadedGame' = gameInitId
        PROVE  /\ clientDelta' = Cleared
               /\ \A j \in DOMAIN down'.reliable : ~Applies(down'.reliable, j)
    <3>1. CASE loadedGame' = loadedGame
      <4>1. clientDelta = Cleared /\ \A j \in DOMAIN down.reliable : ~Applies(down.reliable, j)
        BY <1>5, <2>3, <3>1 DEF Queues
      <4> QED BY <1>2, <1>3, <4>1
    <3>2. CASE loadedGame' # loadedGame
      BY <1>2, <1>3, <3>2
    <3> QED BY <3>1, <3>2
  <2>4. ~InGame => serverDelta = Cleared
    BY <1>5 DEF Queues
  <2> QED BY <1>4, <2>1, <2>2, <2>3, <2>4 DEF Queues, IsList, Applies, IsInit
<1>9. PICK end, n : end = new[n] /\ EndsEqual(end) /\ n = Len(down'.reliable)
  BY <1>1
<1>10. EndsEqual(end)'
  BY <1>4, <1>9 DEF EndsEqual, Settled
<1>11. \A p \in Under(down') : IsSnapshot(p) /\ p.body.game = myGameInitId /\ Settled' =>
         Readable(p, new[p.upTo - down'.read])
  BY <1>1
<1>12. Chained(new)'
  BY <1>1, <1>9, <1>10, <1>11 DEF Chained, IsSnapshot, Readable
<1>13. ~misread'
  BY DEF Synced
<1> QED BY <1>6, <1>7, <1>8, <1>12, <1>13 DEF Synced

\* The chain without its first link, when that link has been followed.
LEMMA ShiftedChain ==
  ASSUME Types, Wires, HasReliable(down), NEW ch, Chained(ch), NEW d, StartsAt(ch[1], d)
  PROVE  \E new : /\ Chain(new, d, Tail(down.reliable))
                  /\ EndsEqual(new[Len(down.reliable) - 1])
                  /\ \A p \in Under(down) : IsSnapshot(p) /\ p.body.game = myGameInitId
                                              /\ Settled =>
                       Readable(p, new[p.upTo - (down.read + 1)])
<1>1. CarrierOK(down) /\ down.read < down.upTo
  BY DEF Wires, HasReliable
<1>2. down.reliable \in Seq(Receipts) /\ down.reliable # <<>> /\ Len(down.reliable) \in Nat
      /\ down.read \in Nat /\ down.upTo \in Nat
  BY <1>1, ReadEffect, SeqsAre
<1>3. PICK n \in Nat : n = Len(down.reliable)
  BY <1>2
<1>4. n # 0
  BY <1>2, <1>3
<1> DEFINE new == [i \in 0 .. n - 1 |-> ch[i + 1]]
<1>5. Chain(new, d, Tail(down.reliable))
  BY <1>2, <1>3, ChainShift DEF Chained
<1>6. new[n - 1] = ch[n]
  <2>1. n - 1 \in 0 .. n - 1 /\ (n - 1) + 1 = n
    BY <1>4
  <2> QED BY <2>1
<1>7. EndsEqual(new[n - 1])
  BY <1>3, <1>6 DEF Chained
<1>8. ASSUME NEW p \in Under(down), IsSnapshot(p), p.body.game = myGameInitId, Settled
      PROVE  Readable(p, new[p.upTo - (down.read + 1)])
  <2>1. /\ p.upTo - down.read \in 0 .. n /\ p.upTo \in Nat /\ down.upTo <= p.upTo
    BY <1>3, PlaceIs
  <2>2. PICK x, y, z \in Nat : x = p.upTo /\ y = down.read /\ z = down.upTo
    BY <1>2, <2>1
  <2>3. x - y \in 0 .. n /\ z <= x /\ y < z
    BY <1>1, <2>1, <2>2
  <2>4. x - (y + 1) \in 0 .. n - 1 /\ (x - (y + 1)) + 1 = x - y
    BY <2>3
  <2>5. new[x - (y + 1)] = ch[x - y]
    BY <2>4
  <2> QED BY <1>8, <2>2, <2>5 DEF Chained
<1> HIDE DEF new
<1> QED BY <1>3, <1>5, <1>7, <1>8

\* The snapshot to apply is held.
LEMMA ClientApplySynced ==
  ASSUME IInv, Synced, ClientApplySnapshot
  PROVE  Synced'
<1>0. Types /\ Wires /\ Wires'
  BY ClientApplyBasics DEF IInv
<1> DEFINE s == down.reliable[1].sequence
<1>1. /\ HasReliable(down) /\ down' = ReadReliable(down) /\ Applies(down.reliable, 1)
      /\ s \in Nat /\ clientDelta' = ApplySnapshot(clientDelta, s)
      /\ failed' = (failed \/ ~Holds(clientDelta, s))
      /\ UNCHANGED <<serverVars, myGameInitId, loadedGame, mySnapshotSequence, misread, up>>
  BY ClientApplyEffect
<1>2. PICK ch : Chained(ch)
  BY DEF Synced
<1>3. down.reliable \in Seq(Receipts) /\ down.reliable # <<>>
  BY <1>0, <1>1, ReadDown
<1>4. 1 \in 1 .. Len(down.reliable)
  BY <1>3
<1>5. StartsAt(ch[0], clientDelta) /\ Moves(ch[0], ch[1], s)
  <2>1. 1 - 1 = 0
    OBVIOUS
  <2> QED BY <1>1, <1>2, <1>4, <2>1 DEF Chained, Chain
<1>6. PICK d, k, n : d = clientDelta /\ k = clientDelta' /\ n = s
  OBVIOUS
<1> HIDE DEF s
<1>7. IsDelta(d) /\ Distinct(d) /\ n \in Nat /\ k = ApplySnapshot(d, n)
  BY <1>0, <1>1, <1>6 DEF Types, Synced, Sequences
<1>8. PICK t \in In(d.snapshots) : /\ t.sequence = n
                                   /\ ch[1].base = Overlay(d.base, t.states)
                                   /\ ch[1].pvs = t.pvs
  BY <1>5, <1>6 DEF StartsAt, Moves
<1>9. ch[1].held = {u \in In(d.snapshots) : u.sequence > n}
  BY <1>5, <1>6 DEF StartsAt, Moves
<1>10. Holds(d, n)
  BY <1>8, HoldsIs
<1>11. /\ IsDelta(k) /\ Distinct(k) /\ In(k.snapshots) = {u \in In(d.snapshots) : u.sequence > n}
       /\ \E u \in In(d.snapshots) : /\ u.sequence = n
                                     /\ k.base = Overlay(d.base, u.states)
                                     /\ k.pvs = u.pvs
  BY <1>7, <1>10, ApplyIs
<1>12. k.base = Overlay(d.base, t.states) /\ k.pvs = t.pvs
  BY <1>7, <1>8, <1>11, InSnapshot
<1>13. StartsAt(ch[1], k)
  BY <1>8, <1>9, <1>11, <1>12 DEF StartsAt
<1>14. ~failed'
  BY <1>1, <1>6, <1>10 DEF Synced
<1>15. \A u \in In(k.snapshots) : u.sequence <= mySnapshotSequence
  BY <1>6, <1>11 DEF Synced, Sequences
<1>16. PICK new : /\ Chain(new, k, Tail(down.reliable))
                  /\ EndsEqual(new[Len(down.reliable) - 1])
                  /\ \A p \in Under(down) : IsSnapshot(p) /\ p.body.game = myGameInitId
                                              /\ Settled =>
                       Readable(p, new[p.upTo - (down.read + 1)])
  BY <1>0, <1>1, <1>2, <1>13, ShiftedChain
<1>17. Settled' <=> Settled
  BY <1>1 DEF Settled
<1> QED BY <1>0, <1>1, <1>6, <1>11, <1>14, <1>15, <1>16, <1>17, ShiftSynced

LEMMA ReadListSynced ==
  ASSUME IInv, Synced, ProcessReliableMessagePure
  PROVE  Synced'
<1>0. Types /\ Wires /\ Wires' /\ Lists
  BY ReadListBasics DEF IInv
<1>1. /\ HasReliable(down) /\ down' = ReadReliable(down)
      /\ IsList(down.reliable, 1)
      /\ UNCHANGED <<serverVars, myGameInitId, mySnapshotSequence, failed, misread>>
  BY ReadListEffect
<1>2. ~failed' /\ Sequences /\ Flying /\ Queues
  BY <1>1 DEF Synced
<1>3. down.reliable \in Seq(Receipts) /\ down.reliable # <<>> /\ Connected
      /\ down.read \in Nat
  BY <1>0, <1>1, ReadDown
<1>4. 1 \in DOMAIN down.reliable /\ 1 \in 1 .. Len(down.reliable) /\ Len(down.reliable) \in Nat
  BY <1>3
<1>5. ~Applies(down.reliable, 1)
  BY <1>1 DEF IsList, Applies
<1>6. CASE UNCHANGED <<loadedGame, clientDelta, up>>
  <2>1. PICK ch : Chained(ch)
    BY DEF Synced
  <2>2. StartsAt(ch[1], clientDelta)
    <3>1. 1 - 1 = 0
      OBVIOUS
    <3> QED BY <1>4, <1>5, <2>1, <3>1 DEF Chained, Chain
  <2>3. PICK new : /\ Chain(new, clientDelta, Tail(down.reliable))
                   /\ EndsEqual(new[Len(down.reliable) - 1])
                   /\ \A p \in Under(down) : IsSnapshot(p) /\ p.body.game = myGameInitId
                                               /\ Settled =>
                        Readable(p, new[p.upTo - (down.read + 1)])
    BY <1>0, <1>1, <2>1, <2>2, ShiftedChain
  <2>4. IsDelta(clientDelta) /\ Distinct(clientDelta)
        /\ \A u \in In(clientDelta.snapshots) : u.sequence <= mySnapshotSequence
    BY <1>0, <1>2 DEF Types, Sequences
  <2>5. Settled' <=> Settled
    BY <1>1, <1>6 DEF Settled
  <2> QED BY <1>0, <1>1, <1>2, <1>6, <2>3, <2>4, <2>5, ShiftSynced
<1>7. CASE /\ down.reliable[1].game = myGameInitId
           /\ loadedGame' = myGameInitId
           /\ clientDelta' = Cleared
           /\ up' = Queued(up, PureMsg(myGameInitId))
  <2>1. myGameInitId \in Nat
    BY <1>0, <1>3 DEF Types, Connected
  <2>2. \A j \in DOMAIN down.reliable : ~Applies(down.reliable, j)
    <3> TAKE j \in DOMAIN down.reliable
    <3>1. CASE j = 1
      BY <1>5, <3>1
    <3>2. CASE j # 1
      <4>1. j \in Nat /\ j >= 1
        BY <1>3
      <4>2. 1 < j /\ down.reliable[1].game >= myGameInitId
        BY <1>7, <2>1, <3>2, <4>1
      <4> QED BY <1>1, <1>2, <1>4, <4>2 DEF Queues
    <3> QED BY <3>1, <3>2
  <2>3. \A p \in Under(down) : IsSnapshot(p) => p.body.game # myGameInitId
    BY <1>1, <1>2, <1>4, <1>7 DEF Flying
  <2>4. ~InGame
    BY <1>0, <1>1, <1>4, <1>7 DEF Lists, InGame, IInv, Loaded
  <2>5. Tail(down.reliable) \in Seq(Receipts)
        /\ \A j \in DOMAIN Tail(down.reliable) : ~Applies(Tail(down.reliable), j)
    <3>1. /\ Tail(down.reliable) \in Seq(Receipts)
          /\ \A j \in DOMAIN Tail(down.reliable) :
               j + 1 \in DOMAIN down.reliable /\ Tail(down.reliable)[j] = down.reliable[j + 1]
      BY <1>3, TailItems
    <3> QED BY <2>2, <3>1 DEF Applies
  <2>6. PICK new : Chain(new, Cleared, Tail(down.reliable))
    BY <2>5, ChainConstant
  <2>7. EndsEqual(new[Len(down.reliable) - 1])
    BY <2>4 DEF EndsEqual
  <2>8. Under(up') = Under(up)
    <3>1. IsCarrier(up)
      BY <1>0 DEF Wires, CarrierOK, Numbered
    <3> QED BY <1>7, <3>1, QueuedFields
  <2>9. IsDelta(clientDelta') /\ Distinct(clientDelta')
        /\ \A u \in In(clientDelta'.snapshots) : u.sequence <= mySnapshotSequence
    BY <1>7, ClearedFacts
  <2>10. /\ Chain(new, clientDelta', Tail(down.reliable))
         /\ \A p \in Under(down) : IsSnapshot(p) /\ p.body.game = myGameInitId /\ Settled' =>
              Readable(p, new[p.upTo - (down.read + 1)])
    BY <1>7, <2>3, <2>6
  <2> QED BY <1>0, <1>1, <1>2, <1>7, <2>2, <2>4, <2>7, <2>8, <2>9, <2>10, ShiftSynced
<1> QED BY <1>6, <1>7, ReadListEffect

\* A GAMEINIT for a game to come: the last word to apply a snapshot has been read.
LEMMA GameInitSynced ==
  ASSUME IInv, Synced, ProcessUnreliableServerMessage, ProcessGameInit(down.msg)
  PROVE  Synced'
<1>0. Types /\ Wires /\ Wires' /\ Inits /\ Loaded
  BY ServerMessageBasics DEF IInv
<1>1. /\ Connected /\ Under(down') \subseteq Under(down)
      /\ down'.reliable = down.reliable /\ down'.read = down.read
      /\ AtHand(down) \in Under(down) /\ AtHand(down).body = down.msg
      /\ AtHand(down).upTo = down.read
      /\ ServerBody(down.msg) /\ UNCHANGED <<serverVars, up>>
  BY <1>0, AtHandDown
<1>2. /\ down.msg.kind = "GAMEINIT" /\ myGameInitId' = down.msg.game
      /\ loadedGame' = IF down.msg.pure THEN loadedGame ELSE down.msg.game
      /\ clientDelta' = IF down.msg.pure THEN clientDelta ELSE Cleared
      /\ UNCHANGED <<mySnapshotSequence, failed, misread>>
  BY DEF ProcessGameInit
<1>3. IsInit(AtHand(down)) /\ myGameInitId < down.msg.game /\ down.msg.game <= gameInitId
      /\ down.msg.game \in Nat /\ myGameInitId \in Nat /\ gameInitId \in Nat
  BY <1>0, <1>1, <1>2 DEF Inits, IsInit, Entered, ServerBody, Types, Connected
<1>4. myGameInitId < gameInitId /\ myGameInitId # gameInitId
  BY <1>3
<1>5. /\ UNCHANGED <<gameInitId, serverDelta, snapshotSequence, clientState>>
      /\ ~InGame /\ ~InGame' /\ Connected'
  BY <1>0, <1>1, <1>2, <1>3, <1>4
     DEF serverVars, Loaded, InGame, Connected, GAME_INIT_ID_INVALID
<1>6. Sequences /\ Flying /\ Queues
  BY DEF Synced
<1>7. down.reliable \in Seq(Receipts) /\ down.read \in Nat /\ Len(down.reliable) \in Nat
  BY <1>0, SeqsAre
<1>8. \A j \in DOMAIN down.reliable : ~Applies(down.reliable, j)
  <2> TAKE j \in DOMAIN down.reliable
  <2>1. j \in Nat /\ j >= 1
    BY <1>7
  <2>2. down.read + j > AtHand(down).upTo
    BY <1>1, <1>7, <2>1
  <2> QED BY <1>1, <1>3, <1>6, <2>2 DEF Queues
<1>9. Distinct(clientDelta') /\ \A u \in In(clientDelta'.snapshots) :
                                  u.sequence <= mySnapshotSequence
  BY <1>2, <1>6, ClearedFacts DEF Sequences
<1>10. Sequences'
  BY <1>1, <1>2, <1>5, <1>6, <1>9 DEF Sequences, Applies, IsSnapshot
<1>11. \A p \in Under(down) : IsSnapshot(p) =>
         p.body.game <= down.msg.game /\ p.body.game # down.msg.game /\ p.body.game # gameInitId
  <2>1. \A p \in Under(down) : IsSnapshot(p) =>
          p.body.game \in Nat /\ p.body.game <= myGameInitId
    BY <1>0, <1>6 DEF Flying, Wires, ServerBody, IsSnapshot
  <2> QED BY <1>3, <1>4, <2>1
<1>12. Flying'
  BY <1>1, <1>2, <1>5, <1>11 DEF Flying, IsSnapshot
<1>13. myGameInitId' = gameInitId /\ loadedGame' = gameInitId => clientDelta' = Cleared
  <2>1. loadedGame # gameInitId
    BY <1>0, <1>3 DEF Types
  <2> QED BY <1>2, <2>1
<1>14. Queues'
  BY <1>1, <1>5, <1>6, <1>8, <1>13 DEF Queues, IsList, Applies, IsInit
<1>15. PICK ch : Chain(ch, clientDelta', down.reliable)
  <2>1. PICK d : d = clientDelta'
    OBVIOUS
  <2>2. \E ch : Chain(ch, d, down.reliable)
    BY <1>7, <1>8, ChainConstant
  <2> QED BY <2>1, <2>2
<1>16. PICK q : q = down.reliable /\ q = down'.reliable
  BY <1>1
<1>17. PICK end : end = ch[Len(q)]
  OBVIOUS
<1>18. EndsEqual(end)'
  BY <1>5 DEF EndsEqual
<1>19. Chained(ch)'
  BY <1>1, <1>2, <1>11, <1>15, <1>16, <1>17, <1>18 DEF Chained, IsSnapshot
<1> QED BY <1>2, <1>10, <1>12, <1>14, <1>19 DEF Synced

\* A snapshot read against the base it was written against.
LEMMA ReadAgainstTheSame ==
  ASSUME NEW d, NEW enc, Faithful(enc), enc.from.base = d.base, enc.from.pvs = d.pvs
  PROVE  /\ DecodedStates(d, enc) = enc.states /\ DecodedPVS(d, enc) = enc.pvs
         /\ View(d, enc.states, enc.pvs) = enc.truth
<1>1. DecodedPVS(d, enc) = enc.pvs
  BY DEF DecodedPVS
<1>2. PICK D \in SUBSET Entity : enc.states \in [D -> State \cup {Garbage}]
  BY DEF Faithful, Pictures
<1>3. DecodedStates(d, enc) = enc.states
  BY <1>2 DEF DecodedStates
<1>4. View(d, enc.states, enc.pvs) = enc.truth
  BY DEF View, Faithful
<1> QED BY <1>1, <1>3, <1>4

LEMMA ReadSnapshotSynced ==
  ASSUME IInv, Synced, ProcessUnreliableServerMessage, ClientReadSnapshot(down.msg)
  PROVE  Synced'
<1>0. Types /\ Wires /\ Wires' /\ Loaded
  BY ServerMessageBasics DEF IInv
<1> DEFINE enc == down.msg.enc
           number == down.msg.sequence
           states == DecodedStates(clientDelta, enc)
           pvs == DecodedPVS(clientDelta, enc)
<1>1. /\ Connected /\ Under(down') \subseteq Under(down)
      /\ \A p \in Under(down') : p.seq > down.last
      /\ down'.reliable = down.reliable /\ down'.read = down.read
      /\ AtHand(down) \in Under(down) /\ AtHand(down).body = down.msg
      /\ AtHand(down).seq = down.last /\ AtHand(down).upTo = down.read
      /\ ServerBody(down.msg) /\ UNCHANGED <<serverVars, up>>
  BY <1>0, AtHandDown
<1>2. /\ down.msg.kind = "SNAPSHOT" /\ down.msg.game = myGameInitId
      /\ mySnapshotSequence' = number
      /\ clientDelta' = WithSnapshot(clientDelta, number, states, pvs)
      /\ misread' = (misread \/ (Settled /\ View(clientDelta, states, pvs) # enc.truth))
      /\ UNCHANGED <<myGameInitId, loadedGame, failed>>
  BY DEF ClientReadSnapshot
<1>3. number \in Nat /\ Faithful(enc) /\ IsSnapshot(AtHand(down))
      /\ AtHand(down).body.game = myGameInitId
      /\ AtHand(down).body.enc = enc /\ AtHand(down).body.sequence = number
  BY <1>1, <1>2 DEF ServerBody, IsSnapshot
<1>4. Sequences /\ Flying /\ Queues
  BY DEF Synced
<1>5. PICK ch : Chained(ch)
  BY DEF Synced
<1>6. /\ Chain(ch, clientDelta, down.reliable)
      /\ \A p \in Under(down) : IsSnapshot(p) /\ p.body.game = myGameInitId /\ Settled =>
           Readable(p, ch[p.upTo - down.read])
  BY <1>5 DEF Chained
<1>7. PICK end : end = ch[Len(down.reliable)] /\ EndsEqual(end)
  BY <1>5 DEF Chained
<1>8. ASSUME Settled
      PROVE  states = enc.states /\ pvs = enc.pvs /\ View(clientDelta, states, pvs) = enc.truth
  <2>1. down.read \in Nat /\ AtHand(down).upTo - down.read = 0
    BY <1>0, <1>1, SeqsAre
  <2>2. Readable(AtHand(down), ch[0])
    BY <1>1, <1>3, <1>6, <1>8, <2>1
  <2>3. PICK d, e : d = clientDelta /\ e = enc
    OBVIOUS
  <2>4. Faithful(e) /\ e.from.base = d.base /\ e.from.pvs = d.pvs
    BY <1>3, <1>6, <2>2, <2>3 DEF Readable, Chain, StartsAt
  <2>5. /\ DecodedStates(d, e) = e.states /\ DecodedPVS(d, e) = e.pvs
        /\ View(d, e.states, e.pvs) = e.truth
    BY <2>4, ReadAgainstTheSame
  <2> QED BY <2>3, <2>5
<1> HIDE DEF enc, number
<1>9. /\ states \in Pictures /\ pvs \in SUBSET (Entity \cup {Garbage})
      /\ ~misread' /\ ~failed' /\ (Settled' <=> Settled)
  <2>1. ~misread /\ ~failed
    BY DEF Synced
  <2>2. Settled' <=> Settled
    BY <1>2 DEF Settled
  <2> QED BY <1>2, <1>3, <1>8, <2>1, <2>2, DecodedTypes
<1> HIDE DEF states, pvs
<1>10. PICK t : t = [sequence |-> number, states |-> states, pvs |-> pvs]
  OBVIOUS
<1>11. t.sequence = number /\ t.states = states /\ t.pvs = pvs
  BY <1>10
<1>12. /\ mySnapshotSequence < number /\ number < snapshotSequence
       /\ mySnapshotSequence \in Nat
  BY <1>0, <1>1, <1>3, <1>4 DEF Sequences, Types
<1>13. \A u \in In(clientDelta.snapshots) : u.sequence \in Nat /\ u.sequence <= mySnapshotSequence
  BY <1>0, <1>4, HeldAre DEF Types, Sequences
<1>14. /\ clientDelta'.base = clientDelta.base /\ clientDelta'.pvs = clientDelta.pvs
       /\ In(clientDelta'.snapshots) = In(clientDelta.snapshots) \cup {t}
       /\ Distinct(clientDelta')
  <2>1. \A u \in In(clientDelta.snapshots) : u.sequence # number
    BY <1>3, <1>12, <1>13
  <2>3. IsDelta(clientDelta) /\ Distinct(clientDelta)
    BY <1>0, <1>4 DEF Types, Sequences
  <2>4. PICK d, s, v : d = clientDelta /\ s = states /\ v = pvs
    OBVIOUS
  <2>5. PICK k, n : k = clientDelta' /\ n = number
    OBVIOUS
  <2>6. k = WithSnapshot(d, n, s, v) /\ IsDelta(d) /\ Distinct(d) /\ n \in Nat
        /\ s \in Pictures /\ v \in SUBSET (Entity \cup {Garbage})
        /\ \A u \in In(d.snapshots) : u.sequence # n
    BY <1>2, <1>3, <1>9, <2>1, <2>3, <2>4, <2>5
  <2>7. /\ k.base = d.base /\ k.pvs = d.pvs
        /\ In(k.snapshots) = In(d.snapshots) \cup {[sequence |-> n, states |-> s, pvs |-> v]}
        /\ Distinct(k)
    BY <2>6, WithFacts
  <2> QED BY <1>10, <2>4, <2>5, <2>7
<1>15. /\ UNCHANGED <<gameInitId, serverDelta, snapshotSequence, clientState>>
       /\ (InGame' <=> InGame) /\ (Connected' <=> Connected)
  BY <1>1, <1>2 DEF serverVars, InGame, Connected
<1>16. \A p \in Under(up) : p.body.snap \in Nat /\ p.body.snap <= mySnapshotSequence
  BY <1>0, <1>4 DEF Wires, ClientBody, Sequences
<1>17. down.reliable \in Seq(Receipts) /\ down.read \in Nat /\ Len(down.reliable) \in Nat
  BY <1>0, SeqsAre
<1>18. \A i \in DOMAIN down.reliable : Applies(down.reliable, i) =>
         down.reliable[i].sequence \in Nat /\ down.reliable[i].sequence <= mySnapshotSequence
  <2>1. \A i \in DOMAIN down.reliable : down.reliable[i] \in Receipts
    BY <1>17
  <2>2. \A i \in DOMAIN down.reliable : Applies(down.reliable, i) =>
          down.reliable[i].sequence \in Nat
    BY <2>1, ReceiptsAre DEF Applies
  <2> QED BY <1>4, <2>2 DEF Sequences
<1>19. Sequences'
  <2>1. \A u \in In(clientDelta'.snapshots) : u.sequence <= number
    BY <1>3, <1>11, <1>12, <1>13, <1>14
  <2>2. \A p \in Under(up') : p.body.snap <= number
    BY <1>1, <1>3, <1>12, <1>16
  <2>3. \A i \in DOMAIN down.reliable : Applies(down.reliable, i) =>
          down.reliable[i].sequence <= number
    BY <1>3, <1>12, <1>18
  <2>4. \A p \in Under(down') : IsSnapshot(p) => number < p.body.sequence
    BY <1>1, <1>3, <1>4 DEF Sequences
  <2> QED BY <1>1, <1>2, <1>4, <1>12, <1>14, <1>15, <2>1, <2>2, <2>3, <2>4
        DEF Sequences, Applies, IsSnapshot
<1>20. Flying'
  BY <1>1, <1>2, <1>4, <1>15 DEF Flying, IsSnapshot, IsList
<1>21. InGame \/ myGameInitId # gameInitId
  BY <1>1, <1>3, <1>4 DEF Flying
<1>22. Queues'
  BY <1>1, <1>2, <1>4, <1>15, <1>21 DEF Queues, IsList, Applies, IsInit
<1>23. PICK d : d = clientDelta'
  OBVIOUS
<1>24. \A i \in DOMAIN down.reliable : Applies(down.reliable, i) =>
         down.reliable[i].sequence < t.sequence
  BY <1>3, <1>11, <1>12, <1>18
<1>25. PICK new : /\ Chain(new, d, down.reliable)
                  /\ Joined(new, ch, Len(down.reliable), t)
  <2>1. PICK d0, q : d0 = clientDelta /\ q = down.reliable
    OBVIOUS
  <2>2. /\ d.base = d0.base /\ d.pvs = d0.pvs
        /\ In(d.snapshots) = In(d0.snapshots) \cup {t}
        /\ t.sequence \in Nat
    BY <1>3, <1>11, <1>14, <1>23, <2>1
  <2>3. /\ q \in Seq(Receipts) /\ Chain(ch, d0, q)
        /\ \A i \in DOMAIN q : Applies(q, i) => q[i].sequence < t.sequence
    BY <1>6, <1>17, <1>24, <2>1
  <2>4. \E new : Chain(new, d, q) /\ Joined(new, ch, Len(q), t)
    BY <2>2, <2>3, ChainAdd
  <2> QED BY <2>1, <2>4
<1>26. PICK last : last = new[Len(down.reliable)]
  OBVIOUS
<1>27. last.base = end.base /\ last.pvs = end.pvs /\ last.held = end.held \cup {t}
  <2>1. Len(down.reliable) \in 0 .. Len(down.reliable)
    BY <1>17
  <2> QED BY <1>7, <1>25, <1>26, <2>1 DEF Joined
<1>28. ASSUME InGame, Settled, NEW u \in In(serverDelta.snapshots), u.sequence = number
       PROVE  u = t
  <2>1. myGameInitId = gameInitId
    BY <1>0, <1>28 DEF Loaded
  <2>2. u.states = enc.states /\ u.pvs = enc.pvs
    BY <1>1, <1>3, <1>4, <1>28, <2>1 DEF Flying
  <2>3. u \in Snapshots
    BY <1>0, HeldAre DEF Types
  <2>4. u = [sequence |-> u.sequence, states |-> u.states, pvs |-> u.pvs]
    BY <2>3 DEF Snapshots
  <2> QED BY <1>8, <1>10, <1>28, <2>2, <2>4
<1>29. EndsEqual(last)'
  <2> SUFFICES ASSUME InGame
               PROVE  /\ Settled =>
                           /\ last.base = serverDelta.base /\ last.pvs = serverDelta.pvs
                           /\ \A v \in last.held, u \in In(serverDelta.snapshots) :
                                v.sequence = u.sequence => v = u
                      /\ \A u \in In(serverDelta.snapshots) :
                           /\ u.sequence = number => \E v \in last.held : v.sequence = u.sequence
                           /\ \A p \in Under(up) :
                                p.body.game = gameInitId /\ p.body.snap = u.sequence =>
                                  \E v \in last.held : v.sequence = u.sequence
    BY <1>1, <1>2, <1>9, <1>15 DEF EndsEqual
  <2>1. ASSUME Settled
        PROVE  /\ last.base = serverDelta.base /\ last.pvs = serverDelta.pvs
               /\ \A v \in last.held, u \in In(serverDelta.snapshots) :
                    v.sequence = u.sequence => v = u
    <3>1. last.base = serverDelta.base /\ last.pvs = serverDelta.pvs
      BY <1>7, <1>27, <2>1 DEF EndsEqual
    <3>2. \A v \in last.held, u \in In(serverDelta.snapshots) :
            v.sequence = u.sequence => v = u
      BY <1>7, <1>11, <1>27, <1>28, <2>1 DEF EndsEqual
    <3> QED BY <3>1, <3>2
  <2>2. \A u \in In(serverDelta.snapshots) :
          u.sequence = number => \E v \in last.held : v.sequence = u.sequence
    BY <1>11, <1>27
  <2>3. \A u \in In(serverDelta.snapshots) : \A p \in Under(up) :
          p.body.game = gameInitId /\ p.body.snap = u.sequence =>
            \E v \in last.held : v.sequence = u.sequence
    BY <1>7, <1>27 DEF EndsEqual
  <2> QED BY <2>1, <2>2, <2>3
<1>30. \A p \in Under(down') : IsSnapshot(p) /\ p.body.game = myGameInitId /\ Settled =>
         Readable(p, new[p.upTo - down.read])
  <2> TAKE p \in Under(down')
  <2> HAVE IsSnapshot(p) /\ p.body.game = myGameInitId /\ Settled
  <2>1. Readable(p, ch[p.upTo - down.read]) /\ p.upTo - down.read \in 0 .. Len(down.reliable)
    BY <1>0, <1>1, <1>6, PlaceIs
  <2> QED BY <1>25, <2>1 DEF Readable, Joined
<1>31. Chained(new)'
  BY <1>1, <1>2, <1>9, <1>23, <1>25, <1>26, <1>29, <1>30 DEF Chained, IsSnapshot, Readable
<1> QED BY <1>9, <1>19, <1>20, <1>22, <1>31 DEF Synced

LEMMA ServerMessageSynced ==
  ASSUME IInv, Synced, ProcessUnreliableServerMessage
  PROVE  Synced'
<1>0. Types /\ Wires /\ Wires'
  BY ServerMessageBasics DEF IInv
<1>1. /\ Under(down') \subseteq Under(down)
      /\ down'.reliable = down.reliable /\ down'.read = down.read
      /\ UNCHANGED <<serverVars, up>>
      /\ \/ down.msg.kind = "EMPTY" /\ UNCHANGED clientVars
         \/ ProcessGameInit(down.msg)
         \/ IgnoreSnapshot(down.msg)
         \/ ClientReadSnapshot(down.msg)
  BY <1>0, AtHandDown
<1>2. CASE UNCHANGED clientVars
  <2>1. /\ UNCHANGED <<gameInitId, myGameInitId, loadedGame, serverDelta, clientDelta,
                       snapshotSequence, mySnapshotSequence, failed, misread, up>>
        /\ (InGame' <=> InGame) /\ (Connected' <=> Connected)
    BY <1>1, <1>2 DEF serverVars, clientVars, InGame, Connected
  <2> QED BY <1>0, <1>1, <2>1, SyncedQuiet
<1>3. CASE ProcessGameInit(down.msg)
  BY <1>3, GameInitSynced
<1>4. CASE ClientReadSnapshot(down.msg)
  BY <1>4, ReadSnapshotSynced
<1> QED BY <1>1, <1>2, <1>3, <1>4 DEF IgnoreSnapshot

-----------------------------------------------------------------------------
(* The inductive invariant is one *)

\* A step of a session that goes on.
LEMMA SameSession ==
  ASSUME IInv, session' = session, Types', Wires', Inits', Agreed', Synced => Synced'
  PROVE  IInv'
<1>1. InStep'
  BY DEF IInv, InStep, FirstSession
<1> QED BY <1>1 DEF IInv, Agreed

LEMMA InitIInv ==
  ASSUME Init
  PROVE  IInv
<1>1. /\ gameInitId = 1 /\ session = 1 /\ offered = 1 /\ clientState = "SCS_CONNECTED"
      /\ gameInitSequence = 1 /\ snapshotSequence = 1 /\ mySnapshotSequence = 0
      /\ serverDelta = Cleared /\ clientDelta = Cleared /\ down = NewCarrier /\ up = NewCarrier
      /\ myGameInitId = GAME_INIT_ID_INVALID /\ loadedGame = 0
      /\ ~failed /\ ~misread /\ ~reloaded /\ pure \in BOOLEAN /\ havePaks \in BOOLEAN
      /\ bound \in Bounds
      /\ failed \in BOOLEAN /\ misread \in BOOLEAN /\ reloaded \in BOOLEAN
  BY DEF Init
<1>2. /\ CarrierOK(down) /\ CarrierOK(up) /\ Under(down) = {} /\ Under(up) = {}
      /\ ~Busy(down) /\ ~Busy(up) /\ down.reliable = <<>> /\ up.reliable = <<>>
      /\ down.last = 0 /\ up.net = {}
  BY <1>1, NewCarrierOK
<1>3. DOMAIN down.reliable = {} /\ DOMAIN up.reliable = {} /\ Len(down.reliable) = 0
      /\ down.reliable \in Seq(Receipts)
  BY <1>2
<1>4. ~Connected /\ ~InGame
  BY <1>1 DEF Connected, InGame
<1>5. Types
  BY <1>1, ClearedFacts DEF Types, States
<1>6. Wires
  BY <1>2, <1>3, <1>4 DEF Wires
<1>7. Inits
  BY <1>2 DEF Inits
<1>8. Loaded /\ Answers /\ Lists
  BY <1>1, <1>3, <1>4
     DEF Loaded, Answers, Lists, Entered, GAME_INIT_ID_INVALID
<1>9. Sequences
  BY <1>1, <1>2, <1>3, ClearedFacts DEF Sequences
<1>10. Flying /\ Queues
  BY <1>1, <1>2, <1>3, <1>4 DEF Flying, Queues
<1>11. PICK ch : Chain(ch, Cleared, <<>>)
  <2>1. PICK q : q = down.reliable
    OBVIOUS
  <2>2. q \in Seq(Receipts) /\ \A i \in DOMAIN q : ~Applies(q, i)
    BY <1>3, <2>1
  <2>3. \E ch : Chain(ch, Cleared, q)
    BY <2>2, ChainConstant
  <2> QED BY <1>2, <2>1, <2>3
<1>12. Chained(ch)
  BY <1>1, <1>2, <1>4, <1>11 DEF Chained, EndsEqual
<1>13. Synced
  BY <1>1, <1>9, <1>10, <1>12 DEF Synced
<1> QED BY <1>1, <1>5, <1>6, <1>7, <1>8, <1>13 DEF IInv, InStep

LEMMA StutterIInv ==
  ASSUME IInv, UNCHANGED vars
  PROVE  IInv'
<1>1. UNCHANGED <<bound, havePaks, gameInitId, pure, session, offered, clientState,
                  gameInitSequence,
                  snapshotSequence, serverDelta, reloaded, down, myGameInitId, loadedGame,
                  mySnapshotSequence, clientDelta, failed, misread, up>>
  BY DEF vars, serverVars, connectVars, clientVars
<1>2. /\ (Connected' <=> Connected) /\ (InGame' <=> InGame) /\ Entered' = Entered
      /\ (Settled' <=> Settled) /\ (Unlisted' <=> Unlisted)
  BY <1>1 DEF Connected, InGame, Entered, Settled, Unlisted
<1>3. Types' /\ Wires'
  BY <1>1, <1>2 DEF IInv, Types, Wires
<1>4. Inits'
  BY <1>1, <1>2 DEF IInv, Inits
<1>5. Agreed'
  BY <1>1, <1>2 DEF IInv, Agreed, Loaded, Answers, Lists
<1>6. ASSUME Synced
      PROVE  Synced'
  <2>1. Sequences' /\ Flying' /\ Queues'
    BY <1>1, <1>2, <1>6 DEF Synced, Sequences, Flying, Queues
  <2>2. PICK ch : Chained(ch)
    BY <1>6 DEF Synced
  <2>3. PICK end : end = ch[Len(down.reliable)] /\ EndsEqual(end)
    BY <2>2 DEF Chained
  <2>4. EndsEqual(end)'
    BY <1>1, <1>2, <2>3 DEF EndsEqual, Settled, Unlisted
  <2>5. Chained(ch)'
    BY <1>1, <1>2, <2>2, <2>3, <2>4 DEF Chained, Readable, Settled
  <2> QED BY <1>1, <1>6, <2>1, <2>5 DEF Synced
<1> QED BY <1>1, <1>3, <1>4, <1>5, <1>6, SameSession

LEMMA NextIInv ==
  ASSUME IInv, [Next]_vars
  PROVE  IInv'
<1>1. ASSUME NEW list \in BOOLEAN, NEW paks \in BOOLEAN, ExecuteMapChange(list, paks)
     PROVE  IInv'
  <2>1. session' = session
    BY <1>1 DEF ExecuteMapChange, serverVars, connectVars
  <2> QED BY <1>1, <2>1, MapChangeBasics, MapChangeInits, MapChangeAgreed, MapChangeSynced,
         SameSession
<1>2. ASSUME SendEmptyToClient
     PROVE  IInv'
  <2>1. session' = session
    BY <1>2 DEF SendEmptyToClient, serverVars, connectVars
  <2> QED BY <1>2, <2>1, SendEmptyBasics, SendEmptyInits, SendEmptyAgreed, SendEmptySynced,
         SameSession
<1>3. ASSUME NEW world \in [bound.entities -> State],
             NEW pvs \in SUBSET bound.entities, SendSnapshotToClient(world, pvs)
     PROVE  IInv'
  <2>1. session' = session
    BY <1>3 DEF SendSnapshotToClient, serverVars, connectVars
  <2> QED BY <1>3, <2>1, SendSnapshotBasics, SendSnapshotInits, SendSnapshotAgreed,
         SendSnapshotSynced, SameSession
<1>4. ASSUME ServerReceive
     PROVE  IInv'
  <2>1. session' = session
    BY <1>4 DEF ServerReceive, serverVars, connectVars
  <2> QED BY <1>4, <2>1, ServerReceiveBasics, ServerReceiveInits, ServerReceiveAgreed,
         ServerReceiveSynced, SameSession
<1>5. ASSUME ProcessReliablePure
     PROVE  IInv'
  <2>1. session' = session
    BY <1>5 DEF ProcessReliablePure, serverVars, connectVars
  <2> QED BY <1>5, <2>1, ReadAnswerBasics, ReadAnswerInits, ReadAnswerAgreed,
         ReadAnswerSynced, SameSession
<1>6. ASSUME ProcessUnreliableClientMessage
     PROVE  IInv'
  <2>1. session' = session
    BY <1>6 DEF ProcessUnreliableClientMessage, IgnoreMapLoad, WrongGame, EnterGame,
       ServerApplySnapshot, AwaitPure, serverVars, connectVars
  <2> QED BY <1>6, <2>1, ClientMessageBasics, ClientMessageInits, ClientMessageAgreed,
         ClientMessageSynced, SameSession
<1>7. ASSUME ProcessConnectResponse
     PROVE  IInv'
  <2>1. session' = session
    BY <1>7 DEF ProcessConnectResponse, serverVars, connectVars
  <2> QED BY <1>7, <2>1, ConnectResponseBasics, ConnectResponseInits,
         ConnectResponseAgreed, ConnectResponseSynced, SameSession
<1>8. ASSUME ClientReceive
     PROVE  IInv'
  <2>1. session' = session
    BY <1>8 DEF ClientReceive, serverVars, connectVars
  <2> QED BY <1>8, <2>1, ClientReceiveBasics, ClientReceiveInits, ClientReceiveAgreed,
         ClientReceiveSynced, SameSession
<1>9. ASSUME ClientApplySnapshot
     PROVE  IInv'
  <2>1. session' = session
    BY <1>9 DEF ClientApplySnapshot, serverVars, connectVars
  <2> QED BY <1>9, <2>1, ClientApplyBasics, ClientApplyInits, ClientApplyAgreed,
         ClientApplySynced, SameSession
<1>10. ASSUME ProcessReliableMessagePure
     PROVE  IInv'
  <2>1. session' = session
    BY <1>10 DEF ProcessReliableMessagePure, serverVars, connectVars
  <2> QED BY <1>10, <2>1, ReadListBasics, ReadListInits, ReadListAgreed, ReadListSynced,
         SameSession
<1>11. ASSUME ProcessUnreliableServerMessage
     PROVE  IInv'
  <2>1. session' = session
    BY <1>11 DEF ProcessUnreliableServerMessage, serverVars, connectVars
  <2> QED BY <1>11, <2>1, ServerMessageBasics, ServerMessageInits, ServerMessageAgreed,
         ServerMessageSynced, SameSession
<1>12. ASSUME SendToServer \/ PacifierUpdate
     PROVE  IInv'
  <2>1. session' = session
    BY <1>12 DEF SendToServer, PacifierUpdate, serverVars, connectVars
  <2> QED BY <1>12, <2>1, ClientSendBasics, ClientSendInits, ClientSendAgreed,
         ClientSendSynced, SameSession
<1>13. ASSUME ProcessConnectMessage
     PROVE  IInv'
  <2>1. session' = session + 1 /\ session \in Nat /\ session > 0
    BY <1>13, ReconnectEffect DEF IInv, Types
  <2>2. InStep'
    BY <2>1 DEF InStep, FirstSession
  <2> QED BY <1>13, <2>2, ReconnectBasics, ReconnectInits, ReconnectAgreed DEF IInv, Agreed
<1>14. CASE UNCHANGED vars
  BY <1>14, StutterIInv
<1> QED BY <1>1, <1>2, <1>3, <1>4, <1>5, <1>6, <1>7, <1>8, <1>9, <1>10, <1>11, <1>12, <1>13, <1>14 DEF Next

\* The invariant that the properties below follow from.
THEOREM Invariant ==
  Spec => []IInv
<1>1. IInv /\ [Next]_vars => IInv'
  BY NextIInv
<1> QED BY InitIInv, <1>1, PTL DEF Spec

-----------------------------------------------------------------------------
(* What applying the reliable messages one after another makes of a base *)

ReadOne(d, r) == IF r.kind = "APPLYSNAPSHOT" THEN ApplySnapshot(d, r.sequence) ELSE d

\* g[i] is what the first i messages make of d.
Unrolled(g, d, q, n) ==
  g = [i \in 0 .. n |-> IF i = 0 THEN d
                        ELSE IF q[i].kind = "APPLYSNAPSHOT"
                               THEN ApplySnapshot(g[i - 1], q[i].sequence)
                               ELSE g[i - 1]]

LEMMA UnrolledNext ==
  ASSUME NEW d, NEW q, NEW n \in Nat, NEW g, Unrolled(g, d, q, n)
  PROVE  \E h : Unrolled(h, d, q, n + 1)
<1> DEFINE h == [i \in 0 .. n + 1 |-> IF i = n + 1 THEN ReadOne(g[n], q[n + 1]) ELSE g[i]]
<1>1. /\ DOMAIN h = 0 .. n + 1 /\ h[n + 1] = ReadOne(g[n], q[n + 1])
      /\ h = [i \in 0 .. n + 1 |-> h[i]]
      /\ \A i \in 0 .. n : h[i] = g[i]
  OBVIOUS
<1> HIDE DEF h
<1>2. \A i \in 0 .. n : g[i] = IF i = 0 THEN d ELSE ReadOne(g[i - 1], q[i])
  BY DEF Unrolled, ReadOne
<1>3. ASSUME NEW i \in 0 .. n + 1
      PROVE  h[i] = IF i = 0 THEN d ELSE ReadOne(h[i - 1], q[i])
  <2>1. CASE i = n + 1
    <3>1. i - 1 = n /\ n \in 0 .. n /\ i # 0
      BY <2>1
    <3> QED BY <1>1, <2>1, <3>1
  <2>2. CASE i # n + 1
    <3>1. i \in 0 .. n /\ (i # 0 => i - 1 \in 0 .. n)
      BY <2>2
    <3> QED BY <1>1, <1>2, <3>1
  <2> QED BY <2>1, <2>2
<1>4. [i \in 0 .. n + 1 |-> h[i]]
        = [i \in 0 .. n + 1 |-> IF i = 0 THEN d ELSE ReadOne(h[i - 1], q[i])]
  BY <1>3
<1>5. h = [i \in 0 .. n + 1 |-> IF i = 0 THEN d ELSE ReadOne(h[i - 1], q[i])]
  BY <1>1, <1>4
<1> QED BY <1>5 DEF Unrolled, ReadOne

LEMMA UnrolledExists ==
  ASSUME NEW d, NEW q, NEW n \in Nat
  PROVE  \E g : Unrolled(g, d, q, n)
<1> DEFINE T == {m \in Nat : ~ \E g : Unrolled(g, d, q, m)}
<1>1. SUFFICES T = {}
  OBVIOUS
<1>2. SUFFICES ASSUME T # {} PROVE FALSE
  OBVIOUS
<1>3. PICK m \in T : \A k \in T : m <= k
  <2>1. T \in SUBSET Nat
    OBVIOUS
  <2> HIDE DEF T
  <2> QED BY <1>2, <2>1, NatLeast
<1>4. CASE m = 0
  <2>1. Unrolled([i \in 0 .. 0 |-> d], d, q, 0)
    <3>1. \A i \in 0 .. 0 : i = 0
      OBVIOUS
    <3> QED BY <3>1 DEF Unrolled
  <2> QED BY <1>4, <2>1
<1>5. CASE m # 0
  <2>1. m - 1 \in Nat /\ ~(m <= m - 1) /\ (m - 1) + 1 = m
    BY <1>5
  <2>2. PICK g : Unrolled(g, d, q, m - 1)
    BY <1>3, <2>1
  <2>3. PICK k : k = m - 1 /\ k \in Nat /\ Unrolled(g, d, q, k)
    BY <2>1, <2>2
  <2>4. \E h : Unrolled(h, d, q, k + 1)
    BY <2>3, UnrolledNext
  <2> QED BY <2>1, <2>3, <2>4
<1> QED BY <1>4, <1>5

\* A step of the chain of bases is what ApplySnapshot does.
LEMMA MovesIs ==
  ASSUME NEW d, IsDelta(d), Distinct(d), NEW a, StartsAt(a, d), NEW s \in Nat,
         NEW b, Moves(a, b, s), NEW k, k = ApplySnapshot(d, s)
  PROVE  IsDelta(k) /\ Distinct(k) /\ StartsAt(b, k)
<1>1. /\ IsDelta(k) /\ Distinct(k)
      /\ In(k.snapshots) = {u \in In(d.snapshots) : u.sequence > s}
      /\ Holds(d, s) =>
           \E t \in In(d.snapshots) : /\ t.sequence = s
                                      /\ k.base = Overlay(d.base, t.states)
                                      /\ k.pvs = t.pvs
  BY ApplyIs
<1>2. PICK t \in In(d.snapshots) : /\ t.sequence = s
                                   /\ b.base = Overlay(d.base, t.states) /\ b.pvs = t.pvs
  BY DEF StartsAt, Moves
<1>3. Holds(d, s)
  BY <1>2, HoldsIs
<1>4. PICK u \in In(d.snapshots) : /\ u.sequence = s
                                   /\ k.base = Overlay(d.base, u.states) /\ k.pvs = u.pvs
  BY <1>1, <1>3
<1>5. u = t
  BY <1>2, <1>4 DEF Distinct, In
<1>6. b.held = In(k.snapshots)
  BY <1>1 DEF StartsAt, Moves
<1> QED BY <1>1, <1>2, <1>4, <1>5, <1>6 DEF StartsAt

\* The chain of bases is what the messages make of the base one by one.
LEMMA UnrolledIsChain ==
  ASSUME NEW d, IsDelta(d), Distinct(d), NEW q \in Seq(Receipts), NEW ch, Chain(ch, d, q),
         NEW g, Unrolled(g, d, q, Len(q))
  PROVE  StartsAt(ch[Len(q)], g[Len(q)])
<1> DEFINE Good(i) == IsDelta(g[i]) /\ Distinct(g[i]) /\ StartsAt(ch[i], g[i])
           T == {i \in 0 .. Len(q) : ~Good(i)}
<1>1. Len(q) \in Nat /\ Len(q) \in 0 .. Len(q) /\ DOMAIN q = 1 .. Len(q)
  OBVIOUS
<1>2. \A i \in 0 .. Len(q) : g[i] = IF i = 0 THEN d ELSE ReadOne(g[i - 1], q[i])
  BY DEF Unrolled, ReadOne
<1>3. SUFFICES ASSUME T # {} PROVE FALSE
  BY <1>1
<1>4. PICK m \in T : \A k \in T : m <= k
  <2>1. T \in SUBSET Nat
    OBVIOUS
  <2> HIDE DEF T
  <2> QED BY <1>3, <2>1, NatLeast
<1>5. m \in 0 .. Len(q) /\ m \in Nat /\ ~Good(m)
  OBVIOUS
<1>6. CASE m = 0
  BY <1>2, <1>5, <1>6 DEF Chain
<1>7. CASE m # 0
  <2>1. m - 1 \in 0 .. Len(q) /\ ~(m <= m - 1) /\ m \in 1 .. Len(q)
    BY <1>1, <1>5, <1>7
  <2>2. Good(m - 1)
    BY <1>4, <2>1
  <2> HIDE DEF T
  <2>3. PICK e, a, k, b : e = g[m - 1] /\ a = ch[m - 1] /\ k = g[m] /\ b = ch[m]
    OBVIOUS
  <2>4. IsDelta(e) /\ Distinct(e) /\ StartsAt(a, e) /\ k = ReadOne(e, q[m])
    BY <1>2, <1>5, <1>7, <2>2, <2>3
  <2>5. CASE Applies(q, m)
    <3>1. q[m].sequence \in Nat
      <4>1. q[m] \in Receipts
        BY <1>1, <2>1
      <4> QED BY <2>5, <4>1, ReceiptsAre DEF Applies
    <3>2. PICK s : s = q[m].sequence /\ s \in Nat
      BY <3>1
    <3>3. Moves(a, b, s)
      BY <2>1, <2>3, <2>5, <3>2 DEF Chain
    <3>4. k = ApplySnapshot(e, s)
      BY <2>4, <2>5, <3>2 DEF ReadOne, Applies
    <3>5. IsDelta(k) /\ Distinct(k) /\ StartsAt(b, k)
      BY <2>4, <3>2, <3>3, <3>4, MovesIs
    <3> QED BY <1>5, <2>3, <3>5
  <2>6. CASE ~Applies(q, m)
    <3>1. b = a
      BY <2>1, <2>3, <2>6 DEF Chain
    <3>2. k = e
      BY <2>4, <2>6 DEF ReadOne, Applies
    <3> QED BY <1>5, <2>3, <2>4, <3>1, <3>2
  <2> QED BY <2>5, <2>6
<1> QED BY <1>6, <1>7

-----------------------------------------------------------------------------
(* The properties *)

(***************************************************************************)
(* In its first session a client that has loaded the map of its game reads *)
(* every snapshot as it was written: the base the server wrote it against  *)
(* is the one the client has when it reads it, whatever was lost, late or  *)
(* out of order (ClientReadSnapshot and ServerWriteSnapshot,               *)
(* Game_network.cpp).                                                      *)
(***************************************************************************)
THEOREM ReadAsWrittenAlways ==
  Spec => []ReadAsWritten
<1>1. IInv => ReadAsWritten
  BY DEF IInv, InStep, Synced, ReadAsWritten
<1> QED BY <1>1, Invariant, PTL

(***************************************************************************)
(* In its first session a client never fails with "couldn't apply          *)
(* snapshot" (AsyncClient.cpp): what the server tells it to apply, it      *)
(* holds, with the list of paks or without.                                *)
(***************************************************************************)
THEOREM AppliesWhatItHoldsAlways ==
  Spec => []AppliesWhatItHolds
<1>1. IInv => AppliesWhatItHolds
  BY DEF IInv, InStep, Synced, AppliesWhatItHolds
<1> QED BY <1>1, Invariant, PTL

(***************************************************************************)
(* In its first session a client that is in the game and has loaded its    *)
(* map ends up with the server's base once it has read the reliable        *)
(* messages waiting for it (ApplySnapshot at both ends, Game_network.cpp). *)
(***************************************************************************)
THEOREM BasesAgreeAlways ==
  Spec => []BasesAgree
<1>1. ASSUME IInv
      PROVE  BasesAgree
  <2> DEFINE pending == down.reliable
             after[i \in 0 .. Len(pending)] ==
               IF i = 0 THEN clientDelta
               ELSE IF pending[i].kind = "APPLYSNAPSHOT"
                      THEN ApplySnapshot(after[i - 1], pending[i].sequence)
                      ELSE after[i - 1]
  <2>1. SUFFICES ASSUME FirstSession, Settled, InGame
                 PROVE  /\ after[Len(pending)].base = serverDelta.base
                        /\ after[Len(pending)].pvs = serverDelta.pvs
    BY DEF BasesAgree, InGame
  <2>2. Types /\ Wires /\ Synced
    BY <1>1, <2>1 DEF IInv, InStep
  <2>3. pending \in Seq(Receipts) /\ Len(pending) \in Nat
    BY <2>2, SeqsAre
  <2>4. IsDelta(clientDelta) /\ Distinct(clientDelta)
    BY <2>2 DEF Types, Synced, Sequences
  <2>5. PICK ch : Chained(ch)
    BY <2>2 DEF Synced
  <2>6. PICK d, q, g : d = clientDelta /\ q = pending /\ g = after
    OBVIOUS
  <2>7. Unrolled(g, d, q, Len(q))
    <3>1. \E h : Unrolled(h, d, q, Len(q))
      BY <2>3, <2>6, UnrolledExists
    <3>2. after = CHOOSE h : Unrolled(h, clientDelta, pending, Len(pending))
      BY DEF Unrolled
    <3> HIDE DEF after, pending
    <3> QED BY <2>6, <3>1, <3>2
  <2> HIDE DEF after
  <2>8. Chain(ch, d, q)
    BY <2>5, <2>6 DEF Chained
  <2>9. IsDelta(d) /\ Distinct(d) /\ q \in Seq(Receipts)
    BY <2>3, <2>4, <2>6
  <2>10. StartsAt(ch[Len(q)], g[Len(q)])
    BY <2>7, <2>8, <2>9, UnrolledIsChain
  <2>11. EndsEqual(ch[Len(q)])
    BY <2>5, <2>6 DEF Chained
  <2> QED BY <2>1, <2>6, <2>10, <2>11 DEF StartsAt, EndsEqual
<1> QED BY <1>1, Invariant, PTL

(***************************************************************************)
(* In every session, a client that the server runs in the game is in that  *)
(* game (AsyncServer.cpp:1264), and it has loaded the map unless it waits  *)
(* for the list of a pure server that has no pak files to put on it        *)
(* (AsyncServer.cpp:1607).                                                 *)
(***************************************************************************)
THEOREM InGameLoadedAlways ==
  Spec => []InGameLoaded
<1>1. IInv => InGameLoaded
  BY DEF IInv, Loaded, InGame, InGameLoaded, Unlisted
<1> QED BY <1>1, Invariant, PTL

(***************************************************************************)
(* A GAMEINIT on its way never names the game its client is in, though the *)
(* server sends it again on the word of messages that may be late          *)
(* (ProcessUnreliableClientMessage, AsyncServer.cpp).                      *)
(***************************************************************************)
THEOREM InitsOnceAlways ==
  Spec => []InitsOnce
<1>1. ASSUME IInv
      PROVE  InitsOnce
  <2>1. Wires /\ Inits
    BY <1>1 DEF IInv
  <2>2. \A m \in down.net : m \in Under(down)
    BY <2>1, BodiesAre
  <2>3. SUFFICES ASSUME NEW m \in down.net, IsInit(m)
                 PROVE  m.body.game > myGameInitId
    BY DEF InitsOnce, IsInit
  <2>4. m.body.game \in Nat /\ Entered < m.body.game
    BY <2>1, <2>2, <2>3 DEF Inits, Wires, ServerBody, IsInit
  <2>5. CASE Connected
    <3>1. myGameInitId \in Int /\ Entered = myGameInitId
      BY <1>1, <2>5 DEF IInv, Types, Entered, Connected
    <3> QED BY <2>4, <3>1
  <2>6. CASE ~Connected
    BY <2>4, <2>6 DEF Connected, GAME_INIT_ID_INVALID
  <2> QED BY <2>5, <2>6
<1> QED BY <1>1, Invariant, PTL

(***************************************************************************)
(* The server gets a pure answer for its game only while it waits for one: *)
(* each list it sends is answered once, and an answer for a game gone by   *)
(* is told from it (ProcessReliablePure, AsyncServer.cpp).                 *)
(***************************************************************************)
THEOREM PureExpectedAlways ==
  Spec => []PureExpected
<1>1. IInv => PureExpected
  BY DEF IInv, PureExpected
<1> QED BY <1>1, Invariant, PTL
=============================================================================
