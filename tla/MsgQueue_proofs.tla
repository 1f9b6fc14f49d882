--------------------------- MODULE MsgQueue_proofs ---------------------------
(***************************************************************************)
(* Proofs about MsgQueue, for any size of the buffer, values of a byte and *)
(* messages.  The bytes are read from startIndex on as from a tape on      *)
(* which nothing wraps; the inductive invariant says at which of its       *)
(* places the messages start.                                              *)
(***************************************************************************)
EXTENDS MsgQueue, SequenceTheorems, WellFoundedInduction, TLAPS

M == MAX_MSG_QUEUE_SIZE

\* The natural numbers are well ordered, which is what an induction over them
\* needs.
LEMMA NatLeast ==
  ASSUME NEW T \in SUBSET Nat, T # {}
  PROVE  \E x \in T : \A y \in T : x <= y
<1>1. IsWellFoundedOn(OpToRel(<, Nat), Nat)
  BY NatLessThanWellFounded
<1>2. PICK x \in T : \A y \in T : ~ (<<y, x>> \in OpToRel(<, Nat))
  BY <1>1, WFMin
<1>3. ASSUME NEW y \in T PROVE x <= y
  <2>1. ~ (<<y, x>> \in {ss \in Nat \X Nat : ss[1] < ss[2]})
    BY <1>2 DEF OpToRel
  <2> QED BY <2>1
<1> QED BY <1>3

LEMMA EqualByInduction ==
  ASSUME NEW n \in Nat, NEW f, NEW g, f[0] = g[0],
         \A i \in 1 .. n : f[i - 1] = g[i - 1] => f[i] = g[i]
  PROVE  \A i \in 0 .. n : f[i] = g[i]
<1> DEFINE T == {i \in 0 .. n : f[i] # g[i]}
<1>1. SUFFICES ASSUME T # {} PROVE FALSE
  OBVIOUS
<1>2. PICK m \in T : \A k \in T : m <= k
  <2>1. T \in SUBSET Nat
    OBVIOUS
  <2> HIDE DEF T
  <2> QED BY <1>1, <2>1, NatLeast
<1>3. m \in 1 .. n /\ f[m] # g[m]
  OBVIOUS
<1>4. m - 1 \in 0 .. n /\ ~(m <= m - 1)
  BY <1>3
<1>5. f[m - 1] = g[m - 1]
  BY <1>2, <1>4
<1> QED BY <1>3, <1>5

-----------------------------------------------------------------------------
(* Indices that wrap *)

LEMMA Sizes == M \in Nat \ {0} /\ Base \in Nat \ {0, 1} /\ M \in Nat /\ Base \in Nat
BY MsgQueueAssumption DEF M

LEMMA WrapRange == \A i \in Int : Wrap(i) \in Index
BY Sizes DEF Wrap, Index, M

LEMMA WrapHere == \A i \in Index : Wrap(i) = i
BY Sizes DEF Wrap, Index, M

LEMMA WrapBehind == \A i \in Int : M <= i /\ i < 2 * M => Wrap(i) = i - M
BY Sizes DEF Wrap, M

LEMMA WrapBefore == \A i \in Int : 0 - M < i /\ i < 0 => Wrap(i) = i + M
BY Sizes DEF Wrap, M

LEMMA WrapAgain ==
  ASSUME NEW i \in Nat, NEW k \in Nat, i + k < 2 * M
  PROVE  Wrap(Wrap(i) + k) = Wrap(i + k)
<1>1. CASE i < M
  BY <1>1, Sizes, WrapHere DEF Index, M
<1>2. CASE M <= i
  <2>1. Wrap(i) = i - M
    BY <1>2, Sizes, WrapBehind
  <2>2. i + k - M \in Index /\ (i - M) + k = i + k - M
    BY <1>2, Sizes DEF Index, M
  <2>3. Wrap(i + k) = i + k - M
    BY <1>2, Sizes, WrapBehind
  <2> QED BY <2>1, <2>2, <2>3, WrapHere
<1> QED BY <1>1, <1>2, Sizes

-----------------------------------------------------------------------------
(* Numbers as bytes, the low byte first *)

LEMMA Division ==
  ASSUME NEW i \in Nat, NEW d \in Nat \ {0}
  PROVE  /\ i \div d \in Nat /\ i % d \in 0 .. d - 1
         /\ i = (i \div d) * d + (i % d)
<1>1. PICK q, r : q = i \div d /\ r = i % d
  OBVIOUS
<1>2. q \in Int /\ r \in 0 .. d - 1
  BY <1>1
<1>3. i = q * d + r
  BY <1>1, <1>2, SMTT(30)
<1>4. q \in Nat
  <2>1. SUFFICES ASSUME q <= -1 PROVE FALSE
    BY <1>2
  <2>2. q * d <= (-1) * d
    BY <1>2, <2>1
  <2> QED BY <1>2, <1>3, <2>2
<1> QED BY <1>1, <1>2, <1>3, <1>4

LEMMA Quotient ==
  ASSUME NEW d \in Nat \ {0}, NEW q \in Nat, NEW r \in 0 .. d - 1
  PROVE  (q * d + r) \div d = q /\ (q * d + r) % d = r
<1>1. PICK i : i = q * d + r
  OBVIOUS
<1>2. i \in Nat
  BY <1>1
<1> QED BY <1>1, <1>2, SMTT(30)

LEMMA Small ==
  ASSUME NEW i \in Nat, NEW d \in Nat \ {0}, NEW e \in Nat \ {0}, i < d * e
  PROVE  i \div d < e
<1>1. PICK q, r : q = i \div d /\ r = i % d
  OBVIOUS
<1>2. q \in Nat /\ r \in 0 .. d - 1 /\ i = q * d + r
  BY <1>1, Division
<1>3. SUFFICES ASSUME e <= q PROVE FALSE
  BY <1>1, <1>2
<1>4. e * d <= q * d
  BY <1>2, <1>3
<1> QED BY <1>2, <1>4

LEMMA DivTwice ==
  ASSUME NEW i \in Nat, NEW d \in Nat \ {0}, NEW e \in Nat \ {0}
  PROVE  i \div (d * e) = (i \div d) \div e
<1>1. PICK q, r : q = i \div d /\ r = i % d
  OBVIOUS
<1>2. q \in Nat /\ r \in 0 .. d - 1 /\ i = q * d + r
  BY <1>1, Division
<1>3. PICK k, m : k = q \div e /\ m = q % e
  OBVIOUS
<1>4. k \in Nat /\ m \in 0 .. e - 1 /\ q = k * e + m
  BY <1>2, <1>3, Division
<1>5. i = (k * e) * d + (m * d + r)
  BY <1>2, <1>4
<1>6. (k * e) * d = k * (d * e)
  BY <1>4
<1>7. m * d + r \in 0 .. (d * e) - 1
  <2>1. m * d <= (e - 1) * d /\ (e - 1) * d = d * e - d /\ m * d \in Nat
    BY <1>4
  <2>2. d * e \in Nat
    OBVIOUS
  <2> QED BY <1>2, <2>1, <2>2
<1>8. PICK x, y : x = d * e /\ y = m * d + r
  OBVIOUS
<1>9. x \in Nat \ {0} /\ y \in 0 .. x - 1 /\ i = k * x + y
  <2>1. d * e \in Nat /\ d * e # 0
    OBVIOUS
  <2> QED BY <1>5, <1>6, <1>7, <1>8, <2>1
<1>10. i \div x = k
  BY <1>4, <1>9, Quotient
<1> QED BY <1>1, <1>3, <1>8, <1>10

\* The number that some bytes stand for.
ShortOf(b1, b2) == b1 + b2 * Base
LongOf(b1, b2, b3, b4) == b1 + b2 * Base + b3 * Base * Base + b4 * Base * Base * Base

LEMMA ShortReads ==
  ASSUME NEW s \in 0 .. Base * Base - 1
  PROVE  /\ Short(s) \in Seq(Byte) /\ Len(Short(s)) = 2
         /\ ShortOf(Short(s)[1], Short(s)[2]) = s
<1>1. s \in Nat /\ s < Base * Base /\ Base \in Nat \ {0}
  <2>1. Base * Base \in Nat
    BY Sizes
  <2> QED BY Sizes, <2>1
<1>2. PICK q, r : q = s \div Base /\ r = s % Base
  OBVIOUS
<1>3. q \in Nat /\ r \in 0 .. Base - 1 /\ s = q * Base + r /\ q < Base
  BY <1>1, <1>2, Division, Small
<1>4. q \in Byte /\ r \in Byte
  BY <1>1, <1>3 DEF Byte
<1>5. q % Base = q
  BY <1>1, <1>3
<1>6. Short(s) = <<r, q>>
  BY <1>2, <1>5 DEF Short
<1>7. r + q * Base = s
  BY <1>1, <1>3
<1> QED BY <1>4, <1>6, <1>7 DEF ShortOf

LEMMA LongReads ==
  ASSUME NEW l \in 0 .. Base * Base * Base * Base - 1
  PROVE  /\ Long(l) \in Seq(Byte) /\ Len(Long(l)) = 4
         /\ LongOf(Long(l)[1], Long(l)[2], Long(l)[3], Long(l)[4]) = l
<1>0. PICK c : c = Base * Base
  OBVIOUS
<1>1. PICK d : d = c * Base
  OBVIOUS
<1>2. /\ Base \in Nat \ {0} /\ c \in Nat \ {0} /\ d \in Nat \ {0}
      /\ c = Base * Base /\ d = c * Base /\ d = Base * c
  <2>1. Base \in Nat \ {0}
    BY Sizes
  <2>2. c \in Nat \ {0}
    BY <1>0, <2>1
  <2>3. d \in Nat \ {0} /\ d = Base * c
    BY <1>1, <2>1, <2>2
  <2> QED BY <1>0, <1>1, <2>1, <2>2, <2>3
<1>3. l \in Nat /\ l < Base * d
  <2>1. Base * Base * Base * Base = d * Base /\ d * Base \in Nat /\ d * Base = Base * d
    BY <1>2
  <2> QED BY <2>1
<1>4. PICK q, r : q = l \div Base /\ r = l % Base
  OBVIOUS
<1>5. q \in Nat /\ r \in 0 .. Base - 1 /\ l = q * Base + r /\ q < d
  BY <1>2, <1>3, <1>4, Division, Small
<1>6. PICK k, m : k = q \div Base /\ m = q % Base
  OBVIOUS
<1>7. k \in Nat /\ m \in 0 .. Base - 1 /\ q = k * Base + m /\ k < c
  <2>1. q < Base * c
    BY <1>2, <1>5
  <2>2. k < c
    BY <1>2, <1>5, <1>6, <2>1, Small
  <2> QED BY <1>2, <1>5, <1>6, <2>2, Division
<1>8. PICK x, y : x = k \div Base /\ y = k % Base
  OBVIOUS
<1>9. x \in Nat /\ y \in 0 .. Base - 1 /\ k = x * Base + y /\ x < Base
  BY <1>2, <1>7, <1>8, Division, Small
<1>10. l \div (Base * Base) = k
  <2>1. l \in Nat /\ Base \in Nat \ {0}
    BY <1>2, <1>3
  <2>2. l \div (Base * Base) = (l \div Base) \div Base
    BY ONLY <2>1, DivTwice
  <2> QED BY <1>4, <1>6, <2>2
<1>11. l \div (Base * Base * Base) = x
  <2>1. l \div (c * Base) = (l \div c) \div Base
    <3>1. l \in Nat /\ c \in Nat \ {0} /\ Base \in Nat \ {0}
      BY <1>2, <1>3
    <3> QED BY ONLY <3>1, DivTwice
  <2>2. Base * Base * Base = c * Base
    BY <1>2
  <2>3. (l \div c) \div Base = x
    BY <1>2, <1>8, <1>10
  <2> QED BY <2>1, <2>2, <2>3
<1>12. x % Base = x
  BY <1>2, <1>9
<1>13. Long(l) = <<r, m, y, x>>
  BY <1>4, <1>6, <1>8, <1>10, <1>11, <1>12 DEF Long
<1>14. r \in Byte /\ m \in Byte /\ y \in Byte /\ x \in Byte
  BY <1>2, <1>5, <1>7, <1>9 DEF Byte
<1>15. LongOf(r, m, y, x) = l
  <2>1. LongOf(r, m, y, x) = r + m * Base + y * c + x * d
    <3>1. y * Base * Base = y * c /\ x * Base * Base * Base = x * d
      BY <1>2, <1>9
    <3> QED BY <3>1 DEF LongOf
  <2>2. k * c = x * d + y * c
    BY <1>2, <1>9
  <2>3. q * Base = k * c + m * Base
    BY <1>2, <1>7
  <2>4. /\ m * Base \in Nat /\ y * c \in Nat /\ x * d \in Nat /\ k * c \in Nat
        /\ q * Base \in Nat
    BY <1>2, <1>5, <1>7, <1>9
  <2> QED BY <1>5, <2>1, <2>2, <2>3, <2>4
<1> QED BY <1>13, <1>14, <1>15

-----------------------------------------------------------------------------
(* The messages on a tape *)

Tapes == [Index -> Byte]

\* The buffer as it is read from s on.
Tape(b, s) == [j \in Index |-> b[Wrap(s + j)]]

SizeAt(t, i) == ShortOf(t[i], t[i + 1])
NumberAt(t, i) == LongOf(t[i], t[i + 1], t[i + 2], t[i + 3])
Bytes(t, i, n) == [k \in 1 .. n |-> t[i + k - 1]]

\* The data of message i, when f[i] is the place behind it.
Frame(t, f, i) == Bytes(t, f[i - 1] + 6, SizeAt(t, f[i - 1]))

\* n messages with the numbers from a on, one behind the other.
Framed(t, n, a, f) ==
  /\ f \in [0 .. n -> Nat]
  /\ f[0] = 0
  /\ f[n] < M
  /\ \A i, j \in 0 .. n : i <= j => f[i] <= f[j]
  /\ \A i \in 1 .. n :
       /\ SizeAt(t, f[i - 1]) \in Nat
       /\ f[i] = f[i - 1] + 6 + SizeAt(t, f[i - 1])
       /\ NumberAt(t, f[i - 1] + 2) = a + i - 1
       /\ Frame(t, f, i) \in Payload

\* The bytes of a message of size z, from x of t to y of u.
Moved(t, x, u, y, z) == \A k \in 0 .. 5 + z : u[y + k] = t[x + k]

\* A message that is moved is read as before.
LEMMA SameFrame ==
  ASSUME NEW t, NEW u, NEW x \in Nat, NEW y \in Nat, NEW z \in Nat, SizeAt(t, x) = z,
         Moved(t, x, u, y, z)
  PROVE  /\ SizeAt(u, y) = z
         /\ NumberAt(u, y + 2) = NumberAt(t, x + 2)
         /\ Bytes(u, y + 6, z) = Bytes(t, x + 6, z)
<1>1. /\ u[y] = t[x] /\ u[y + 1] = t[x + 1] /\ u[y + 2] = t[x + 2] /\ u[y + 3] = t[x + 3]
      /\ u[y + 4] = t[x + 4] /\ u[y + 5] = t[x + 5]
  <2>1. /\ 0 \in 0 .. 5 + z /\ 1 \in 0 .. 5 + z /\ 2 \in 0 .. 5 + z /\ 3 \in 0 .. 5 + z
        /\ 4 \in 0 .. 5 + z /\ 5 \in 0 .. 5 + z /\ x + 0 = x /\ y + 0 = y
    OBVIOUS
  <2>2. u[y + 0] = t[x + 0]
    BY <2>1 DEF Moved
  <2>3. /\ u[y + 1] = t[x + 1] /\ u[y + 2] = t[x + 2] /\ u[y + 3] = t[x + 3]
        /\ u[y + 4] = t[x + 4] /\ u[y + 5] = t[x + 5]
    BY <2>1 DEF Moved
  <2> QED BY <2>1, <2>2, <2>3
<1>2. SizeAt(u, y) = SizeAt(t, x)
  BY <1>1 DEF SizeAt
<1>3. NumberAt(u, y + 2) = NumberAt(t, x + 2)
  <2>1. /\ (y + 2) + 1 = y + 3 /\ (y + 2) + 2 = y + 4 /\ (y + 2) + 3 = y + 5
        /\ (x + 2) + 1 = x + 3 /\ (x + 2) + 2 = x + 4 /\ (x + 2) + 3 = x + 5
    OBVIOUS
  <2> QED BY <1>1, <2>1 DEF NumberAt
<1>4. \A k \in 1 .. z : u[(y + 6) + k - 1] = t[(x + 6) + k - 1]
  <2> TAKE k \in 1 .. z
  <2>1. 5 + k \in 0 .. 5 + z /\ (y + 6) + k - 1 = y + (5 + k) /\ (x + 6) + k - 1 = x + (5 + k)
    OBVIOUS
  <2> QED BY <2>1 DEF Moved
<1> QED BY <1>2, <1>3, <1>4 DEF Bytes

\* What Add writes for a message.
Written(p, l) == Short(Len(p)) \o Long(l) \o p

Holds(u, y, p, l) == \A k \in 1 .. 6 + Len(p) : u[y + k - 1] = Written(p, l)[k]

LEMMA ConcatIs ==
  ASSUME NEW S, NEW s \in Seq(S), NEW t \in Seq(S)
  PROVE  /\ s \o t \in Seq(S) /\ Len(s \o t) = Len(s) + Len(t)
         /\ \A k \in 1 .. Len(s) + Len(t) :
              (s \o t)[k] = IF k <= Len(s) THEN s[k] ELSE t[k - Len(s)]
BY ConcatProperties, Zenon

LEMMA WrittenIs ==
  ASSUME NEW p \in Payload, NEW l \in 0 .. Base * Base * Base * Base - 1
  PROVE  LET w == Written(p, l)
             s == Short(Len(p))
             n == Long(l)
         IN  /\ w \in Seq(Byte) /\ Len(w) = 6 + Len(p) /\ Len(p) \in Nat
             /\ w[1] = s[1] /\ w[2] = s[2]
             /\ w[3] = n[1] /\ w[4] = n[2] /\ w[5] = n[3] /\ w[6] = n[4]
             /\ \A k \in 1 .. Len(p) : w[6 + k] = p[k]
<1> DEFINE s == Short(Len(p))
           n == Long(l)
<1>1. p \in Seq(Byte) /\ Len(p) \in 0 .. Base * Base - 1 /\ Len(p) \in Nat
  BY MsgQueueAssumption
<1>2. s \in Seq(Byte) /\ Len(s) = 2
  BY <1>1, ShortReads
<1>3. n \in Seq(Byte) /\ Len(n) = 4
  BY LongReads
<1> HIDE DEF s, n
<1>4. PICK h : h = s \o n
  OBVIOUS
<1>5. /\ h \in Seq(Byte) /\ Len(h) = 6
      /\ \A k \in 1 .. 6 : h[k] = IF k <= 2 THEN s[k] ELSE n[k - 2]
  <2>1. /\ h \in Seq(Byte) /\ Len(h) = Len(s) + Len(n)
        /\ \A k \in 1 .. Len(s) + Len(n) : h[k] = IF k <= Len(s) THEN s[k] ELSE n[k - Len(s)]
    BY <1>2, <1>3, <1>4, ConcatIs
  <2> QED BY <1>2, <1>3, <2>1
<1>6. h[1] = s[1] /\ h[2] = s[2] /\ h[3] = n[1] /\ h[4] = n[2] /\ h[5] = n[3] /\ h[6] = n[4]
  BY <1>5
<1>7. PICK w : w = h \o p
  OBVIOUS
<1>8. /\ w \in Seq(Byte) /\ Len(w) = 6 + Len(p)
      /\ \A k \in 1 .. 6 + Len(p) : w[k] = IF k <= 6 THEN h[k] ELSE p[k - 6]
  <2>1. /\ w \in Seq(Byte) /\ Len(w) = Len(h) + Len(p)
        /\ \A k \in 1 .. Len(h) + Len(p) : w[k] = IF k <= Len(h) THEN h[k] ELSE p[k - Len(h)]
    BY <1>1, <1>5, <1>7, ConcatIs
  <2> QED BY <1>1, <1>5, <2>1
<1>9. /\ w[1] = h[1] /\ w[2] = h[2] /\ w[3] = h[3] /\ w[4] = h[4] /\ w[5] = h[5] /\ w[6] = h[6]
  BY <1>1, <1>8
<1>10. \A k \in 1 .. Len(p) : w[6 + k] = p[k]
  <2> TAKE k \in 1 .. Len(p)
  <2>1. 6 + k \in 1 .. 6 + Len(p) /\ ~(6 + k <= 6) /\ (6 + k) - 6 = k
    BY <1>1
  <2> QED BY <1>8, <2>1
<1>11. Written(p, l) = w
  BY <1>4, <1>7 DEF Written, s, n
<1> QED BY <1>1, <1>6, <1>8, <1>9, <1>10, <1>11 DEF s, n

\* What Add writes is read as the message.
LEMMA NewFrame ==
  ASSUME NEW p \in Payload, NEW l \in 0 .. Base * Base * Base * Base - 1,
         NEW u, NEW y \in Nat, Holds(u, y, p, l)
  PROVE  /\ SizeAt(u, y) = Len(p)
         /\ NumberAt(u, y + 2) = l
         /\ Bytes(u, y + 6, Len(p)) = p
<1> DEFINE s == Short(Len(p))
           n == Long(l)
<1>1. PICK w : w = Written(p, l)
  OBVIOUS
<1>2. /\ Len(p) \in Nat
      /\ w[1] = s[1] /\ w[2] = s[2]
      /\ w[3] = n[1] /\ w[4] = n[2] /\ w[5] = n[3] /\ w[6] = n[4]
      /\ \A k \in 1 .. Len(p) : w[6 + k] = p[k]
  BY <1>1, WrittenIs
<1>3. p \in Seq(Byte) /\ Len(p) \in 0 .. Base * Base - 1
  BY MsgQueueAssumption
<1>4. ShortOf(s[1], s[2]) = Len(p)
  BY <1>3, ShortReads
<1>5. LongOf(n[1], n[2], n[3], n[4]) = l
  BY LongReads
<1> HIDE DEF s, n
<1>6. \A k \in 1 .. 6 + Len(p) : u[y + k - 1] = w[k]
  BY <1>1 DEF Holds
<1>7. /\ u[y] = w[1] /\ u[y + 1] = w[2] /\ u[y + 2] = w[3] /\ u[y + 3] = w[4]
      /\ u[y + 4] = w[5] /\ u[y + 5] = w[6]
  <2>1. /\ 1 \in 1 .. 6 + Len(p) /\ 2 \in 1 .. 6 + Len(p) /\ 3 \in 1 .. 6 + Len(p)
        /\ 4 \in 1 .. 6 + Len(p) /\ 5 \in 1 .. 6 + Len(p) /\ 6 \in 1 .. 6 + Len(p)
        /\ y + 1 - 1 = y /\ y + 2 - 1 = y + 1 /\ y + 3 - 1 = y + 2
        /\ y + 4 - 1 = y + 3 /\ y + 5 - 1 = y + 4 /\ y + 6 - 1 = y + 5
    BY <1>2
  <2>2. u[y + 1 - 1] = w[1] /\ u[y + 2 - 1] = w[2] /\ u[y + 3 - 1] = w[3]
    BY <1>6, <2>1
  <2>3. u[y + 4 - 1] = w[4] /\ u[y + 5 - 1] = w[5] /\ u[y + 6 - 1] = w[6]
    BY <1>6, <2>1
  <2> QED BY <2>1, <2>2, <2>3
<1>8. SizeAt(u, y) = Len(p)
  BY <1>2, <1>4, <1>7 DEF SizeAt
<1>9. NumberAt(u, y + 2) = l
  <2>1. (y + 2) + 1 = y + 3 /\ (y + 2) + 2 = y + 4 /\ (y + 2) + 3 = y + 5
    OBVIOUS
  <2> QED BY <1>2, <1>5, <1>7, <2>1 DEF NumberAt
<1>10. \A k \in 1 .. Len(p) : u[(y + 6) + k - 1] = p[k]
  <2> TAKE k \in 1 .. Len(p)
  <2>1. 6 + k \in 1 .. 6 + Len(p) /\ (y + 6) + k - 1 = y + (6 + k) - 1
    BY <1>2
  <2> QED BY <1>2, <1>6, <2>1
<1>11. Bytes(u, y + 6, Len(p)) = [k \in 1 .. Len(p) |-> p[k]]
  BY <1>10 DEF Bytes
<1>12. [k \in 1 .. Len(p) |-> p[k]] = p
  BY <1>3
<1> QED BY <1>8, <1>9, <1>11, <1>12

\* The first m bytes of two tapes.
SameUpTo(t, u, m) == \A j \in Nat : j < m => u[j] = t[j]

\* The bytes of t from k on, up to m.
Shifted(t, u, k, m) == \A j \in Nat : j + k < m => u[j] = t[j + k]

\* p is behind the n messages that there were.
OneMore(t, n, f, p, u, a, g) ==
  /\ Framed(u, n + 1, a, g)
  /\ g[n + 1] = f[n] + 6 + Len(p)
  /\ \A i \in 1 .. n : Frame(u, g, i) = Frame(t, f, i)
  /\ Frame(u, g, n + 1) = p

\* The first of the n messages is gone.
OneLess(t, n, f, u, a, g) ==
  /\ Framed(u, n - 1, a + 1, g)
  /\ g[n - 1] = f[n] - f[1]
  /\ \A i \in 1 .. n - 1 : Frame(u, g, i) = Frame(t, f, i + 1)

\* A message that is written behind the others is one more of them.
LEMMA AddFramed ==
  ASSUME NEW t, NEW u, NEW n \in Nat, NEW a \in Nat, NEW f, Framed(t, n, a, f),
         NEW p \in Payload, a + n \in 0 .. Base * Base * Base * Base - 1,
         f[n] + 6 + Len(p) < M,
         SameUpTo(t, u, f[n]),
         Holds(u, f[n], p, a + n)
  PROVE  \E g : OneMore(t, n, f, p, u, a, g)
<1> DEFINE g == [i \in 0 .. n + 1 |-> IF i = n + 1 THEN f[n] + 6 + Len(p) ELSE f[i]]
<1>1. Len(p) \in Nat
  BY MsgQueueAssumption
<1>2. /\ f \in [0 .. n -> Nat] /\ f[0] = 0 /\ f[n] \in Nat
      /\ \A i, j \in 0 .. n : i <= j => f[i] <= f[j]
      /\ \A i \in 1 .. n :
           /\ SizeAt(t, f[i - 1]) \in Nat
           /\ f[i] = f[i - 1] + 6 + SizeAt(t, f[i - 1])
           /\ NumberAt(t, f[i - 1] + 2) = a + i - 1
           /\ Frame(t, f, i) \in Payload
  BY DEF Framed
<1>3. /\ g \in [0 .. n + 1 -> Nat] /\ g[n + 1] = f[n] + 6 + Len(p)
      /\ \A i \in 0 .. n : g[i] = f[i]
  <2>1. \A i \in 0 .. n + 1 : (IF i = n + 1 THEN f[n] + 6 + Len(p) ELSE f[i]) \in Nat
    <3> TAKE i \in 0 .. n + 1
    <3>1. CASE i = n + 1
      BY <1>1, <1>2, <3>1
    <3>2. CASE i # n + 1
      <4>1. i \in 0 .. n
        BY <3>2
      <4> QED BY <1>2, <3>2, <4>1
    <3> QED BY <3>1, <3>2
  <2> QED BY <2>1
<1> HIDE DEF g
<1>4. g[0] = 0
  BY <1>2, <1>3
<1>5. ASSUME NEW i \in 0 .. n + 1, NEW j \in 0 .. n + 1, i <= j
      PROVE  g[i] <= g[j]
  <2>1. CASE j = n + 1 /\ i # n + 1
    <3>1. i \in 0 .. n /\ n \in 0 .. n /\ i <= n
      BY <2>1
    <3>2. f[i] <= f[n] /\ f[i] \in Nat
      BY <1>2, <3>1
    <3> QED BY <1>1, <1>2, <1>3, <2>1, <3>1, <3>2
  <2>2. CASE j = n + 1 /\ i = n + 1
    BY <1>1, <1>2, <1>3, <2>2
  <2>3. CASE j # n + 1
    <3>1. i \in 0 .. n /\ j \in 0 .. n
      BY <1>5, <2>3
    <3> QED BY <1>2, <1>3, <1>5, <3>1
  <2> QED BY <2>1, <2>2, <2>3
<1>6. ASSUME NEW i \in 1 .. n
      PROVE  /\ SizeAt(u, g[i - 1]) = SizeAt(t, f[i - 1])
             /\ NumberAt(u, g[i - 1] + 2) = NumberAt(t, f[i - 1] + 2)
             /\ Frame(u, g, i) = Frame(t, f, i)
  <2>1. i - 1 \in 0 .. n /\ i \in 0 .. n /\ n \in 0 .. n /\ i <= n
    OBVIOUS
  <2>2. PICK x, z : x = f[i - 1] /\ z = SizeAt(t, f[i - 1])
    OBVIOUS
  <2>3. x \in Nat /\ z \in Nat /\ x + 6 + z <= f[n] /\ g[i - 1] = x
    <3>1. f[i] = x + 6 + z /\ f[i] <= f[n] /\ x \in Nat /\ z \in Nat
      BY <1>2, <2>1, <2>2
    <3> QED BY <1>3, <2>1, <2>2, <3>1
  <2>4. Moved(t, x, u, x, z)
    <3> SUFFICES ASSUME NEW k \in 0 .. 5 + z PROVE u[x + k] = t[x + k]
      BY DEF Moved
    <3>1. x + k \in Nat /\ x + k < f[n]
      BY <1>2, <2>3
    <3> QED BY <3>1 DEF SameUpTo
  <2>5. SizeAt(u, x) = z /\ NumberAt(u, x + 2) = NumberAt(t, x + 2)
        /\ Bytes(u, x + 6, z) = Bytes(t, x + 6, z)
    <3>1. x \in Nat /\ z \in Nat /\ SizeAt(t, x) = z
      BY <2>2, <2>3
    <3> QED BY ONLY <2>4, <3>1, SameFrame
  <2> QED BY <2>2, <2>3, <2>5 DEF Frame
<1>7. /\ SizeAt(u, g[n]) = Len(p)
      /\ NumberAt(u, g[n] + 2) = a + n
      /\ Frame(u, g, n + 1) = p
  <2>1. g[n] = f[n] /\ (n + 1) - 1 = n
    <3>1. n \in 0 .. n
      OBVIOUS
    <3> QED BY <1>3, <3>1
  <2>2. /\ SizeAt(u, f[n]) = Len(p)
        /\ NumberAt(u, f[n] + 2) = a + n
        /\ Bytes(u, f[n] + 6, Len(p)) = p
    <3>1. PICK y, l : y = f[n] /\ l = a + n
      OBVIOUS
    <3>2. y \in Nat /\ l \in 0 .. Base * Base * Base * Base - 1
      BY <1>2, <3>1
    <3>3. Holds(u, y, p, l)
      BY <3>1
    <3>4. SizeAt(u, y) = Len(p) /\ NumberAt(u, y + 2) = l /\ Bytes(u, y + 6, Len(p)) = p
      BY ONLY <3>2, <3>3, p \in Payload, NewFrame
    <3> QED BY <3>1, <3>4
  <2> QED BY <2>1, <2>2 DEF Frame
<1>8. ASSUME NEW i \in 1 .. n + 1
      PROVE  /\ SizeAt(u, g[i - 1]) \in Nat
             /\ g[i] = g[i - 1] + 6 + SizeAt(u, g[i - 1])
             /\ NumberAt(u, g[i - 1] + 2) = a + i - 1
             /\ Frame(u, g, i) \in Payload
  <2>1. CASE i = n + 1
    <3>1. i - 1 = n /\ a + i - 1 = a + n /\ g[n] = f[n]
      BY <1>3, <2>1
    <3> QED BY <1>1, <1>3, <1>7, <2>1, <3>1
  <2>2. CASE i # n + 1
    <3>1. i \in 1 .. n /\ i \in 0 .. n /\ i - 1 \in 0 .. n
      BY <2>2
    <3>2. g[i] = f[i] /\ g[i - 1] = f[i - 1]
      BY <1>3, <3>1
    <3>3. /\ SizeAt(t, f[i - 1]) \in Nat
          /\ f[i] = f[i - 1] + 6 + SizeAt(t, f[i - 1])
          /\ NumberAt(t, f[i - 1] + 2) = a + i - 1
          /\ Frame(t, f, i) \in Payload
      BY <1>2, <3>1
    <3>4. /\ SizeAt(u, g[i - 1]) = SizeAt(t, f[i - 1])
          /\ NumberAt(u, g[i - 1] + 2) = NumberAt(t, f[i - 1] + 2)
          /\ Frame(u, g, i) = Frame(t, f, i)
      BY <1>6, <3>1
    <3> QED BY <3>2, <3>3, <3>4
  <2> QED BY <2>1, <2>2
<1>9. g[n + 1] < M
  BY <1>3
<1>10. Framed(u, n + 1, a, g)
  BY <1>3, <1>4, <1>5, <1>8, <1>9 DEF Framed
<1> QED BY <1>3, <1>6, <1>7, <1>10 DEF OneMore

\* When the first message is taken off, the others are read in its place.
LEMMA GetFramed ==
  ASSUME NEW t, NEW u, NEW n \in Nat, NEW a \in Nat, NEW f, Framed(t, n, a, f), n > 0,
         Shifted(t, u, f[1], f[n])
  PROVE  \E g : OneLess(t, n, f, u, a, g)
<1> DEFINE g == [i \in 0 .. n - 1 |-> f[i + 1] - f[1]]
<1>1. /\ f \in [0 .. n -> Nat] /\ f[n] < M
      /\ \A i, j \in 0 .. n : i <= j => f[i] <= f[j]
      /\ \A i \in 1 .. n :
           /\ SizeAt(t, f[i - 1]) \in Nat
           /\ f[i] = f[i - 1] + 6 + SizeAt(t, f[i - 1])
           /\ NumberAt(t, f[i - 1] + 2) = a + i - 1
           /\ Frame(t, f, i) \in Payload
  BY DEF Framed
<1>2. 1 \in 0 .. n /\ n \in 0 .. n /\ f[1] \in Nat /\ f[n] \in Nat
  BY <1>1
<1>3. \A i \in 0 .. n - 1 : i + 1 \in 0 .. n /\ f[i + 1] \in Nat /\ f[1] <= f[i + 1]
  <2> TAKE i \in 0 .. n - 1
  <2>1. i + 1 \in 0 .. n /\ 1 <= i + 1
    OBVIOUS
  <2> QED BY <1>1, <1>2, <2>1
<1>4. /\ g \in [0 .. n - 1 -> Nat]
      /\ \A i \in 0 .. n - 1 : g[i] = f[i + 1] - f[1]
  <2>1. \A i \in 0 .. n - 1 : f[i + 1] - f[1] \in Nat
    BY <1>2, <1>3
  <2> QED BY <2>1
<1> HIDE DEF g
<1>5. g[0] = 0 /\ g[n - 1] = f[n] - f[1] /\ g[n - 1] < M
  <2>1. 0 \in 0 .. n - 1 /\ n - 1 \in 0 .. n - 1 /\ 0 + 1 = 1 /\ (n - 1) + 1 = n
    OBVIOUS
  <2>2. g[0] = f[1] - f[1] /\ g[n - 1] = f[n] - f[1]
    BY <1>4, <2>1
  <2>3. PICK x, y : x = f[n] /\ y = f[1]
    OBVIOUS
  <2>4. x \in Nat /\ y \in Nat /\ x < M /\ M \in Nat
    BY <1>1, <1>2, <2>3, Sizes
  <2>5. y - y = 0 /\ x - y < M
    BY <2>4
  <2> QED BY <2>2, <2>3, <2>5
<1>6. ASSUME NEW i \in 0 .. n - 1, NEW j \in 0 .. n - 1, i <= j
      PROVE  g[i] <= g[j]
  <2>1. i + 1 <= j + 1
    BY <1>6
  <2>2. f[i + 1] <= f[j + 1]
    BY <1>1, <1>3, <2>1
  <2>3. PICK x, y, z : x = f[i + 1] /\ y = f[j + 1] /\ z = f[1]
    OBVIOUS
  <2>4. x \in Nat /\ y \in Nat /\ z \in Nat /\ x <= y
    BY <1>2, <1>3, <2>2, <2>3
  <2>5. g[i] = x - z /\ g[j] = y - z
    BY <1>4, <2>3
  <2> QED BY <2>4, <2>5
<1>7. ASSUME NEW i \in 1 .. n - 1
      PROVE  /\ SizeAt(u, g[i - 1]) \in Nat
             /\ g[i] = g[i - 1] + 6 + SizeAt(u, g[i - 1])
             /\ NumberAt(u, g[i - 1] + 2) = (a + 1) + i - 1
             /\ Frame(u, g, i) = Frame(t, f, i + 1)
             /\ Frame(u, g, i) \in Payload
  <2>1. /\ i \in 0 .. n - 1 /\ i - 1 \in 0 .. n - 1 /\ i + 1 \in 1 .. n
        /\ (i - 1) + 1 = i /\ (i + 1) - 1 = i /\ i + 1 \in 0 .. n /\ i + 1 <= n
    OBVIOUS
  <2>2. PICK x, y, z : x = f[i] /\ y = g[i - 1] /\ z = SizeAt(t, f[i])
    OBVIOUS
  <2>3. z \in Nat /\ f[i + 1] = x + 6 + z /\ NumberAt(t, x + 2) = a + (i + 1) - 1
        /\ Frame(t, f, i + 1) \in Payload /\ Frame(t, f, i + 1) = Bytes(t, x + 6, z)
    BY <1>1, <2>1, <2>2 DEF Frame
  <2>4. g[i - 1] = f[i] - f[1] /\ g[i] = f[i + 1] - f[1]
    BY <1>4, <2>1
  <2>5. x \in Nat /\ y \in Nat /\ x = y + f[1]
    <3>1. x \in Nat /\ y \in Nat
      BY <1>1, <1>4, <2>1, <2>2
    <3>2. y = x - f[1]
      BY <2>2, <2>4
    <3> QED BY <1>2, <3>1, <3>2
  <2>6. x + 6 + z <= f[n]
    BY <1>1, <1>2, <2>1, <2>3
  <2>7. Moved(t, x, u, y, z)
    <3> SUFFICES ASSUME NEW k \in 0 .. 5 + z PROVE u[y + k] = t[x + k]
      BY DEF Moved
    <3>1. y + k \in Nat /\ (y + k) + f[1] = x + k /\ x + k < f[n]
      BY <1>2, <2>3, <2>5, <2>6
    <3> QED BY <3>1 DEF Shifted
  <2>8. SizeAt(u, y) = z /\ NumberAt(u, y + 2) = NumberAt(t, x + 2)
        /\ Bytes(u, y + 6, z) = Bytes(t, x + 6, z)
    <3>1. SizeAt(t, x) = z
      BY <2>2
    <3> QED BY ONLY <2>3, <2>5, <2>7, <3>1, SameFrame
  <2>9. Frame(u, g, i) = Bytes(u, y + 6, z)
    BY <2>2, <2>8 DEF Frame
  <2>10. g[i] = y + 6 + z
    BY <1>2, <2>3, <2>4, <2>5
  <2> QED BY <2>2, <2>3, <2>8, <2>9, <2>10
<1>8. Framed(u, n - 1, a + 1, g)
  <2>1. \A i \in 1 .. n - 1 :
          /\ SizeAt(u, g[i - 1]) \in Nat
          /\ g[i] = g[i - 1] + 6 + SizeAt(u, g[i - 1])
          /\ NumberAt(u, g[i - 1] + 2) = (a + 1) + i - 1
          /\ Frame(u, g, i) \in Payload
    BY <1>7
  <2> QED BY <1>4, <1>5, <1>6, <2>1 DEF Framed
<1> QED BY <1>5, <1>7, <1>8 DEF OneLess

-----------------------------------------------------------------------------
(* The buffer as a tape *)

LEMMA TapeType ==
  ASSUME NEW b \in [Index -> Byte], NEW s \in Index
  PROVE  Tape(b, s) \in Tapes
<1>1. \A j \in Index : Wrap(s + j) \in Index
  BY Sizes, WrapRange DEF Index, M
<1> QED BY <1>1 DEF Tape, Tapes

LEMMA TapeAt ==
  ASSUME NEW b, NEW s, NEW j \in Nat, j < M
  PROVE  Tape(b, s)[j] = b[Wrap(s + j)]
BY Sizes DEF Tape, Index, M

\* What BytesAt, ReadShort and ReadLong read from a buffer.
RingBytes(b, i, n) == [k \in 1 .. n |-> b[Wrap(i + k - 1)]]
RingShort(b, i) == LET c == RingBytes(b, i, 2) IN c[1] + c[2] * Base
RingLong(b, i) == LET c == RingBytes(b, i, 4)
                  IN  c[1] + c[2] * Base + c[3] * Base * Base + c[4] * Base * Base * Base

LEMMA RingIsTape ==
  ASSUME NEW b, NEW s \in Index, NEW j \in Nat, NEW n \in Nat, j + n <= M
  PROVE  RingBytes(b, s + j, n) = Bytes(Tape(b, s), j, n)
<1>1. ASSUME NEW k \in 1 .. n
      PROVE  b[Wrap((s + j) + k - 1)] = Tape(b, s)[j + k - 1]
  <2>1. j + k - 1 \in Nat /\ j + k - 1 < M
    BY Sizes
  <2>2. (s + j) + k - 1 = s + (j + k - 1)
    BY Sizes DEF Index, M
  <2> QED BY <2>1, <2>2, TapeAt
<1> QED BY <1>1 DEF RingBytes, Bytes

LEMMA RingShortIs ==
  ASSUME NEW b, NEW s \in Index, NEW j \in Nat, j + 2 <= M
  PROVE  RingShort(b, s + j) = SizeAt(Tape(b, s), j)
<1>1. RingBytes(b, s + j, 2) = Bytes(Tape(b, s), j, 2)
  BY RingIsTape
<1>2. PICK c : c = Bytes(Tape(b, s), j, 2)
  OBVIOUS
<1>3. c[1] = Tape(b, s)[j] /\ c[2] = Tape(b, s)[j + 1]
  <2>1. j + 1 - 1 = j /\ j + 2 - 1 = j + 1 /\ 1 \in 1 .. 2 /\ 2 \in 1 .. 2
    OBVIOUS
  <2>2. c[1] = Tape(b, s)[j + 1 - 1] /\ c[2] = Tape(b, s)[j + 2 - 1]
    BY <1>2, <2>1 DEF Bytes
  <2> QED BY <2>1, <2>2
<1> QED BY <1>1, <1>2, <1>3 DEF RingShort, SizeAt, ShortOf

LEMMA RingLongIs ==
  ASSUME NEW b, NEW s \in Index, NEW j \in Nat, j + 4 <= M
  PROVE  RingLong(b, s + j) = NumberAt(Tape(b, s), j)
<1>1. RingBytes(b, s + j, 4) = Bytes(Tape(b, s), j, 4)
  BY RingIsTape
<1>2. PICK c : c = Bytes(Tape(b, s), j, 4)
  OBVIOUS
<1>3. /\ c[1] = Tape(b, s)[j] /\ c[2] = Tape(b, s)[j + 1]
      /\ c[3] = Tape(b, s)[j + 2] /\ c[4] = Tape(b, s)[j + 3]
  <2>1. /\ j + 1 - 1 = j /\ j + 2 - 1 = j + 1 /\ j + 3 - 1 = j + 2 /\ j + 4 - 1 = j + 3
        /\ 1 \in 1 .. 4 /\ 2 \in 1 .. 4 /\ 3 \in 1 .. 4 /\ 4 \in 1 .. 4
    OBVIOUS
  <2>2. /\ c[1] = Tape(b, s)[j + 1 - 1] /\ c[2] = Tape(b, s)[j + 2 - 1]
        /\ c[3] = Tape(b, s)[j + 3 - 1] /\ c[4] = Tape(b, s)[j + 4 - 1]
    BY <1>2, <2>1 DEF Bytes
  <2> QED BY <2>1, <2>2
<1> QED BY <1>1, <1>2, <1>3 DEF RingLong, NumberAt, LongOf

\* A buffer into which w was written at e.
Stamped(b, e, w) ==
  [i \in Index |-> LET k == Wrap(i - e) + 1
                   IN  IF k <= Len(w) THEN w[k] ELSE b[i]]

\* The bytes w are on a tape from m on.
At(w, t, m) == \A k \in 1 .. Len(w) : t[m + k - 1] = w[k]

\* What is written behind m bytes leaves these as they are.
LEMMA AddTape ==
  ASSUME NEW b \in [Index -> Byte], NEW s \in Index, NEW m \in Nat,
         NEW w \in Seq(Byte), m + Len(w) < M,
         NEW e, e = Wrap(s + m), NEW c, c = Stamped(b, e, w)
  PROVE  /\ c \in [Index -> Byte]
         /\ SameUpTo(Tape(b, s), Tape(c, s), m)
         /\ At(w, Tape(c, s), m)
<1>1. s \in Nat /\ s < M /\ M \in Nat /\ Len(w) \in Nat
  BY Sizes DEF Index, M
<1>2. e \in Index
  BY <1>1, WrapRange
<1>3. ASSUME NEW i \in Index
      PROVE  Wrap(i - e) + 1 \in Nat \ {0} /\ Wrap(i - e) \in Nat
  <2>1. i - e \in Int
    BY <1>1, <1>2 DEF Index, M
  <2>2. Wrap(i - e) \in Index
    BY <2>1, WrapRange
  <2> QED BY <2>2 DEF Index
<1>4. c \in [Index -> Byte]
  <2>1. \A i \in Index :
          (LET k == Wrap(i - e) + 1 IN IF k <= Len(w) THEN w[k] ELSE b[i]) \in Byte
    <3> TAKE i \in Index
    <3>1. PICK k : k = Wrap(i - e) + 1 /\ k \in Nat \ {0}
      BY <1>3
    <3>2. CASE k <= Len(w)
      BY <1>1, <3>1, <3>2
    <3>3. CASE ~(k <= Len(w))
      BY <3>1, <3>3
    <3> QED BY <3>2, <3>3
  <2> QED BY <2>1 DEF Stamped
<1>5. ASSUME NEW j \in Nat, j < M
      PROVE  LET k == Wrap(j - m) + 1
             IN  Tape(c, s)[j] = IF k <= Len(w) THEN w[k] ELSE Tape(b, s)[j]
  <2>1. Wrap(s + j) \in Index
    BY <1>1, WrapRange
  <2>2. Wrap(Wrap(s + j) - e) = Wrap(j - m)
    <3>0. m < M
      BY <1>1
    <3>1. \/ s + j < M /\ Wrap(s + j) = s + j
          \/ M <= s + j /\ Wrap(s + j) = s + j - M
      BY <1>1, <1>5, WrapHere, WrapBehind DEF Index, M
    <3>2. \/ s + m < M /\ e = s + m
          \/ M <= s + m /\ e = s + m - M
      BY <1>1, <3>0, WrapHere, WrapBehind DEF Index, M
    <3>3. \A i \in Int : 0 <= i /\ i < M => Wrap(i) = i
      BY Sizes, WrapHere DEF Index, M
    <3>4. CASE m <= j
      <4>1. Wrap(j - m) = j - m
        BY <1>1, <1>5, <3>3, <3>4
      <4>2. \/ Wrap(s + j) - e = j - m
            \/ Wrap(s + j) - e = (j - m) - M
        BY <1>1, <1>5, <3>0, <3>1, <3>2, <3>4
      <4>3. CASE Wrap(s + j) - e = (j - m) - M
        <5>1. CASE j = m
          <6>1. Wrap(s + j) - e = 0 /\ j - m = 0
            BY <1>1, <1>2, <5>1 DEF Index, M
          <6> QED BY <6>1
        <5>2. CASE j # m
          <6>1. 0 - M < (j - m) - M /\ (j - m) - M < 0 /\ (j - m) - M \in Int
            BY <1>1, <1>5, <3>4, <5>2
          <6>2. Wrap((j - m) - M) = ((j - m) - M) + M
            BY <6>1, WrapBefore
          <6> QED BY <1>1, <4>1, <4>3, <6>2
        <5> QED BY <5>1, <5>2
      <4> QED BY <4>2, <4>3
    <3>5. CASE j < m
      <4>1. Wrap(j - m) = (j - m) + M
        BY <1>1, <1>5, <3>0, <3>5, WrapBefore
      <4>2. \/ Wrap(s + j) - e = j - m
            \/ Wrap(s + j) - e = (j - m) + M
        BY <1>1, <1>5, <3>0, <3>1, <3>2, <3>5
      <4>3. CASE Wrap(s + j) - e = (j - m) + M
        <5>1. Wrap((j - m) + M) = (j - m) + M
          BY <1>1, <1>5, <3>0, <3>3, <3>5
        <5> QED BY <4>1, <4>3, <5>1
      <4> QED BY <4>2, <4>3
    <3> QED BY <3>4, <3>5
  <2>3. Tape(c, s)[j] = c[Wrap(s + j)] /\ Tape(b, s)[j] = b[Wrap(s + j)]
    BY <1>5, TapeAt
  <2>4. PICK i : i = Wrap(s + j) /\ i \in Index
    BY <2>1
  <2>5. c[i] = IF Wrap(i - e) + 1 <= Len(w) THEN w[Wrap(i - e) + 1] ELSE b[i]
    BY <2>4 DEF Stamped
  <2> QED BY <2>2, <2>3, <2>4, <2>5
<1>6. ASSUME NEW j \in Nat, j < m
      PROVE  Tape(c, s)[j] = Tape(b, s)[j]
  <2>1. Wrap(j - m) = (j - m) + M
    BY <1>1, <1>6, WrapBefore
  <2>2. ~(Wrap(j - m) + 1 <= Len(w)) /\ j < M
    BY <1>1, <1>6, <2>1
  <2> QED BY <1>5, <2>2
<1>7. ASSUME NEW k \in 1 .. Len(w)
      PROVE  Tape(c, s)[m + k - 1] = w[k]
  <2>1. m + k - 1 \in Nat /\ m + k - 1 < M /\ (m + k - 1) - m = k - 1 /\ k - 1 \in Index
    BY <1>1 DEF Index, M
  <2>2. Wrap((m + k - 1) - m) + 1 = k /\ k <= Len(w)
    BY <1>1, <2>1, WrapHere
  <2> QED BY <1>5, <2>1, <2>2
<1> QED BY <1>4, <1>6, <1>7 DEF SameUpTo, At

\* Reading goes on behind the m bytes that were read.
LEMMA GetTape ==
  ASSUME NEW b, NEW s \in Index, NEW m \in Nat, m < M
  PROVE  Shifted(Tape(b, s), Tape(b, Wrap(s + m)), m, M)
<1> SUFFICES ASSUME NEW j \in Nat, j + m < M
             PROVE  Tape(b, Wrap(s + m))[j] = Tape(b, s)[j + m]
  BY DEF Shifted
<1>1. s \in Nat /\ s < M /\ M \in Nat
  BY Sizes DEF Index, M
<1>2. j < M /\ j + m \in Nat /\ s + m \in Nat /\ (s + m) + j < 2 * M /\ (s + m) + j = s + (j + m)
  BY <1>1
<1>3. Wrap(Wrap(s + m) + j) = Wrap(s + (j + m))
  BY <1>2, WrapAgain
<1> QED BY <1>2, <1>3, TapeAt

-----------------------------------------------------------------------------
(* The queue that the buffer stands for *)

\* n messages from s on, the first of them with number a, and e behind them.
Framing(b, s, e, n, a, f) ==
  /\ Framed(Tape(b, s), n, a, f)
  /\ e = Wrap(s + f[n])

LEMMA TotalIs ==
  ASSUME NEW b, NEW s \in Index, NEW e, NEW n \in Nat, NEW a, NEW f, Framing(b, s, e, n, a, f)
  PROVE  /\ e \in Index
         /\ f[n] = IF s <= e THEN e - s ELSE MAX_MSG_QUEUE_SIZE - s + e
<1>1. f[n] \in Nat /\ f[n] < M /\ e = Wrap(s + f[n])
  BY DEF Framing, Framed
<1>2. s \in Nat /\ s < M /\ M \in Nat
  BY Sizes DEF Index, M
<1>3. CASE s + f[n] < M
  <2>1. e = s + f[n]
    BY <1>1, <1>2, <1>3, WrapHere DEF Index, M
  <2> QED BY <1>1, <1>2, <1>3, <2>1 DEF Index, M
<1>4. CASE M <= s + f[n]
  <2>1. e = s + f[n] - M
    BY <1>1, <1>2, <1>4, WrapBehind
  <2> QED BY <1>1, <1>2, <1>4, <2>1 DEF Index, M
<1> QED BY <1>1, <1>2, <1>3, <1>4

\* Offset, for any buffer and start.
Offsets(b, s, n) ==
  CHOOSE o : o = [i \in 0 .. n |-> IF i = 0 THEN 0
                                   ELSE o[i - 1] + 6 + RingShort(b, s + o[i - 1])]

LEMMA PlaceFacts ==
  ASSUME NEW t, NEW n \in Nat, NEW a, NEW f, Framed(t, n, a, f), NEW i \in 1 .. n
  PROVE  /\ f[i - 1] \in Nat /\ SizeAt(t, f[i - 1]) \in Nat
         /\ f[i] = f[i - 1] + 6 + SizeAt(t, f[i - 1])
         /\ f[i] <= f[n] /\ f[i] < M
<1>1. i - 1 \in 0 .. n /\ i \in 0 .. n /\ n \in 0 .. n /\ i <= n
  OBVIOUS
<1>2. f[i] <= f[n] /\ f[i - 1] \in Nat /\ f[i] \in Nat /\ f[n] \in Nat /\ f[n] < M
  BY <1>1 DEF Framed
<1>3. SizeAt(t, f[i - 1]) \in Nat /\ f[i] = f[i - 1] + 6 + SizeAt(t, f[i - 1])
  BY DEF Framed
<1> QED BY <1>2, <1>3, Sizes

LEMMA OffsetsAre ==
  ASSUME NEW b, NEW s \in Index, NEW n \in Nat, NEW a, NEW f, Framed(Tape(b, s), n, a, f)
  PROVE  Offsets(b, s, n) = f
<1> DEFINE R(o) == [i \in 0 .. n |-> IF i = 0 THEN 0
                                     ELSE o[i - 1] + 6 + RingShort(b, s + o[i - 1])]
           o == Offsets(b, s, n)
<1>1. f \in [0 .. n -> Nat] /\ f[0] = 0
  BY DEF Framed
<1>2. ASSUME NEW i \in 1 .. n
      PROVE  f[i] = f[i - 1] + 6 + RingShort(b, s + f[i - 1])
  <2>1. PICK x, z : x = f[i - 1] /\ z = SizeAt(Tape(b, s), f[i - 1])
    OBVIOUS
  <2>2. x \in Nat /\ z \in Nat /\ f[i] = x + 6 + z /\ f[i] < M
    <3>1. /\ f[i - 1] \in Nat /\ SizeAt(Tape(b, s), f[i - 1]) \in Nat
          /\ f[i] = f[i - 1] + 6 + SizeAt(Tape(b, s), f[i - 1]) /\ f[i] < M
      BY PlaceFacts
    <3> QED BY <2>1, <3>1
  <2>3. x + 2 <= M
    BY <2>2, Sizes
  <2>4. RingShort(b, s + x) = z
    BY <2>1, <2>2, <2>3, RingShortIs
  <2> QED BY <2>1, <2>2, <2>4
<1>3. f = R(f)
  <2>1. \A i \in 0 .. n : f[i] = IF i = 0 THEN 0 ELSE f[i - 1] + 6 + RingShort(b, s + f[i - 1])
    BY <1>1, <1>2
  <2> QED BY <1>1, <2>1
<1>4. o = R(o)
  <2>1. \E g : g = R(g)
    BY <1>3
  <2> QED BY <2>1 DEF Offsets
<1> HIDE DEF o
<1>5. DOMAIN o = 0 .. n /\ o = [i \in 0 .. n |-> o[i]]
  BY <1>4
<1>6. \A i \in 0 .. n : o[i] = IF i = 0 THEN 0 ELSE o[i - 1] + 6 + RingShort(b, s + o[i - 1])
  BY <1>4
<1>7. o[0] = f[0]
  BY <1>1, <1>6
<1>8. \A i \in 1 .. n : o[i - 1] = f[i - 1] => o[i] = f[i]
  BY <1>2, <1>6
<1>9. \A i \in 0 .. n : o[i] = f[i]
  BY <1>7, <1>8, EqualByInduction
<1>10. o = f
  BY <1>1, <1>5, <1>9
<1> QED BY <1>10 DEF o

\* The messages as the abstract queue holds them.
Frames(t, n, f) == [i \in 1 .. n |-> Frame(t, f, i)]

\* f counts the bytes that the first messages take.
Counted(f, msgs, n) == \A i \in 1 .. n : f[i] = f[i - 1] + 6 + Len(msgs[i])

LEMMA FramesAre ==
  ASSUME NEW t, NEW n \in Nat, NEW a, NEW f, Framed(t, n, a, f)
  PROVE  /\ Frames(t, n, f) \in Seq(Payload)
         /\ Len(Frames(t, n, f)) = n
         /\ \A i \in 1 .. n : /\ Frames(t, n, f)[i] = Frame(t, f, i)
                              /\ Frame(t, f, i) \in Payload
         /\ Counted(f, Frames(t, n, f), n)
<1>1. \A i \in 1 .. n : Frame(t, f, i) \in Payload
  BY DEF Framed
<1>2. Frames(t, n, f) \in Seq(Payload) /\ Len(Frames(t, n, f)) = n
  BY <1>1 DEF Frames
<1>3. ASSUME NEW i \in 1 .. n
      PROVE  f[i] = f[i - 1] + 6 + Len(Frame(t, f, i))
  <2>1. PICK z : z = SizeAt(t, f[i - 1])
    OBVIOUS
  <2>2. z \in Nat /\ f[i] = f[i - 1] + 6 + z
    BY <2>1, PlaceFacts
  <2>3. Frame(t, f, i) \in Seq(Byte) /\ DOMAIN Frame(t, f, i) = 1 .. z
    BY <1>1, <2>1, MsgQueueAssumption DEF Frame, Bytes
  <2>4. Len(Frame(t, f, i)) = z
    BY <2>2, <2>3
  <2> QED BY <2>2, <2>4
<1> QED BY <1>1, <1>2, <1>3 DEF Frames, Counted

\* What Queued makes of any buffer.
QueueIn(b, s, n, a) ==
  LET o == Offsets(b, s, n)
  IN  [first |-> a,
       msgs  |-> [i \in 1 .. n |-> RingBytes(b, s + o[i - 1] + 6, RingShort(b, s + o[i - 1]))]]

LEMMA QueueInIs ==
  ASSUME NEW b, NEW s \in Index, NEW n \in Nat, NEW a, NEW f, Framed(Tape(b, s), n, a, f)
  PROVE  QueueIn(b, s, n, a) = [first |-> a, msgs |-> Frames(Tape(b, s), n, f)]
<1>1. Offsets(b, s, n) = f
  BY OffsetsAre
<1>2. ASSUME NEW i \in 1 .. n
      PROVE  RingBytes(b, s + f[i - 1] + 6, RingShort(b, s + f[i - 1])) = Frame(Tape(b, s), f, i)
  <2>1. PICK x, z : x = f[i - 1] /\ z = SizeAt(Tape(b, s), f[i - 1])
    OBVIOUS
  <2>2. x \in Nat /\ z \in Nat /\ x + 6 + z < M /\ s \in Nat
    <3>1. /\ f[i - 1] \in Nat /\ SizeAt(Tape(b, s), f[i - 1]) \in Nat
          /\ f[i] = f[i - 1] + 6 + SizeAt(Tape(b, s), f[i - 1]) /\ f[i] < M
      BY PlaceFacts
    <3> QED BY <2>1, <3>1 DEF Index
  <2>3. x + 2 <= M /\ (x + 6) + z <= M /\ x + 6 \in Nat /\ (s + x) + 6 = s + (x + 6)
    BY <2>2, Sizes
  <2>4. RingShort(b, s + x) = z
    BY <2>1, <2>2, <2>3, RingShortIs
  <2>5. RingBytes(b, s + (x + 6), z) = Bytes(Tape(b, s), x + 6, z)
    BY <2>2, <2>3, RingIsTape
  <2>6. RingBytes(b, s + x + 6, z) = Bytes(Tape(b, s), x + 6, z)
    BY <2>3, <2>5
  <2> QED BY <2>1, <2>4, <2>6 DEF Frame
<1> QED BY <1>1, <1>2 DEF QueueIn, Frames

LEMMA TotalSizeIs ==
  ASSUME NEW q, NEW n \in Nat, q.msgs \in Seq(Payload), Len(q.msgs) = n,
         NEW f, f \in [0 .. n -> Nat], f[0] = 0,
         Counted(f, q.msgs, n)
  PROVE  Fifo!TotalSize(q) = f[n]
<1> DEFINE SizeOfIt == [p \in Payload |-> Len(p)]
           R(o) == [i \in 0 .. Len(q.msgs) |->
                      IF i = 0 THEN 0 ELSE o[i - 1] + 6 + SizeOfIt[q.msgs[i]]]
           o == CHOOSE o : o = R(o)
<1>1. \A i \in 1 .. n : SizeOfIt[q.msgs[i]] = Len(q.msgs[i])
  OBVIOUS
<1>2. Fifo!TotalSize(q) = o[n]
  BY DEF Fifo!TotalSize, Fifo!HeaderSize
<1> HIDE DEF SizeOfIt
<1>3. f = R(f)
  <2>1. \A i \in 0 .. n : f[i] = IF i = 0 THEN 0 ELSE f[i - 1] + 6 + SizeOfIt[q.msgs[i]]
    BY <1>1 DEF Counted
  <2> QED BY <2>1
<1>4. o = R(o)
  <2>1. \E g : g = R(g)
    BY <1>3
  <2> QED BY <2>1
<1> HIDE DEF o
<1>5. \A i \in 0 .. n : o[i] = IF i = 0 THEN 0 ELSE o[i - 1] + 6 + SizeOfIt[q.msgs[i]]
  BY <1>4
<1>6. o[0] = f[0]
  BY <1>5
<1>7. \A i \in 1 .. n : o[i - 1] = f[i - 1] => o[i] = f[i]
  BY <1>1, <1>5 DEF Counted
<1>8. \A i \in 0 .. n : o[i] = f[i]
  <2>1. PICK g : g = o
    OBVIOUS
  <2>2. g[0] = f[0]
    BY <1>6, <2>1
  <2>3. \A i \in 1 .. n : g[i - 1] = f[i - 1] => g[i] = f[i]
    BY <1>7, <2>1
  <2> HIDE DEF R
  <2>4. \A i \in 0 .. n : g[i] = f[i]
    BY ONLY <2>2, <2>3, n \in Nat, EqualByInduction
  <2> QED BY <2>1, <2>4
<1> QED BY <1>2, <1>8

-----------------------------------------------------------------------------
(* The invariant *)

\* There are places at which the bytes in use are the queued messages.
IInv ==
  /\ TypeOK
  /\ \E f : Framing(buffer, startIndex, endIndex, last - first, first, f)

LEMMA EmptyFraming ==
  ASSUME NEW b, NEW a
  PROVE  \E f : Framing(b, 0, 0, 0, a, f)
<1> DEFINE f == [i \in 0 .. 0 |-> 0]
<1>1. f \in [0 .. 0 -> Nat] /\ f[0] = 0 /\ \A i \in 0 .. 0 : f[i] = 0
  OBVIOUS
<1> HIDE DEF f
<1>2. Framed(Tape(b, 0), 0, a, f)
  BY <1>1, Sizes DEF Framed
<1>3. 0 + f[0] = 0 /\ 0 \in Index
  BY <1>1, Sizes DEF Index, M
<1>4. Wrap(0 + f[0]) = 0
  BY <1>3, WrapHere
<1> QED BY <1>2, <1>4 DEF Framing

LEMMA InitInv == Init => IInv
<1> SUFFICES ASSUME Init PROVE IInv
  OBVIOUS
<1>1. /\ \E b \in Byte : buffer = [i \in Index |-> b]
      /\ first \in Sequences /\ last = first
      /\ startIndex = 0 /\ endIndex = 0 /\ returned = <<>>
  BY DEF Init
<1>2. buffer \in [Index -> Byte]
  BY <1>1
<1>3. first \in Nat /\ MaxSequence \in Nat /\ first <= MaxSequence
  BY <1>1, MsgQueueAssumption
<1>4. 0 \in Index
  BY Sizes DEF Index, M
<1>5. TypeOK
  BY <1>1, <1>2, <1>3, <1>4 DEF TypeOK
<1>6. last - first = 0
  BY <1>1, <1>3
<1>7. \E f : Framing(buffer, startIndex, endIndex, last - first, first, f)
  BY <1>1, <1>6, EmptyFraming
<1> QED BY <1>5, <1>7 DEF IInv

LEMMA ResetStep ==
  ASSUME TypeOK, NEW s \in Sequences, Reset(s)
  PROVE  IInv' /\ first' = s /\ last' - first' = 0
<1>1. /\ first' = s /\ last' = s /\ startIndex' = 0 /\ endIndex' = 0
      /\ returned' = <<>> /\ buffer' = buffer
  BY DEF Reset
<1>2. s \in Nat /\ MaxSequence \in Nat /\ s <= MaxSequence
  BY MsgQueueAssumption
<1>3. 0 \in Index
  BY Sizes DEF Index, M
<1>4. TypeOK'
  BY <1>1, <1>2, <1>3 DEF TypeOK
<1>5. last' - first' = 0
  BY <1>1, <1>2
<1>6. \E f : Framing(buffer', startIndex', endIndex', last' - first', first', f)
  BY <1>1, <1>5, EmptyFraming
<1> QED BY <1>1, <1>4, <1>5, <1>6 DEF IInv

\* What the counts of the code are.
LEMMA Counts ==
  ASSUME TypeOK, NEW f, Framing(buffer, startIndex, endIndex, last - first, first, f)
  PROVE  /\ last - first \in Nat
         /\ f[last - first] \in Nat
         /\ GetTotalSize = f[last - first]
         /\ GetSpaceLeft = M - f[last - first] - 1
<1>1. /\ last - first \in Nat /\ startIndex \in Index
  BY DEF TypeOK
<1>2. PICK n : n = last - first
  OBVIOUS
<1>3. /\ endIndex \in Index
      /\ f[n] = IF startIndex <= endIndex THEN endIndex - startIndex
                ELSE MAX_MSG_QUEUE_SIZE - startIndex + endIndex
  BY <1>1, <1>2, TotalIs
<1>4. f[n] \in Nat
  BY <1>1, <1>2 DEF Framing, Framed
<1>5. startIndex \in Nat /\ endIndex \in Nat /\ M \in Nat
  BY <1>1, <1>3, Sizes DEF Index
<1> QED BY <1>1, <1>2, <1>3, <1>4, <1>5 DEF GetTotalSize, GetSpaceLeft, M

LEMMA AddStep ==
  ASSUME TypeOK, NEW f, Framing(buffer, startIndex, endIndex, last - first, first, f),
         NEW p \in Payload, AddAccepted(p)
  PROVE  /\ TypeOK'
         /\ first' = first /\ last' - first' = (last - first) + 1
         /\ returned' = <<TRUE>>
         /\ \E g : /\ Framing(buffer', startIndex', endIndex', last' - first', first', g)
                   /\ \A i \in 1 .. last - first :
                        Frame(Tape(buffer', startIndex'), g, i)
                          = Frame(Tape(buffer, startIndex), f, i)
                   /\ Frame(Tape(buffer', startIndex'), g, (last - first) + 1) = p
<1>1. PICK n, a, s, l : n = last - first /\ a = first /\ s = startIndex /\ l = last
  OBVIOUS
<1>2. /\ buffer \in [Index -> Byte] /\ n \in Nat /\ a \in Nat /\ s \in Index
      /\ l \in Nat /\ a + n = l
  BY <1>1 DEF TypeOK
<1>3. /\ f[n] \in Nat /\ GetSpaceLeft = M - f[n] - 1
  BY <1>1, Counts
<1>4. PICK w : w = Written(p, l)
  OBVIOUS
<1>5. /\ GetSpaceLeft >= Len(p) + 8 /\ l < MaxSequence
      /\ buffer' = Stamped(buffer, endIndex, w)
      /\ endIndex' = Wrap(endIndex + Len(w))
      /\ last' = l + 1 /\ returned' = <<TRUE>> /\ first' = a /\ startIndex' = s
  BY <1>1, <1>4 DEF AddAccepted, WriteBytes, Stamped, Written, HeaderRoom
<1>6. l \in 0 .. Base * Base * Base * Base - 1
  BY <1>2, <1>5, MsgQueueAssumption
<1>7. w \in Seq(Byte) /\ Len(w) = 6 + Len(p) /\ Len(p) \in Nat
  BY <1>4, <1>6, WrittenIs
<1>8. f[n] + Len(w) < M /\ f[n] + 6 + Len(p) < M
  BY <1>3, <1>5, <1>7, Sizes
<1>9. endIndex = Wrap(s + f[n]) /\ Framed(Tape(buffer, s), n, a, f)
  BY <1>1 DEF Framing
<1>10. /\ buffer' \in [Index -> Byte]
       /\ SameUpTo(Tape(buffer, s), Tape(buffer', s), f[n])
       /\ At(w, Tape(buffer', s), f[n])
       /\ endIndex' = Wrap(s + (f[n] + Len(w)))
  <2>1. PICK b, c, e, m : b = buffer /\ c = buffer' /\ e = endIndex /\ m = f[n]
    OBVIOUS
  <2>2. /\ b \in [Index -> Byte] /\ m \in Nat /\ m + Len(w) < M
        /\ e = Wrap(s + m) /\ c = Stamped(b, e, w)
    BY <1>2, <1>3, <1>5, <1>8, <1>9, <2>1
  <2>3. /\ c \in [Index -> Byte]
        /\ SameUpTo(Tape(b, s), Tape(c, s), m)
        /\ At(w, Tape(c, s), m)
        /\ Wrap(e + Len(w)) = Wrap(s + (m + Len(w)))
    <3>1. c \in [Index -> Byte]
      BY ONLY <1>2, <1>7, <2>2, AddTape
    <3>2. SameUpTo(Tape(b, s), Tape(c, s), m)
      BY ONLY <1>2, <1>7, <2>2, AddTape
    <3>3. At(w, Tape(c, s), m)
      BY ONLY <1>2, <1>7, <2>2, AddTape
    <3>4. Wrap(e + Len(w)) = Wrap(s + (m + Len(w)))
      <4>1. s \in Nat /\ s < M /\ M \in Nat
        BY <1>2, Sizes DEF Index, M
      <4>2. PICK i, k : i = s + m /\ k = Len(w)
        OBVIOUS
      <4>3. i \in Nat /\ k \in Nat /\ i + k < 2 * M /\ i + k = s + (m + k)
        BY <1>7, <2>2, <4>1, <4>2
      <4>4. Wrap(Wrap(i) + k) = Wrap(i + k)
        BY <4>3, WrapAgain
      <4> QED BY <2>2, <4>2, <4>3, <4>4
    <3> QED BY <3>1, <3>2, <3>3, <3>4
  <2> QED BY <1>5, <2>1, <2>3
<1>11. Holds(Tape(buffer', s), f[n], p, l)
  BY <1>4, <1>7, <1>10 DEF Holds, At
<1>12. PICK t, u : t = Tape(buffer, s) /\ u = Tape(buffer', s)
  OBVIOUS
<1>13. PICK g : OneMore(t, n, f, p, u, a, g)
  <2>1. SameUpTo(t, u, f[n])
    BY <1>10, <1>12
  <2>2. Framed(t, n, a, f) /\ Holds(u, f[n], p, a + n)
    BY <1>2, <1>9, <1>11, <1>12
  <2>3. a + n \in 0 .. Base * Base * Base * Base - 1
    BY <1>2, <1>6
  <2> QED BY <1>2, <1>8, <2>1, <2>2, <2>3, AddFramed
<1>14. last' - first' = n + 1 /\ endIndex' = Wrap(s + g[n + 1])
  <2>1. g[n + 1] = f[n] + Len(w)
    BY <1>3, <1>7, <1>13 DEF OneMore
  <2> QED BY <1>2, <1>5, <1>10, <2>1
<1>15. Framing(buffer', startIndex', endIndex', last' - first', first', g)
  BY <1>5, <1>12, <1>13, <1>14 DEF Framing, OneMore
<1>16. endIndex' \in Index
  <2>1. s + (f[n] + Len(w)) \in Int
    BY <1>2, <1>3, <1>7, Sizes DEF Index, M
  <2> QED BY <1>10, <2>1, WrapRange
<1>17. TypeOK'
  <2>1. first' \in Nat /\ last' \in first' .. MaxSequence
    BY <1>2, <1>5, MsgQueueAssumption
  <2> QED BY <1>2, <1>5, <1>10, <1>16, <2>1 DEF TypeOK
<1> QED BY <1>1, <1>5, <1>12, <1>13, <1>14, <1>15, <1>17 DEF OneMore

LEMMA GetStep ==
  ASSUME TypeOK, NEW f, Framing(buffer, startIndex, endIndex, last - first, first, f),
         GetSome
  PROVE  /\ TypeOK'
         /\ last - first > 0
         /\ first' = first + 1 /\ last' - first' = (last - first) - 1
         /\ returned' = <<TRUE, Frame(Tape(buffer, startIndex), f, 1)>>
         /\ \E g : /\ Framing(buffer', startIndex', endIndex', last' - first', first', g)
                   /\ \A i \in 1 .. last' - first' :
                        Frame(Tape(buffer', startIndex'), g, i)
                          = Frame(Tape(buffer, startIndex), f, i + 1)
<1>1. PICK n, a, s, l : n = last - first /\ a = first /\ s = startIndex /\ l = last
  OBVIOUS
<1>2. PICK size : size = ReadShort(startIndex)
  OBVIOUS
<1>3. /\ a # l /\ returned' = <<TRUE, BytesAt(s + 6, size)>>
      /\ startIndex' = Wrap(s + 6 + size) /\ first' = a + 1
      /\ buffer' = buffer /\ last' = l /\ endIndex' = endIndex
  BY <1>1, <1>2 DEF GetSome
<1>4. /\ buffer \in [Index -> Byte] /\ n \in Nat /\ a \in Nat /\ s \in Index
      /\ l \in Nat /\ a + n = l /\ n > 0
  BY <1>1, <1>3 DEF TypeOK
<1>5. PICK t : t = Tape(buffer, s)
  OBVIOUS
<1>6. Framed(t, n, a, f) /\ endIndex = Wrap(s + f[n])
  BY <1>1, <1>5 DEF Framing
<1>7. PICK z : z = SizeAt(t, 0)
  OBVIOUS
<1>8. f[1] = 6 + z /\ z \in Nat /\ f[1] < M /\ f[1] <= f[n]
  <2>1. 1 \in 1 .. n /\ 1 - 1 = 0 /\ f[0] = 0
    BY <1>4, <1>6 DEF Framed
  <2>2. /\ f[1 - 1] \in Nat /\ SizeAt(t, f[1 - 1]) \in Nat
        /\ f[1] = f[1 - 1] + 6 + SizeAt(t, f[1 - 1])
        /\ f[1] <= f[n] /\ f[1] < M
    BY <1>4, <1>6, <2>1, PlaceFacts
  <2> QED BY <1>7, <2>1, <2>2
<1>9. s \in Nat /\ s < M /\ M \in Nat /\ s + 0 = s
  BY <1>4, Sizes DEF Index, M
<1>10. size = z
  <2>1. RingShort(buffer, s + 0) = SizeAt(t, 0)
    BY <1>4, <1>5, <1>8, <1>9, RingShortIs
  <2>2. ReadShort(startIndex) = RingShort(buffer, startIndex)
    BY DEF ReadShort, BytesAt, RingShort, RingBytes
  <2> QED BY <1>1, <1>2, <1>7, <1>9, <2>1, <2>2
<1>11. BytesAt(s + 6, size) = Frame(t, f, 1)
  <2>1. RingBytes(buffer, s + 6, z) = Bytes(t, 6, z)
    BY <1>4, <1>5, <1>8, <1>9, RingIsTape
  <2>2. BytesAt(s + 6, z) = RingBytes(buffer, s + 6, z)
    BY DEF BytesAt, RingBytes
  <2>3. f[1 - 1] = 0 /\ 0 + 6 = 6
    BY <1>6 DEF Framed
  <2>4. Frame(t, f, 1) = Bytes(t, 6, z)
    BY <1>7, <2>3 DEF Frame
  <2> QED BY <1>10, <2>1, <2>2, <2>4
<1>12. startIndex' = Wrap(s + f[1])
  <2>1. s + 6 + size = s + f[1]
    BY <1>8, <1>9, <1>10
  <2> QED BY <1>3, <2>1
<1>13. PICK u : u = Tape(buffer', startIndex')
  OBVIOUS
<1>14. f[n] \in Nat /\ f[n] < M /\ f[1] \in Nat
  BY <1>4, <1>6, <1>8 DEF Framed
<1>15. Shifted(t, u, f[1], f[n])
  <2>1. Shifted(t, Tape(buffer, Wrap(s + f[1])), f[1], M)
    BY <1>4, <1>5, <1>8, <1>14, GetTape
  <2>2. Shifted(t, u, f[1], M)
    BY <1>3, <1>12, <1>13, <2>1
  <2> QED BY <1>9, <1>14, <2>2 DEF Shifted
<1>16. PICK g : OneLess(t, n, f, u, a, g)
  BY <1>4, <1>6, <1>15, GetFramed
<1>17. last' - first' = n - 1
  BY <1>3, <1>4
<1>18. endIndex' = Wrap(startIndex' + g[n - 1])
  <2>1. PICK k, i : k = f[n] - f[1] /\ i = s + f[1]
    OBVIOUS
  <2>2. k \in Nat /\ i \in Nat /\ i + k < 2 * M /\ i + k = s + f[n]
    BY <1>8, <1>9, <1>14, <2>1
  <2>3. Wrap(Wrap(i) + k) = Wrap(i + k)
    BY <2>2, WrapAgain
  <2> QED BY <1>3, <1>6, <1>12, <1>16, <2>1, <2>2, <2>3 DEF OneLess
<1>19. Framing(buffer', startIndex', endIndex', last' - first', first', g)
  BY <1>3, <1>13, <1>16, <1>17, <1>18 DEF Framing, OneLess
<1>20. TypeOK'
  <2>1. startIndex' \in Index
    BY <1>8, <1>9, <1>12, WrapRange
  <2>2. Frame(t, f, 1) \in Payload
    BY <1>4, <1>6 DEF Framed
  <2>3. first' \in Nat /\ last' \in first' .. MaxSequence
    BY <1>1, <1>3, <1>4 DEF TypeOK
  <2>4. endIndex' \in Index /\ buffer' \in [Index -> Byte]
    BY <1>3 DEF TypeOK
  <2> QED BY <1>3, <1>11, <2>1, <2>2, <2>3, <2>4 DEF TypeOK
<1> QED BY <1>1, <1>3, <1>4, <1>5, <1>11, <1>13, <1>16, <1>17, <1>19, <1>20 DEF OneLess

LEMMA IdleStep == IInv /\ UNCHANGED <<buffer, first, last, startIndex, endIndex>>
                    /\ returned' \in {returned, <<FALSE>>} => IInv'
<1> SUFFICES ASSUME IInv, UNCHANGED <<buffer, first, last, startIndex, endIndex>>,
                    returned' \in {returned, <<FALSE>>}
             PROVE  IInv'
  OBVIOUS
<1>1. TypeOK'
  BY DEF IInv, TypeOK
<1>2. \E f : Framing(buffer', startIndex', endIndex', last' - first', first', f)
  BY DEF IInv
<1> QED BY <1>1, <1>2 DEF IInv

LEMMA NextInv == IInv /\ [Next]_vars => IInv'
<1> SUFFICES ASSUME IInv, [Next]_vars PROVE IInv'
  OBVIOUS
<1>1. TypeOK
  BY DEF IInv
<1>2. PICK f : Framing(buffer, startIndex, endIndex, last - first, first, f)
  BY DEF IInv
<1>3. CASE \E s \in Sequences : Reset(s)
  BY <1>1, <1>3, ResetStep
<1>4. ASSUME NEW p \in Payload, AddRefused(p)
      PROVE  IInv'
  BY <1>4, IdleStep DEF AddRefused
<1>5. ASSUME NEW p \in Payload, AddAccepted(p)
      PROVE  IInv'
  BY <1>1, <1>2, <1>5, AddStep DEF IInv
<1>6. CASE GetNone
  BY <1>6, IdleStep DEF GetNone
<1>7. CASE GetSome
  BY <1>1, <1>2, <1>7, GetStep DEF IInv
<1>8. CASE UNCHANGED vars
  BY <1>8, IdleStep DEF vars
<1> QED BY <1>3, <1>4, <1>5, <1>6, <1>7, <1>8 DEF Next, Add, Get

(***************************************************************************)
(* Whatever is added and read: there are always places at which the bytes  *)
(* in use are the queued messages, one behind the other.                   *)
(***************************************************************************)
THEOREM Invariant == Spec => []IInv
<1>1. Init => IInv
  BY InitInv
<1>2. IInv /\ [Next]_vars => IInv'
  BY NextInv
<1> QED BY <1>1, <1>2, PTL DEF Spec

(***************************************************************************)
(* The four members stay in their ranges, and Get returns nothing but what *)
(* callers add.                                                            *)
(***************************************************************************)
THEOREM TypeCorrect == Spec => []TypeOK
<1>1. IInv => TypeOK
  BY DEF IInv
<1> QED BY <1>1, Invariant, PTL

-----------------------------------------------------------------------------
(* What the queue stands for *)

LEMMA QueuedIs ==
  ASSUME TypeOK, NEW f, Framing(buffer, startIndex, endIndex, last - first, first, f)
  PROVE  /\ Offset = f
         /\ Queued = [first |-> first,
                      msgs |-> Frames(Tape(buffer, startIndex), last - first, f)]
<1>1. last - first \in Nat /\ startIndex \in Index
  BY DEF TypeOK
<1>2. Framed(Tape(buffer, startIndex), last - first, first, f)
  BY DEF Framing
<1>3. Offset = Offsets(buffer, startIndex, last - first)
  BY DEF Offset, Offsets, ReadShort, BytesAt, RingShort, RingBytes
<1>4. Queued = QueueIn(buffer, startIndex, last - first, first)
  BY <1>3 DEF Queued, Message, QueueIn, ReadShort, BytesAt, RingShort, RingBytes
<1> QED BY <1>1, <1>2, <1>3, <1>4, OffsetsAre, QueueInIs

LEMMA QueuedIsThen ==
  ASSUME TypeOK', NEW f, Framing(buffer', startIndex', endIndex', last' - first', first', f)
  PROVE  Queued' = [first |-> first',
                    msgs |-> Frames(Tape(buffer', startIndex'), last' - first', f)]
<1>1. last' - first' \in Nat /\ startIndex' \in Index
  <2>1. first' \in Nat /\ last' \in first' .. MaxSequence /\ startIndex' \in Index
    BY DEF TypeOK
  <2>2. PICK a, l : a = first' /\ l = last'
    OBVIOUS
  <2>3. a \in Nat /\ l \in a .. MaxSequence
    BY <2>1, <2>2
  <2>4. MaxSequence \in Int
    BY MsgQueueAssumption
  <2>5. l - a \in Nat
    BY <2>3, <2>4
  <2> QED BY <2>1, <2>2, <2>5
<1>2. Framed(Tape(buffer', startIndex'), last' - first', first', f)
  BY DEF Framing
<1>3. Offset' = Offsets(buffer', startIndex', last' - first')
  BY DEF Offset, Offsets, ReadShort, BytesAt, RingShort, RingBytes
<1>4. Queued' = QueueIn(buffer', startIndex', last' - first', first')
  BY <1>3 DEF Queued, Message, QueueIn, ReadShort, BytesAt, RingShort, RingBytes
<1> QED BY <1>1, <1>2, <1>4, QueueInIs

LEMMA FramedIsWellFramed == IInv => WellFramed
<1> SUFFICES ASSUME IInv PROVE WellFramed
  OBVIOUS
<1>1. PICK f : Framing(buffer, startIndex, endIndex, last - first, first, f)
  BY DEF IInv
<1>2. TypeOK
  BY DEF IInv
<1>3. Offset = f /\ Offset[last - first] = GetTotalSize
  BY <1>1, <1>2, QueuedIs, Counts
<1>4. PICK n, t : n = last - first /\ t = Tape(buffer, startIndex)
  OBVIOUS
<1>5. n \in Nat /\ startIndex \in Index /\ Framed(t, n, first, f)
  BY <1>1, <1>2, <1>4 DEF TypeOK, Framing
<1>6. ASSUME NEW i \in 1 .. n
      PROVE  ReadLong(startIndex + f[i - 1] + 2) = first + i - 1
  <2>1. /\ f[i - 1] \in Nat /\ SizeAt(t, f[i - 1]) \in Nat
        /\ f[i] = f[i - 1] + 6 + SizeAt(t, f[i - 1]) /\ f[i] < M
    BY <1>5, PlaceFacts
  <2>2. PICK x : x = f[i - 1] + 2
    OBVIOUS
  <2>3. x \in Nat /\ x + 4 <= M /\ startIndex + f[i - 1] + 2 = startIndex + x
    BY <1>5, <2>1, <2>2, Sizes DEF Index
  <2>4. RingLong(buffer, startIndex + x) = NumberAt(t, x)
    BY <1>4, <1>5, <2>3, RingLongIs
  <2>5. NumberAt(t, x) = first + i - 1
    BY <1>5, <2>2 DEF Framed
  <2>6. ReadLong(startIndex + x) = RingLong(buffer, startIndex + x)
    BY DEF ReadLong, BytesAt, RingLong, RingBytes
  <2> QED BY <2>3, <2>4, <2>5, <2>6
<1> QED BY <1>3, <1>4, <1>6 DEF WellFramed

(***************************************************************************)
(* The bytes in use are always whole messages with consecutive numbers, so *)
(* the assert in Get holds and CopyToBuffer can be taken apart again.      *)
(***************************************************************************)
THEOREM WellFramedAlways == Spec => []WellFramed
BY Invariant, FramedIsWellFramed, PTL

-----------------------------------------------------------------------------
(* The ring buffer implements the queue *)

\* Add asks for the same room of both.
LEMMA RoomIs ==
  ASSUME TypeOK, NEW f, Framing(buffer, startIndex, endIndex, last - first, first, f),
         NEW p \in Payload
  PROVE  Fifo!HasRoom(Queued, p) <=> GetSpaceLeft >= Len(p) + HeaderRoom
<1>1. PICK n, t : n = last - first /\ t = Tape(buffer, startIndex)
  OBVIOUS
<1>2. n \in Nat /\ f[n] \in Nat /\ GetSpaceLeft = M - f[n] - 1
  BY <1>1, Counts
<1>3. Framed(t, n, first, f)
  BY <1>1 DEF Framing
<1>4. PICK q : q = Queued /\ q.msgs = Frames(t, n, f)
  BY <1>1, QueuedIs
<1>5. q.msgs \in Seq(Payload) /\ Len(q.msgs) = n /\ Counted(f, q.msgs, n)
  <2>1. n \in Nat
    BY <1>2
  <2>2. Frames(t, n, f) \in Seq(Payload) /\ Len(Frames(t, n, f)) = n
    BY <1>3, <2>1, FramesAre
  <2>3. Counted(f, Frames(t, n, f), n)
    BY <1>3, <2>1, FramesAre
  <2> QED BY <1>4, <2>2, <2>3
<1>6. f \in [0 .. n -> Nat] /\ f[0] = 0
  BY <1>3 DEF Framed
<1>7. Fifo!TotalSize(q) = f[n]
  BY <1>2, <1>5, <1>6, TotalSizeIs
<1>8. Fifo!SpaceLeft(q) = M - f[n] - 1
  BY <1>7 DEF Fifo!SpaceLeft, M
<1>9. Fifo!HasRoom(q, p) <=> M - f[n] - 1 >= Len(p) + 8
  <2>1. [x \in Payload |-> Len(x)][p] = Len(p)
    OBVIOUS
  <2> QED BY <1>8, <2>1 DEF Fifo!HasRoom, Fifo!HeaderRoom
<1> QED BY <1>2, <1>4, <1>9 DEF HeaderRoom

LEMMA NoFrames == \A t, f : Frames(t, 0, f) = <<>>
BY DEF Frames

LEMMA InitRefines == Init => Fifo!Init
<1> SUFFICES ASSUME Init PROVE Fifo!Init
  OBVIOUS
<1>1. IInv
  BY InitInv
<1>2. PICK f : Framing(buffer, startIndex, endIndex, last - first, first, f)
  BY <1>1 DEF IInv
<1>3. first \in Sequences /\ returned = <<>> /\ last - first = 0
  BY <1>1 DEF Init, IInv, TypeOK
<1>4. Queued = [first |-> first, msgs |-> <<>>]
  BY <1>1, <1>2, <1>3, QueuedIs, NoFrames DEF IInv
<1> QED BY <1>3, <1>4 DEF Fifo!Init, Fifo!EmptyFifo

LEMMA ResetRefines ==
  ASSUME IInv, NEW s \in Sequences, Reset(s)
  PROVE  Fifo!Reset(s)
<1>1. IInv' /\ first' = s /\ last' - first' = 0
  BY ResetStep DEF IInv
<1>2. PICK f : Framing(buffer', startIndex', endIndex', last' - first', first', f)
  BY <1>1 DEF IInv
<1>3. Queued' = [first |-> s, msgs |-> <<>>]
  BY <1>1, <1>2, QueuedIsThen, NoFrames DEF IInv
<1> QED BY <1>3 DEF Fifo!Reset, Fifo!EmptyFifo, Reset

LEMMA IdleQueue ==
  ASSUME UNCHANGED <<buffer, first, last, startIndex, endIndex>>
  PROVE  Queued' = Queued
<1>1. Offset' = Offset
  BY DEF Offset, ReadShort, BytesAt
<1> QED BY <1>1 DEF Queued, Message, ReadShort, BytesAt

LEMMA RefusedRefines ==
  ASSUME IInv, NEW p \in Payload, AddRefused(p)
  PROVE  Fifo!Add(p)
<1>1. TypeOK
  BY DEF IInv
<1>2. PICK f : Framing(buffer, startIndex, endIndex, last - first, first, f)
  BY DEF IInv
<1>3. Queued' = Queued
  BY IdleQueue DEF AddRefused
<1>4. ~(GetSpaceLeft >= Len(p) + HeaderRoom)
  <2>1. GetSpaceLeft \in Int /\ Len(p) \in Nat
    BY <1>1, <1>2, Counts, Sizes, MsgQueueAssumption
  <2> QED BY <2>1 DEF AddRefused, HeaderRoom
<1>5. ~Fifo!HasRoom(Queued, p)
  BY <1>1, <1>2, <1>4, RoomIs
<1>6. returned' = <<FALSE>>
  BY DEF AddRefused
<1>7. <<FALSE>> = <<Fifo!HasRoom(Queued, p)>>
  <2>1. Fifo!HasRoom(Queued, p) \in BOOLEAN
    BY DEF Fifo!HasRoom
  <2>2. Fifo!HasRoom(Queued, p) = FALSE
    BY <1>5, <2>1
  <2> QED BY <2>2
<1>8. Fifo!AddTo(Queued, p) = Queued
  BY <1>5 DEF Fifo!AddTo
<1> QED BY <1>3, <1>6, <1>7, <1>8 DEF Fifo!Add

LEMMA AcceptedRefines ==
  ASSUME IInv, NEW p \in Payload, AddAccepted(p)
  PROVE  Fifo!Add(p)
<1>1. TypeOK
  BY DEF IInv
<1>2. PICK f : Framing(buffer, startIndex, endIndex, last - first, first, f)
  BY DEF IInv
<1>3. PICK n, t, u : /\ n = last - first /\ t = Tape(buffer, startIndex)
                     /\ u = Tape(buffer', startIndex')
  OBVIOUS
<1>4. /\ TypeOK'
      /\ first' = first /\ last' - first' = n + 1
      /\ returned' = <<TRUE>>
  BY <1>1, <1>2, <1>3, AddStep
<1>5. PICK g : /\ Framing(buffer', startIndex', endIndex', last' - first', first', g)
               /\ \A i \in 1 .. n : Frame(u, g, i) = Frame(t, f, i)
               /\ Frame(u, g, n + 1) = p
  <2>1. PICK g : /\ Framing(buffer', startIndex', endIndex', last' - first', first', g)
                 /\ \A i \in 1 .. last - first :
                      Frame(Tape(buffer', startIndex'), g, i)
                        = Frame(Tape(buffer, startIndex), f, i)
                 /\ Frame(Tape(buffer', startIndex'), g, (last - first) + 1) = p
    BY <1>1, <1>2, AddStep
  <2> QED BY <1>3, <2>1
<1>6. n \in Nat /\ Framed(t, n, first, f)
  BY <1>1, <1>2, <1>3, Counts DEF Framing
<1>7. PICK q, v, w : q = Queued /\ v = Frames(t, n, f) /\ w = Frames(u, n + 1, g)
  OBVIOUS
<1>8. q = [first |-> first, msgs |-> v] /\ Queued' = [first |-> first, msgs |-> w]
  BY <1>1, <1>2, <1>3, <1>4, <1>5, <1>7, QueuedIs, QueuedIsThen
<1>9. v \in Seq(Payload) /\ Len(v) = n /\ \A i \in 1 .. n : v[i] = Frame(t, f, i)
  BY <1>6, <1>7, FramesAre
<1>10. w = v \o <<p>>
  <2>1. PICK x : x = v \o <<p>>
    OBVIOUS
  <2>2. <<p>> \in Seq(Payload) /\ Len(<<p>>) = 1 /\ <<p>>[1] = p
    OBVIOUS
  <2>3. /\ x \in Seq(Payload) /\ Len(x) = Len(v) + Len(<<p>>)
        /\ \A k \in 1 .. Len(v) + Len(<<p>>) :
             x[k] = IF k <= Len(v) THEN v[k] ELSE <<p>>[k - Len(v)]
    BY <1>9, <2>1, <2>2, ConcatIs
  <2>4. ASSUME NEW i \in 1 .. n + 1
        PROVE  x[i] = Frame(u, g, i)
    <3>1. CASE i = n + 1
      <4>1. ~(i <= n) /\ i - n = 1
        BY <1>6, <3>1
      <4>2. x[i] = p
        BY <1>9, <2>2, <2>3, <4>1
      <4> QED BY <1>5, <3>1, <4>2
    <3>2. CASE i # n + 1
      <4>1. i \in 1 .. n /\ i <= n
        BY <1>6, <3>2
      <4>2. x[i] = v[i]
        BY <1>9, <2>2, <2>3, <4>1
      <4> QED BY <1>5, <1>9, <4>1, <4>2
    <3> QED BY <3>1, <3>2
  <2>5. x = [i \in 1 .. n + 1 |-> x[i]]
    BY <1>9, <2>2, <2>3
  <2> QED BY <1>7, <2>1, <2>4, <2>5 DEF Frames
<1>11. Fifo!HasRoom(q, p)
  BY <1>1, <1>2, <1>7, RoomIs DEF AddAccepted
<1>12. Fifo!HasRoom(q, p) = TRUE
  BY <1>11 DEF Fifo!HasRoom
<1>13. Fifo!AddTo(q, p) = [first |-> first, msgs |-> w]
  BY <1>8, <1>10, <1>11 DEF Fifo!AddTo, Fifo!Extend
<1> QED BY <1>4, <1>7, <1>8, <1>12, <1>13 DEF Fifo!Add

LEMMA GetSomeRefines ==
  ASSUME IInv, GetSome
  PROVE  Fifo!GetSome
<1>1. TypeOK
  BY DEF IInv
<1>2. PICK f : Framing(buffer, startIndex, endIndex, last - first, first, f)
  BY DEF IInv
<1>3. PICK n, t, u : /\ n = last - first /\ t = Tape(buffer, startIndex)
                     /\ u = Tape(buffer', startIndex')
  OBVIOUS
<1>4. /\ TypeOK' /\ n > 0
      /\ first' = first + 1 /\ last' - first' = n - 1
      /\ returned' = <<TRUE, Frame(t, f, 1)>>
  BY <1>1, <1>2, <1>3, GetStep
<1>5. PICK g : /\ Framing(buffer', startIndex', endIndex', last' - first', first', g)
               /\ \A i \in 1 .. n - 1 : Frame(u, g, i) = Frame(t, f, i + 1)
  BY <1>1, <1>2, <1>3, <1>4, GetStep
<1>6. n \in Nat /\ Framed(t, n, first, f)
  BY <1>1, <1>2, <1>3, Counts DEF Framing
<1>7. PICK q, v, w : q = Queued /\ v = Frames(t, n, f) /\ w = Frames(u, n - 1, g)
  OBVIOUS
<1>8. q = [first |-> first, msgs |-> v] /\ Queued' = [first |-> first + 1, msgs |-> w]
  BY <1>1, <1>2, <1>3, <1>4, <1>5, <1>7, QueuedIs, QueuedIsThen
<1>9. v \in Seq(Payload) /\ Len(v) = n /\ \A i \in 1 .. n : v[i] = Frame(t, f, i)
  BY <1>6, <1>7, FramesAre
<1>10. v # <<>> /\ Head(v) = Frame(t, f, 1)
  BY <1>4, <1>6, <1>9
<1>11. w = SubSeq(v, 2, Len(v))
  <2>1. PICK x : x = SubSeq(v, 2, Len(v))
    OBVIOUS
  <2>2. \A i \in 2 .. n : v[i] \in Payload
    BY <1>6, <1>9
  <2>3. /\ x \in Seq(Payload)
        /\ Len(x) = IF 2 <= n THEN n - 2 + 1 ELSE 0
        /\ \A i \in 1 .. n - 2 + 1 : x[i] = v[2 + i - 1]
    BY <1>6, <1>9, <2>1, <2>2, SubSeqProperties
  <2>4. ASSUME NEW i \in 1 .. n - 1
        PROVE  x[i] = Frame(u, g, i)
    <3>1. i \in 1 .. n - 2 + 1 /\ 2 + i - 1 = i + 1 /\ i + 1 \in 1 .. n
      BY <1>6
    <3> QED BY <1>5, <1>9, <2>3, <3>1
  <2>5. Len(x) = n - 1
    BY <1>4, <1>6, <2>3
  <2>6. x = [i \in 1 .. n - 1 |-> x[i]]
    BY <2>3, <2>5
  <2> QED BY <1>7, <2>1, <2>4, <2>6 DEF Frames
<1>12. Fifo!Without(q, 1) = [first |-> first + 1, msgs |-> w]
  BY <1>8, <1>11 DEF Fifo!Without
<1> QED BY <1>4, <1>7, <1>8, <1>10, <1>12 DEF Fifo!GetSome

LEMMA GetNoneRefines ==
  ASSUME IInv, GetNone
  PROVE  Fifo!GetNone
<1>1. TypeOK
  BY DEF IInv
<1>2. PICK f : Framing(buffer, startIndex, endIndex, last - first, first, f)
  BY DEF IInv
<1>3. last - first = 0
  BY <1>1 DEF GetNone, TypeOK
<1>4. Queued.msgs = <<>>
  BY <1>1, <1>2, <1>3, QueuedIs, NoFrames
<1>5. Queued' = Queued
  BY IdleQueue DEF GetNone
<1> QED BY <1>4, <1>5 DEF Fifo!GetNone, GetNone

LEMMA NextRefines == IInv /\ [Next]_vars => [Fifo!Next]_<<Queued, returned>>
<1> SUFFICES ASSUME IInv, [Next]_vars PROVE [Fifo!Next]_<<Queued, returned>>
  OBVIOUS
<1>1. CASE \E s \in Sequences : Reset(s)
  BY <1>1, ResetRefines DEF Fifo!Next
<1>2. ASSUME NEW p \in Payload, AddRefused(p)
      PROVE  Fifo!Next
  BY <1>2, RefusedRefines DEF Fifo!Next
<1>3. ASSUME NEW p \in Payload, AddAccepted(p)
      PROVE  Fifo!Next
  BY <1>3, AcceptedRefines DEF Fifo!Next
<1>4. CASE GetNone
  BY <1>4, GetNoneRefines DEF Fifo!Next
<1>5. CASE GetSome
  BY <1>5, GetSomeRefines DEF Fifo!Next
<1>6. CASE UNCHANGED vars
  BY <1>6, IdleQueue DEF vars
<1> QED BY <1>1, <1>2, <1>3, <1>4, <1>5, <1>6 DEF Next, Add, Get

(***************************************************************************)
(* The ring buffer is a FIFO of whole messages: Get hands them out in the  *)
(* order of Add, unchanged and once, and Add refuses a message exactly     *)
(* when the bytes run out, whatever wraps around the end of the buffer.    *)
(***************************************************************************)
THEOREM ImplementsMsgFifo == Spec => ImplementsFifo
<1>1. Init => Fifo!Init
  BY InitRefines
<1>2. IInv /\ [Next]_vars => [Fifo!Next]_<<Queued, returned>>
  BY NextRefines
<1> QED BY <1>1, <1>2, Invariant, PTL DEF Spec, ImplementsFifo, Fifo!Spec
=============================================================================
