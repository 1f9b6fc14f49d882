--------------------------- MODULE UserInfo_proofs ---------------------------
(***************************************************************************)
(* Proofs about UserInfo, for any keys and values, any number of observers *)
(* and of games, and whatever the game forces.  First the coding of        *)
(* dictionaries: a delta carries one to whoever has its base, and to whom  *)
(* else.  Then what a queue of messages makes of a copy; and with it the   *)
(* inductive invariant, which is about what each client will have when it  *)
(* has read what is on its way, rather than what it has.                   *)
(***************************************************************************)
EXTENDS UserInfo, Places, FiniteSetTheorems, SequenceTheorems, WellFoundedInduction, TLAPS

\* The natural numbers are well ordered, which is what an induction over them
\* needs.
LEMMA NatLeast ==
  ASSUME NEW T \in SUBSET Nat, T # {}
  PROVE  \E x \in T : \A y \in T : x <= y
<1>1. IsWellFoundedOn(OpToRel(<, Nat), Nat)
  BY NatLessThanWellFounded
<1>2. PICK x \in T : \A y \in T : ~ (<<y, x>> \in OpToRel(<, Nat))
  BY <1>1, WFMin
<1>3. ASSUME NEW y \in T PROVE x <= y
  <2>1. ~ (<<y, x>> \in {ss \in Nat \X Nat : ss[1] < ss[2]})
    BY <1>2 DEF OpToRel
  <2> QED BY <2>1
<1> QED BY <1>3

-----------------------------------------------------------------------------
(* Dictionaries *)

\* f is a function, of whatever domain.
IsDict(f) == f = [k \in DOMAIN f |-> f[k]]

\* What a delta leaves to its base: the keys of which it says nothing.
Untold(dict, base) == {k \in DOMAIN dict \cap DOMAIN base : dict[k] = base[k]}

\* The pairs that the writer's base did not have from the writer, the others
\* from the reader's own base.
Merged(dict, base, own) ==
  [k \in (DOMAIN own \cup (DOMAIN dict \ Untold(dict, base)))
           \ (DOMAIN base \ DOMAIN dict) |->
     IF k \in DOMAIN dict \ Untold(dict, base) THEN dict[k] ELSE own[k]]

(***************************************************************************)
(* That is what ReadDeltaDict makes of a delta, against any base.          *)
(***************************************************************************)
LEMMA ReadWritten ==
  ASSUME NEW dict, NEW base, NEW own
  PROVE  ReadDeltaDict(WriteDeltaDict(dict, base), own) = Merged(dict, base, own)
<1> DEFINE told == {k \in DOMAIN dict : k \in DOMAIN base => base[k] # dict[k]}
           delta == WriteDeltaDict(dict, base)
<1>1. told = DOMAIN dict \ Untold(dict, base)
  BY DEF Untold
<1>2. /\ delta.set = [k \in told |-> dict[k]]
      /\ delta.deleted = DOMAIN base \ DOMAIN dict
  BY DEF WriteDeltaDict, Restrict
<1> HIDE DEF told, delta
<1>3. /\ DOMAIN delta.set = told
      /\ \A k \in told : delta.set[k] = dict[k]
  BY <1>2
<1>4. ReadDeltaDict(delta, own) =
        [k \in (DOMAIN own \cup told) \ (DOMAIN base \ DOMAIN dict) |->
           IF k \in told THEN dict[k] ELSE own[k]]
  BY <1>2, <1>3 DEF ReadDeltaDict
<1> QED
  BY <1>1, <1>4 DEF delta, Merged

(***************************************************************************)
(* Whoever reads a delta against the base that it was written against has  *)
(* the writer's dictionary: idAsyncClient::SendUserInfoToServer and        *)
(* idAsyncServer::SendUserInfoBroadcast rest on it.                        *)
(***************************************************************************)
THEOREM RoundTrip ==
  ASSUME NEW dict, NEW base, IsDict(dict)
  PROVE  ReadDeltaDict(WriteDeltaDict(dict, base), base) = dict
<1> DEFINE kept == (DOMAIN base \cup (DOMAIN dict \ Untold(dict, base)))
                     \ (DOMAIN base \ DOMAIN dict)
<1>1. kept = DOMAIN dict
  BY DEF Untold
<1>2. \A k \in DOMAIN dict :
        (IF k \in DOMAIN dict \ Untold(dict, base) THEN dict[k] ELSE base[k]) = dict[k]
  BY DEF Untold
<1>3. Merged(dict, base, base) = [k \in DOMAIN dict |-> dict[k]]
  BY <1>1, <1>2 DEF Merged
<1> QED
  BY <1>3, ReadWritten DEF IsDict

(***************************************************************************)
(* Against another base a delta gives the writer's dictionary exactly if   *)
(* that base agrees with it on every key that the delta leaves out, and    *)
(* has no key that neither the dictionary nor the writer's base has.  A    *)
(* client's change that crosses a change by the server breaks the former.  *)
(***************************************************************************)
THEOREM OtherBase ==
  ASSUME NEW dict, NEW base, NEW own, IsDict(dict)
  PROVE  ReadDeltaDict(WriteDeltaDict(dict, base), own) = dict
           <=> /\ DOMAIN own \subseteq DOMAIN dict \cup DOMAIN base
               /\ \A k \in Untold(dict, base) :
                    k \in DOMAIN own /\ own[k] = dict[k]
<1> DEFINE read == ReadDeltaDict(WriteDeltaDict(dict, base), own)
           kept == (DOMAIN own \cup (DOMAIN dict \ Untold(dict, base)))
                     \ (DOMAIN base \ DOMAIN dict)
<1> HIDE DEF read
<1>0. read = Merged(dict, base, own)
  BY ReadWritten DEF read
<1>1. /\ DOMAIN read = kept
      /\ \A k \in DOMAIN read :
           read[k] = IF k \in DOMAIN dict \ Untold(dict, base) THEN dict[k] ELSE own[k]
      /\ IsDict(read)
  BY <1>0 DEF IsDict, Merged
<1> HIDE DEF kept
<1>2. Untold(dict, base) \subseteq DOMAIN dict \cap DOMAIN base
  BY DEF Untold
<1>3. ASSUME read = dict
      PROVE  /\ DOMAIN own \subseteq DOMAIN dict \cup DOMAIN base
             /\ \A k \in Untold(dict, base) :
                  k \in DOMAIN own /\ own[k] = dict[k]
  BY <1>1, <1>2, <1>3 DEF kept
<1>4. ASSUME DOMAIN own \subseteq DOMAIN dict \cup DOMAIN base,
             \A k \in Untold(dict, base) : k \in DOMAIN own /\ own[k] = dict[k]
      PROVE  read = dict
  <2>1. DOMAIN read = DOMAIN dict
    BY <1>1, <1>2, <1>4 DEF kept
  <2>2. \A k \in DOMAIN dict : read[k] = dict[k]
    BY <1>1, <1>4, <2>1
  <2> QED
    BY <1>1, <2>1, <2>2 DEF IsDict
<1> QED
  BY <1>3, <1>4 DEF read

LEMMA DictIs ==
  ASSUME NEW d
  PROVE  d \in Dict <=> /\ IsDict(d)
                        /\ DOMAIN d \subseteq Key
                        /\ \A k \in DOMAIN d : d[k] \in Value
<1>1. ASSUME d \in Dict
      PROVE  IsDict(d) /\ DOMAIN d \subseteq Key /\ \A k \in DOMAIN d : d[k] \in Value
  <2>1. PICK K \in SUBSET Key : d \in [K -> Value]
    BY <1>1 DEF Dict
  <2> QED BY <2>1 DEF IsDict
<1>2. ASSUME IsDict(d), DOMAIN d \subseteq Key, \A k \in DOMAIN d : d[k] \in Value
      PROVE  d \in Dict
  <2>1. d \in [DOMAIN d -> Value]
    BY <1>2 DEF IsDict
  <2> QED BY <1>2, <2>1 DEF Dict
<1> QED BY <1>1, <1>2

LEMMA EmptyDictIs ==
  /\ EmptyDict \in Dict
  /\ DOMAIN EmptyDict = {}
  /\ \A d \in Dict : DOMAIN d = {} => d = EmptyDict
<1>1. EmptyDict = [k \in {} |-> k] /\ DOMAIN EmptyDict = {}
  BY DEF EmptyDict
<1>2. EmptyDict \in Dict
  BY <1>1, DictIs DEF IsDict
<1>3. ASSUME NEW d \in Dict, DOMAIN d = {}
      PROVE  d = EmptyDict
  <2>1. d = [k \in {} |-> d[k]]
    BY <1>3, DictIs DEF IsDict
  <2> QED BY <1>1, <2>1
<1> QED BY <1>1, <1>2, <1>3

Deltas == [set : Dict, deleted : SUBSET Key]

LEMMA WriteIs ==
  ASSUME NEW d \in Dict, NEW base \in Dict
  PROVE  WriteDeltaDict(d, base) \in Deltas
<1> DEFINE told == {k \in DOMAIN d : k \in DOMAIN base => base[k] # d[k]}
<1>1. Restrict(d, told) \in Dict
  BY DictIs DEF IsDict, Restrict
<1>2. DOMAIN base \ DOMAIN d \subseteq Key
  BY DictIs
<1> QED BY <1>1, <1>2 DEF WriteDeltaDict, Deltas

LEMMA ReadIs ==
  ASSUME NEW delta \in Deltas, NEW base \in Dict
  PROVE  ReadDeltaDict(delta, base) \in Dict
<1>1. delta.set \in Dict /\ delta.deleted \subseteq Key
  BY DEF Deltas
<1>2. PICK s : s = delta.set
  OBVIOUS
<1>3. PICK r : r = ReadDeltaDict(delta, base)
  OBVIOUS
<1>4. r = [k \in (DOMAIN base \cup DOMAIN s) \ delta.deleted |->
             IF k \in DOMAIN s THEN s[k] ELSE base[k]]
  BY <1>2, <1>3 DEF ReadDeltaDict
<1>5. /\ DOMAIN s \subseteq Key /\ DOMAIN base \subseteq Key
      /\ \A k \in DOMAIN s : s[k] \in Value
      /\ \A k \in DOMAIN base : base[k] \in Value
  BY <1>1, <1>2, DictIs
<1>6. DOMAIN r \subseteq Key /\ IsDict(r)
  BY <1>4, <1>5 DEF IsDict
<1>7. \A k \in DOMAIN r : r[k] \in Value
  BY <1>4, <1>5
<1> QED BY <1>3, <1>6, <1>7, DictIs

\* The cvars of the player, with all keys, written against nothing: they reach
\* whoever reads them, whatever that one had.
LEMMA WholeIs ==
  ASSUME NEW d \in [Key -> Value], NEW own \in Dict
  PROVE  /\ d \in Dict
         /\ ReadDeltaDict(WriteDeltaDict(d, EmptyDict), own) = d
<1>1. IsDict(d) /\ d \in Dict
  BY DictIs DEF IsDict
<1>2. DOMAIN own \subseteq Key
  BY DictIs
<1>3. Untold(d, EmptyDict) = {}
  BY EmptyDictIs DEF Untold
<1> QED BY <1>1, <1>2, <1>3, OtherBase

LEMMA WithIs ==
  ASSUME NEW info \in Dict, NEW f \in Forced
  PROVE  /\ With(info, f) \in Dict
         /\ DOMAIN info = Key => DOMAIN With(info, f) = Key
<1>1. f.key \in Key /\ f.value \in Value
  BY UserInfoAssumption
<1>2. PICK w : w = With(info, f)
  OBVIOUS
<1>3. w = [k \in DOMAIN info \cup {f.key} |-> IF k = f.key THEN f.value ELSE info[k]]
  BY <1>2 DEF With
<1>4. DOMAIN info \subseteq Key /\ \A k \in DOMAIN info : info[k] \in Value
  BY DictIs
<1>5. DOMAIN w = DOMAIN info \cup {f.key} /\ IsDict(w)
  BY <1>3 DEF IsDict
<1>6. \A k \in DOMAIN w : w[k] \in Value
  BY <1>1, <1>3, <1>4
<1> QED BY <1>1, <1>2, <1>4, <1>5, <1>6, DictIs

-----------------------------------------------------------------------------
(* Messages, and what a queue of them makes of a copy *)

Infos == [kind : {"CLIENTINFO"}, haveBase : BOOLEAN, delta : Deltas]
DownMsgs == [kind : {"GAMEINIT", "PURE"}, game : Nat] \cup [kind : {"ENTERGAME"}] \cup Infos
UpMsgs == [kind : {"UNRELIABLE", "PURE"}, game : Nat]
          \cup [kind : {"CLIENTINFO"}, haveBase : {TRUE}, delta : Deltas]
Msgs == DownMsgs \cup UpMsgs

LEMMA MsgsAre ==
  ASSUME NEW m \in Msgs
  PROVE  /\ m.kind = "CLIENTINFO" => m.delta \in Deltas /\ m.haveBase \in BOOLEAN
         /\ m.kind \notin {"CLIENTINFO", "ENTERGAME"} => m.game \in Nat
         /\ m \in UpMsgs => /\ m.kind \in {"UNRELIABLE", "PURE", "CLIENTINFO"}
                            /\ m.kind = "CLIENTINFO" => m.haveBase
         /\ m \in DownMsgs => m.kind \in {"GAMEINIT", "PURE", "ENTERGAME", "CLIENTINFO"}
BY DEF Msgs, DownMsgs, UpMsgs, Infos

ReadMsg(m, a) ==
  CASE m.kind = "CLIENTINFO" ->
         ReadDeltaDict(m.delta, IF m.haveBase THEN a ELSE EmptyDict)
    [] m.kind = "GAMEINIT" -> EmptyDict
    [] OTHER -> a

\* A message that says nothing about infos.
Idle(m) == m.kind \notin {"CLIENTINFO", "GAMEINIT"}

LEMMA ReadMsgIs ==
  ASSUME NEW m \in Msgs, NEW a \in Dict
  PROVE  /\ ReadMsg(m, a) \in Dict
         /\ m.kind = "GAMEINIT" => ReadMsg(m, a) = EmptyDict
         /\ Idle(m) => ReadMsg(m, a) = a
         /\ m.kind = "CLIENTINFO" =>
              ReadMsg(m, a) = ReadDeltaDict(m.delta, IF m.haveBase THEN a ELSE EmptyDict)
<1>1. CASE m.kind = "CLIENTINFO"
  <2>1. ReadMsg(m, a) = ReadDeltaDict(m.delta, IF m.haveBase THEN a ELSE EmptyDict)
    BY <1>1 DEF ReadMsg
  <2>2. (IF m.haveBase THEN a ELSE EmptyDict) \in Dict
    BY EmptyDictIs
  <2>3. m.delta \in Deltas
    BY <1>1, MsgsAre
  <2> QED BY <1>1, <2>1, <2>2, <2>3, ReadIs DEF Idle
<1>2. CASE m.kind = "GAMEINIT"
  BY <1>2, EmptyDictIs DEF ReadMsg, Idle
<1>3. CASE m.kind \notin {"CLIENTINFO", "GAMEINIT"}
  BY <1>3 DEF ReadMsg, Idle
<1> QED BY <1>1, <1>2, <1>3

\* f[i] is what the first i messages make of a.
Run(f, q, a, n) == f = [i \in 0 .. n |-> IF i = 0 THEN a ELSE ReadMsg(q[i], f[i - 1])]

After(q, a) == (CHOOSE f : Run(f, q, a, Len(q)))[Len(q)]

\* Upwards from p.
LEMMA Upwards ==
  ASSUME NEW n \in Nat, NEW p \in 0 .. n, NEW T, p \in T,
         \A i \in p .. n : i \in T /\ i < n => i + 1 \in T
  PROVE  \A i \in p .. n : i \in T
<1> DEFINE U == {i \in p .. n : i \notin T}
<1>1. SUFFICES ASSUME U # {} PROVE FALSE
  OBVIOUS
<1>2. PICK m \in U : \A k \in U : m <= k
  <2>1. U \in SUBSET Nat
    OBVIOUS
  <2> HIDE DEF U
  <2> QED BY <1>1, <2>1, NatLeast
<1>3. m - 1 \in p .. n /\ m - 1 < n /\ (m - 1) + 1 = m /\ m - 1 \notin U
  BY <1>2
<1>4. m - 1 \in T
  BY <1>3
<1>5. m \in T
  BY <1>3, <1>4
<1> QED BY <1>2, <1>5

LEMMA RunNext ==
  ASSUME NEW q, NEW a, NEW n \in Nat, NEW g, Run(g, q, a, n)
  PROVE  \E h : Run(h, q, a, n + 1)
<1> DEFINE h == [i \in 0 .. n + 1 |-> IF i = n + 1 THEN ReadMsg(q[n + 1], g[n]) ELSE g[i]]
<1>1. /\ DOMAIN h = 0 .. n + 1 /\ h[n + 1] = ReadMsg(q[n + 1], g[n])
      /\ h = [i \in 0 .. n + 1 |-> h[i]]
      /\ \A i \in 0 .. n : h[i] = g[i]
  OBVIOUS
<1> HIDE DEF h
<1>2. \A i \in 0 .. n : g[i] = IF i = 0 THEN a ELSE ReadMsg(q[i], g[i - 1])
  BY DEF Run
<1>3. ASSUME NEW i \in 0 .. n + 1
      PROVE  h[i] = IF i = 0 THEN a ELSE ReadMsg(q[i], h[i - 1])
  <2>1. CASE i = n + 1
    <3>1. i - 1 = n /\ n \in 0 .. n /\ i # 0
      BY <2>1
    <3> QED BY <1>1, <2>1, <3>1
  <2>2. CASE i # n + 1
    <3>1. i \in 0 .. n /\ (i # 0 => i - 1 \in 0 .. n)
      BY <2>2
    <3> QED BY <1>1, <1>2, <3>1
  <2> QED BY <2>1, <2>2
<1>4. [i \in 0 .. n + 1 |-> h[i]]
        = [i \in 0 .. n + 1 |-> IF i = 0 THEN a ELSE ReadMsg(q[i], h[i - 1])]
  BY <1>3
<1> QED BY <1>1, <1>4 DEF Run

LEMMA RunExists ==
  ASSUME NEW q, NEW a, NEW n \in Nat
  PROVE  \E f : Run(f, q, a, n)
<1> DEFINE T == {i \in 0 .. n : \E f : Run(f, q, a, i)}
<1>1. 0 \in T
  <2>1. Run([i \in 0 .. 0 |-> a], q, a, 0)
    <3>1. \A i \in 0 .. 0 : i = 0
      OBVIOUS
    <3> QED BY <3>1 DEF Run
  <2> QED BY <2>1
<1>2. ASSUME NEW i \in 0 .. n, i \in T, i < n PROVE i + 1 \in T
  <2>1. PICK g : Run(g, q, a, i)
    BY <1>2
  <2>2. \E h : Run(h, q, a, i + 1)
    BY <2>1, RunNext
  <2> QED BY <1>2, <2>2
<1> HIDE DEF T
<1>3. \A i \in 0 .. n : i \in T
  BY <1>1, <1>2, Upwards
<1>4. n \in T
  BY <1>3
<1> QED BY <1>4 DEF T

LEMMA RunSteps ==
  ASSUME NEW q \in Seq(Msgs), NEW a \in Dict, NEW f, Run(f, q, a, Len(q))
  PROVE  /\ f[0] = a
         /\ \A i \in 0 .. Len(q) : i # 0 => f[i] = ReadMsg(q[i], f[i - 1])
         /\ \A i \in 0 .. Len(q) : f[i] \in Dict
<1>1. Len(q) \in Nat /\ 0 \in 0 .. Len(q) /\ \A i \in 1 .. Len(q) : q[i] \in Msgs
  OBVIOUS
<1>2. \A i \in 0 .. Len(q) : f[i] = IF i = 0 THEN a ELSE ReadMsg(q[i], f[i - 1])
  BY DEF Run
<1> DEFINE T == {i \in 0 .. Len(q) : f[i] \in Dict}
<1>3. 0 \in T
  BY <1>1, <1>2
<1>4. ASSUME NEW i \in 0 .. Len(q), i \in T, i < Len(q) PROVE i + 1 \in T
  <2>1. i + 1 \in 1 .. Len(q) /\ i + 1 # 0 /\ (i + 1) - 1 = i
    BY <1>1, <1>4
  <2>2. PICK d, m : d = f[i] /\ m = q[i + 1] /\ d \in Dict /\ m \in Msgs
    BY <1>1, <1>4, <2>1
  <2>3. f[i + 1] = ReadMsg(m, d)
    BY <1>1, <1>2, <2>1, <2>2
  <2>4. f[i + 1] \in Dict
    BY <2>2, <2>3, ReadMsgIs
  <2> QED BY <1>1, <2>1, <2>4
<1> HIDE DEF T
<1>5. \A i \in 0 .. Len(q) : i \in T
  BY <1>1, <1>3, <1>4, Upwards
<1>6. \A i \in 0 .. Len(q) : f[i] \in Dict
  BY <1>5 DEF T
<1> QED BY <1>1, <1>2, <1>6

\* Two readers who agree at one point agree from there on.
LEMMA RunsMeet ==
  ASSUME NEW q \in Seq(Msgs), NEW a \in Dict, NEW b \in Dict,
         NEW f, Run(f, q, a, Len(q)), NEW g, Run(g, q, b, Len(q)),
         NEW p \in 0 .. Len(q), f[p] = g[p]
  PROVE  f[Len(q)] = g[Len(q)]
<1>1. Len(q) \in Nat /\ Len(q) \in p .. Len(q)
  OBVIOUS
<1>2. \A i \in 0 .. Len(q) : i # 0 => /\ f[i] = ReadMsg(q[i], f[i - 1])
                                      /\ g[i] = ReadMsg(q[i], g[i - 1])
  BY RunSteps
<1> DEFINE T == {i \in 0 .. Len(q) : f[i] = g[i]}
<1>3. p \in T
  OBVIOUS
<1>4. ASSUME NEW i \in p .. Len(q), i \in T, i < Len(q) PROVE i + 1 \in T
  <2>1. i + 1 \in 0 .. Len(q) /\ i + 1 # 0 /\ (i + 1) - 1 = i
    BY <1>1, <1>4
  <2>2. f[i] = g[i]
    BY <1>4
  <2> QED BY <1>2, <2>1, <2>2
<1> HIDE DEF T
<1>5. \A i \in p .. Len(q) : i \in T
  BY <1>1, <1>3, <1>4, Upwards
<1> QED BY <1>1, <1>5 DEF T

LEMMA AfterIs ==
  ASSUME NEW q \in Seq(Msgs), NEW a \in Dict
  PROVE  /\ \E f : Run(f, q, a, Len(q)) /\ After(q, a) = f[Len(q)]
         /\ \A f : Run(f, q, a, Len(q)) => After(q, a) = f[Len(q)]
<1>1. Len(q) \in Nat /\ 0 \in 0 .. Len(q)
  OBVIOUS
<1>2. \E f : Run(f, q, a, Len(q))
  BY <1>1, RunExists
<1>3. PICK g : Run(g, q, a, Len(q)) /\ After(q, a) = g[Len(q)]
  BY <1>2 DEF After
<1>4. ASSUME NEW f, Run(f, q, a, Len(q)) PROVE f[Len(q)] = g[Len(q)]
  <2>1. f[0] = g[0]
    BY <1>3, <1>4, RunSteps
  <2> QED BY <1>1, <1>3, <1>4, <2>1, RunsMeet
<1> QED BY <1>3, <1>4

LEMMA AfterType ==
  ASSUME NEW q \in Seq(Msgs), NEW a \in Dict
  PROVE  After(q, a) \in Dict
<1>1. PICK f : Run(f, q, a, Len(q)) /\ After(q, a) = f[Len(q)]
  BY AfterIs
<1>2. Len(q) \in 0 .. Len(q)
  OBVIOUS
<1> QED BY <1>1, <1>2, RunSteps

LEMMA AfterEmpty ==
  ASSUME NEW a \in Dict
  PROVE  After(<<>>, a) = a
<1>1. <<>> \in Seq(Msgs) /\ Len(<<>>) = 0
  OBVIOUS
<1>2. PICK q : q = <<>>
  OBVIOUS
<1>3. PICK f : Run(f, q, a, Len(q)) /\ After(q, a) = f[Len(q)]
  BY <1>1, <1>2, AfterIs
<1>4. q \in Seq(Msgs) /\ Len(q) = 0
  BY <1>1, <1>2
<1>5. f[0] = a
  BY <1>3, <1>4 DEF Run
<1>6. After(q, a) = f[0]
  BY <1>3, <1>4
<1>7. After(q, a) = a
  BY <1>5, <1>6
<1> QED BY <1>2, <1>7

LEMMA AfterAppend ==
  ASSUME NEW q \in Seq(Msgs), NEW a \in Dict, NEW m \in Msgs
  PROVE  After(Append(q, m), a) = ReadMsg(m, After(q, a))
<1>1. PICK n, r : n = Len(q) /\ r = Append(q, m)
  OBVIOUS
<1>2. /\ n \in Nat /\ r \in Seq(Msgs) /\ Len(r) = n + 1 /\ r[n + 1] = m
      /\ \A i \in 1 .. n : r[i] = q[i]
  BY <1>1
<1>3. PICK h : Run(h, r, a, Len(r)) /\ After(r, a) = h[Len(r)]
  BY <1>2, AfterIs
<1>4. /\ h[0] = a
      /\ \A i \in 0 .. n + 1 : i # 0 => h[i] = ReadMsg(r[i], h[i - 1])
  BY <1>2, <1>3, RunSteps
<1>5. PICK f : f = [i \in 0 .. n |-> h[i]]
  OBVIOUS
<1>6. \A i \in 0 .. n : f[i] = h[i]
  BY <1>5
<1>7. ASSUME NEW i \in 0 .. n
      PROVE  h[i] = IF i = 0 THEN a ELSE ReadMsg(q[i], f[i - 1])
  <2>1. CASE i = 0
    BY <1>4, <2>1
  <2>2. CASE i # 0
    <3>1. i \in 1 .. n /\ i \in 0 .. n + 1 /\ i - 1 \in 0 .. n
      BY <1>2, <2>2
    <3> QED BY <1>2, <1>4, <1>6, <2>2, <3>1
  <2> QED BY <2>1, <2>2
<1>8. f = [i \in 0 .. n |-> IF i = 0 THEN a ELSE ReadMsg(q[i], f[i - 1])]
  BY <1>5, <1>7
<1>9. After(q, a) = f[n]
  BY <1>1, <1>8, AfterIs DEF Run
<1>10. n \in 0 .. n /\ n + 1 \in 0 .. n + 1 /\ n + 1 # 0 /\ (n + 1) - 1 = n
  BY <1>2
<1> QED BY <1>1, <1>2, <1>3, <1>4, <1>6, <1>9, <1>10

LEMMA AfterTail ==
  ASSUME NEW q \in Seq(Msgs), NEW a \in Dict, q # <<>>
  PROVE  After(Tail(q), ReadMsg(Head(q), a)) = After(q, a)
<1>1. PICK n, t, b : n = Len(q) - 1 /\ t = Tail(q) /\ b = ReadMsg(Head(q), a)
  OBVIOUS
<1>2. /\ n \in Nat /\ t \in Seq(Msgs) /\ Len(t) = n /\ Head(q) = q[1] /\ Head(q) \in Msgs
      /\ Len(q) = n + 1 /\ \A i \in 1 .. n : t[i] = q[i + 1]
  BY <1>1
<1>3. b \in Dict
  BY <1>1, <1>2, ReadMsgIs
<1>4. PICK h : Run(h, q, a, Len(q)) /\ After(q, a) = h[Len(q)]
  BY AfterIs
<1>5. /\ h[0] = a
      /\ \A i \in 0 .. n + 1 : i # 0 => h[i] = ReadMsg(q[i], h[i - 1])
  BY <1>2, <1>4, RunSteps
<1>6. PICK f : f = [i \in 0 .. n |-> h[i + 1]]
  OBVIOUS
<1>7. \A i \in 0 .. n : f[i] = h[i + 1]
  BY <1>6
<1>8. ASSUME NEW i \in 0 .. n
      PROVE  h[i + 1] = IF i = 0 THEN b ELSE ReadMsg(t[i], f[i - 1])
  <2>1. i + 1 \in 0 .. n + 1 /\ i + 1 # 0 /\ (i + 1) - 1 = i
    BY <1>2
  <2>2. h[i + 1] = ReadMsg(q[i + 1], h[i])
    BY <1>5, <2>1
  <2>3. CASE i = 0
    <3>1. h[i] = a /\ q[i + 1] = Head(q)
      BY <1>2, <1>5, <2>3
    <3> QED BY <1>1, <2>2, <2>3, <3>1
  <2>4. CASE i # 0
    <3>1. i \in 1 .. n /\ i - 1 \in 0 .. n /\ (i - 1) + 1 = i
      BY <1>2, <2>4
    <3>2. t[i] = q[i + 1] /\ f[i - 1] = h[i]
      BY <1>2, <1>7, <3>1
    <3> QED BY <2>2, <2>4, <3>2
  <2> QED BY <2>3, <2>4
<1>9. f = [i \in 0 .. n |-> IF i = 0 THEN b ELSE ReadMsg(t[i], f[i - 1])]
  BY <1>6, <1>8
<1>10. After(t, b) = f[n]
  BY <1>2, <1>3, <1>9, AfterIs DEF Run
<1>11. n \in 0 .. n
  BY <1>2
<1> QED BY <1>1, <1>2, <1>4, <1>7, <1>10, <1>11

\* What comes after something that is not changed any more.
LEMMA RunHolds ==
  ASSUME NEW q \in Seq(Msgs), NEW a \in Dict, NEW f, Run(f, q, a, Len(q)),
         NEW p \in 0 .. Len(q), \A i \in 1 .. Len(q) : ReadMsg(q[i], f[p]) = f[p]
  PROVE  f[Len(q)] = f[p]
<1>1. Len(q) \in Nat /\ Len(q) \in p .. Len(q)
  OBVIOUS
<1>2. \A i \in 0 .. Len(q) : i # 0 => f[i] = ReadMsg(q[i], f[i - 1])
  BY RunSteps
<1> DEFINE T == {i \in 0 .. Len(q) : f[i] = f[p]}
<1>3. p \in T
  OBVIOUS
<1>4. ASSUME NEW i \in p .. Len(q), i \in T, i < Len(q) PROVE i + 1 \in T
  <2>1. /\ i + 1 \in 0 .. Len(q) /\ i + 1 # 0 /\ (i + 1) - 1 = i
        /\ i + 1 \in 1 .. Len(q)
    BY <1>1, <1>4
  <2>2. f[i] = f[p]
    BY <1>4
  <2>3. f[i + 1] = ReadMsg(q[i + 1], f[p])
    BY <1>2, <2>1, <2>2
  <2> QED BY <2>1, <2>3
<1> HIDE DEF T
<1>5. \A i \in p .. Len(q) : i \in T
  BY <1>1, <1>3, <1>4, Upwards
<1> QED BY <1>1, <1>5 DEF T

NoInfo(q) == ~Holds(q, "CLIENTINFO")
NoInit(q) == ~Holds(q, "GAMEINIT")

\* A queue without infos and map changes changes nothing; after a map change it
\* does not matter what was there before; and nothing is there, if no info comes.
LEMMA AfterWhat ==
  ASSUME NEW q \in Seq(Msgs), NEW a \in Dict
  PROVE  /\ NoInfo(q) /\ NoInit(q) => After(q, a) = a
         /\ NoInfo(q) /\ ~NoInit(q) => After(q, a) = EmptyDict
         /\ ~NoInit(q) => \A b \in Dict : After(q, a) = After(q, b)
<1>1. PICK f : Run(f, q, a, Len(q)) /\ After(q, a) = f[Len(q)]
  BY AfterIs
<1>2. /\ f[0] = a
      /\ \A i \in 0 .. Len(q) : i # 0 => f[i] = ReadMsg(q[i], f[i - 1])
      /\ \A i \in 0 .. Len(q) : f[i] \in Dict
  BY <1>1, RunSteps
<1>3. /\ Len(q) \in Nat /\ 0 \in 0 .. Len(q) /\ DOMAIN q = 1 .. Len(q)
      /\ \A i \in 1 .. Len(q) : q[i] \in Msgs
  OBVIOUS
<1>4. ASSUME NoInfo(q), NoInit(q) PROVE After(q, a) = a
  <2>1. ASSUME NEW i \in 1 .. Len(q) PROVE ReadMsg(q[i], f[0]) = f[0]
    <3>1. Idle(q[i])
      BY <1>3, <1>4 DEF NoInfo, NoInit, Holds, Idle
    <3> QED BY <1>2, <1>3, <3>1, ReadMsgIs
  <2> QED BY <1>1, <1>2, <1>3, <2>1, RunHolds
<1>5. ASSUME ~NoInit(q)
      PROVE  \E p \in 1 .. Len(q) : q[p].kind = "GAMEINIT"
  BY <1>3, <1>5 DEF NoInit, Holds
<1>6. ASSUME NEW p \in 1 .. Len(q), q[p].kind = "GAMEINIT",
             NEW b \in Dict, NEW g, Run(g, q, b, Len(q))
      PROVE  g[p] = EmptyDict /\ p \in 0 .. Len(q)
  <2>1. p \in 0 .. Len(q) /\ p # 0 /\ p - 1 \in 0 .. Len(q)
    BY <1>3
  <2>2. g[p] = ReadMsg(q[p], g[p - 1]) /\ g[p - 1] \in Dict
    BY <1>6, <2>1, RunSteps
  <2> QED BY <1>3, <1>6, <2>1, <2>2, ReadMsgIs
<1>7. ASSUME NoInfo(q), ~NoInit(q) PROVE After(q, a) = EmptyDict
  <2>1. PICK p \in 1 .. Len(q) : q[p].kind = "GAMEINIT"
    BY <1>5, <1>7
  <2>2. f[p] = EmptyDict /\ p \in 0 .. Len(q)
    BY <1>1, <1>6, <2>1
  <2>3. ASSUME NEW i \in 1 .. Len(q) PROVE ReadMsg(q[i], EmptyDict) = EmptyDict
    <3>1. q[i].kind # "CLIENTINFO"
      BY <1>3, <1>7 DEF NoInfo, Holds
    <3> QED BY <1>3, <3>1, ReadMsgIs, EmptyDictIs DEF Idle
  <2> QED BY <1>1, <2>2, <2>3, RunHolds
<1>8. ASSUME ~NoInit(q), NEW b \in Dict PROVE After(q, a) = After(q, b)
  <2>1. PICK p \in 1 .. Len(q) : q[p].kind = "GAMEINIT"
    BY <1>5, <1>8
  <2>2. PICK g : Run(g, q, b, Len(q)) /\ After(q, b) = g[Len(q)]
    BY AfterIs
  <2>3. f[p] = EmptyDict /\ g[p] = EmptyDict /\ p \in 0 .. Len(q)
    BY <1>1, <1>6, <2>1, <2>2
  <2> QED BY <1>1, <2>2, <2>3, RunsMeet
<1> QED BY <1>4, <1>7, <1>8

-----------------------------------------------------------------------------
(* Queues of messages, as they grow and are read *)

LEMMA QueueGrows ==
  ASSUME NEW q \in Seq(Msgs), NEW m \in Msgs
  PROVE  /\ In(Append(q, m)) = In(q) \cup {m}
         /\ \A kind : Holds(Append(q, m), kind) <=> Holds(q, kind) \/ m.kind = kind
<1>1. PICK n, r : n = Len(q) /\ r = Append(q, m)
  OBVIOUS
<1>2. /\ n \in Nat /\ DOMAIN r = 1 .. n + 1 /\ DOMAIN q = 1 .. n /\ r[n + 1] = m
      /\ \A i \in 1 .. n : r[i] = q[i]
  BY <1>1
<1>3. \A i : i \in 1 .. n + 1 <=> i \in 1 .. n \/ i = n + 1
  BY <1>2
<1>4. In(r) = In(q) \cup {m}
  BY <1>2, <1>3 DEF In
<1>5. ASSUME NEW kind PROVE Holds(r, kind) <=> Holds(q, kind) \/ m.kind = kind
  BY <1>2, <1>3 DEF Holds
<1> QED BY <1>1, <1>4, <1>5

LEMMA QueueShrinks ==
  ASSUME NEW q \in Seq(Msgs), q # <<>>
  PROVE  /\ Head(q) \in Msgs /\ Tail(q) \in Seq(Msgs)
         /\ In(q) = {Head(q)} \cup In(Tail(q))
         /\ \A kind : Holds(q, kind) <=> Head(q).kind = kind \/ Holds(Tail(q), kind)
<1>1. PICK n, t, h : n = Len(q) - 1 /\ t = Tail(q) /\ h = Head(q)
  OBVIOUS
<1>2. /\ n \in Nat /\ DOMAIN q = 1 .. n + 1 /\ DOMAIN t = 1 .. n /\ h = q[1]
      /\ t \in Seq(Msgs) /\ h \in Msgs
      /\ \A i \in 1 .. n : t[i] = q[i + 1]
  BY <1>1
<1>3. ASSUME NEW x PROVE x \in In(q) <=> x = h \/ x \in In(t)
  <2>1. ASSUME x \in In(q), x # h PROVE x \in In(t)
    <3>1. PICK i \in 1 .. n + 1 : x = q[i]
      BY <1>2, <2>1 DEF In
    <3>2. i - 1 \in 1 .. n /\ (i - 1) + 1 = i
      BY <1>2, <2>1, <3>1
    <3>3. t[i - 1] = x
      BY <1>2, <3>1, <3>2
    <3> QED BY <1>2, <3>2, <3>3 DEF In
  <2>2. ASSUME x = h PROVE x \in In(q)
    <3>1. 1 \in DOMAIN q
      BY <1>2
    <3> QED BY <1>2, <2>2, <3>1 DEF In
  <2>3. ASSUME x \in In(t) PROVE x \in In(q)
    <3>1. PICK i \in 1 .. n : x = t[i]
      BY <1>2, <2>3 DEF In
    <3>2. i + 1 \in 1 .. n + 1 /\ x = q[i + 1]
      BY <1>2, <3>1
    <3> QED BY <1>2, <3>2 DEF In
  <2> QED BY <2>1, <2>2, <2>3
<1>4. In(q) = {h} \cup In(t)
  BY <1>3
<1>5. \A r, kind : Holds(r, kind) <=> \E m \in In(r) : m.kind = kind
  BY DEF Holds, In
<1> QED BY <1>1, <1>2, <1>4, <1>5

\* The GAMEINITs on their way name later games than the client's, each a later one
\* than the one before it.
Ahead(q, mine, last) ==
  /\ mine <= last
  /\ \A i \in DOMAIN q : q[i].kind = "GAMEINIT" => mine < q[i].game /\ q[i].game <= last
  /\ \A i, j \in DOMAIN q :
       i < j /\ q[i].kind = "GAMEINIT" /\ q[j].kind = "GAMEINIT" => q[i].game < q[j].game

\* The client is in the server's last game, or is going to be.
Hears(q, mine, last) == mine = last \/ GameInitMsg(last) \in In(q)

LEMMA AheadGrows ==
  ASSUME NEW q \in Seq(Msgs), NEW mine \in Nat, NEW last \in Nat, Ahead(q, mine, last),
         NEW m \in Msgs
  PROVE  /\ m.kind # "GAMEINIT" =>
              /\ Ahead(Append(q, m), mine, last)
              /\ Hears(Append(q, m), mine, last) => Hears(q, mine, last)
         /\ \A new \in Nat :
              /\ m = GameInitMsg(new) /\ last <= new /\ mine # new
              /\ GameInitMsg(new) \notin In(q)
              => Ahead(Append(q, m), mine, new)
<1>1. PICK n, r : n = Len(q) /\ r = Append(q, m)
  OBVIOUS
<1>2. /\ n \in Nat /\ DOMAIN r = 1 .. n + 1 /\ DOMAIN q = 1 .. n /\ r[n + 1] = m
      /\ \A i \in 1 .. n : r[i] = q[i] /\ q[i] \in Msgs
  BY <1>1
<1>3. \A i : i \in 1 .. n + 1 <=> i \in 1 .. n \/ i = n + 1
  BY <1>2
<1>4. ASSUME m.kind # "GAMEINIT" PROVE Ahead(r, mine, last)
  <2>1. \A i \in 1 .. n + 1 : r[i].kind = "GAMEINIT" => i \in 1 .. n /\ r[i] = q[i]
    BY <1>2, <1>3, <1>4
  <2> QED BY <1>2, <2>1 DEF Ahead
<1>5. ASSUME m.kind # "GAMEINIT", Hears(r, mine, last) PROVE Hears(q, mine, last)
  <2>1. In(r) = In(q) \cup {m} /\ m # GameInitMsg(last)
    BY <1>1, <1>5, QueueGrows DEF GameInitMsg
  <2> QED BY <1>5, <2>1 DEF Hears
<1>6. ASSUME NEW new \in Nat, m = GameInitMsg(new), last <= new, mine # new,
             GameInitMsg(new) \notin In(q)
      PROVE  Ahead(r, mine, new)
  <2>1. m.game = new /\ mine < new /\ mine <= last
    BY <1>6 DEF GameInitMsg, Ahead
  <2>2. ASSUME NEW i \in 1 .. n, q[i].kind = "GAMEINIT"
        PROVE  /\ q[i].game \in Nat /\ mine < q[i].game /\ q[i].game < new
    <3>1. q[i].game \in Nat /\ mine < q[i].game /\ q[i].game <= last
      BY <1>2, <2>2, MsgsAre DEF Ahead
    <3>2. q[i].game # new
      <4>1. ASSUME q[i].game = new PROVE q[i] = GameInitMsg(new)
        <5>1. q[i] \in [kind : {"GAMEINIT", "PURE"}, game : Nat]
          BY <1>2, <2>2 DEF Msgs, DownMsgs, UpMsgs, Infos
        <5> QED BY <2>2, <4>1, <5>1 DEF GameInitMsg
      <4>2. q[i] \in In(q)
        BY <1>2 DEF In
      <4> QED BY <1>6, <4>1, <4>2
    <3> QED BY <1>6, <3>1, <3>2
  <2>3. \A i \in 1 .. n + 1 : r[i].kind = "GAMEINIT" => mine < r[i].game /\ r[i].game <= new
    <3>1. ASSUME NEW i \in 1 .. n + 1, r[i].kind = "GAMEINIT"
          PROVE  mine < r[i].game /\ r[i].game <= new
      <4>1. CASE i = n + 1
        BY <1>2, <2>1, <4>1
      <4>2. CASE i \in 1 .. n
        <5>1. q[i].game \in Nat /\ mine < q[i].game /\ q[i].game < new /\ r[i] = q[i]
          BY <1>2, <2>2, <3>1, <4>2
        <5> QED BY <5>1
      <4> QED BY <1>3, <4>1, <4>2
    <3> QED BY <3>1
  <2>4. ASSUME NEW i \in 1 .. n + 1, NEW j \in 1 .. n + 1, i < j,
               r[i].kind = "GAMEINIT", r[j].kind = "GAMEINIT"
        PROVE  r[i].game < r[j].game
    <3>1. i \in 1 .. n /\ r[i] = q[i]
      BY <1>2, <2>4
    <3>2. CASE j = n + 1
      BY <1>2, <2>1, <2>2, <2>4, <3>1, <3>2
    <3>3. CASE j \in 1 .. n
      BY <1>2, <2>4, <3>1, <3>3 DEF Ahead
    <3> QED BY <1>3, <3>2, <3>3
  <2>5. mine <= new
    BY <2>1
  <2> QED BY <1>2, <2>3, <2>4, <2>5 DEF Ahead
<1> QED BY <1>1, <1>4, <1>5, <1>6

LEMMA AheadShrinks ==
  ASSUME NEW q \in Seq(Msgs), NEW mine \in Nat, NEW last \in Nat, Ahead(q, mine, last),
         q # <<>>
  PROVE  /\ Ahead(Tail(q), mine, last)
         /\ Hears(Tail(q), mine, last) => Hears(q, mine, last)
         /\ Head(q).kind = "GAMEINIT" =>
              /\ Head(q).game \in Nat
              /\ mine < Head(q).game
              /\ Ahead(Tail(q), Head(q).game, last)
              /\ Hears(Tail(q), Head(q).game, last) => Hears(q, mine, last)
              /\ Hears(Tail(q), mine, last) => ~NoInit(Tail(q))
<1>1. PICK n, t, h : n = Len(q) - 1 /\ t = Tail(q) /\ h = Head(q)
  OBVIOUS
<1>2. /\ n \in Nat /\ DOMAIN q = 1 .. n + 1 /\ DOMAIN t = 1 .. n /\ h = q[1]
      /\ h \in Msgs /\ 1 \in 1 .. n + 1
      /\ \A i \in 1 .. n : t[i] = q[i + 1] /\ i + 1 \in 1 .. n + 1 /\ 1 < i + 1
  BY <1>1
<1>3. \A i, j \in 1 .. n : i < j => i + 1 < j + 1
  BY <1>2
<1>4. Ahead(t, mine, last)
  BY <1>2, <1>3 DEF Ahead
<1>5. In(q) = {h} \cup In(t)
  BY <1>1, QueueShrinks
<1>6. Hears(t, mine, last) => Hears(q, mine, last)
  BY <1>5 DEF Hears
<1>7. ASSUME h.kind = "GAMEINIT"
      PROVE  /\ h.game \in Nat /\ mine < h.game
             /\ Ahead(t, h.game, last)
             /\ Hears(t, h.game, last) => Hears(q, mine, last)
             /\ Hears(t, mine, last) => ~NoInit(t)
  <2>1. h.game \in Nat
    BY <1>2, <1>7, MsgsAre
  <2>2. mine < h.game /\ h.game <= last
    BY <1>2, <1>7 DEF Ahead
  <2>3. \A i \in 1 .. n : t[i].kind = "GAMEINIT" => h.game < t[i].game
    BY <1>2, <1>7 DEF Ahead
  <2>4. Ahead(t, h.game, last)
    BY <1>2, <1>4, <2>2, <2>3 DEF Ahead
  <2>5. ASSUME Hears(t, h.game, last) PROVE Hears(q, mine, last)
    <3>1. CASE h.game = last
      <4>1. h \in [kind : {"GAMEINIT", "PURE"}, game : Nat]
        BY <1>2, <1>7 DEF Msgs, DownMsgs, UpMsgs, Infos
      <4>2. h = GameInitMsg(last)
        BY <1>7, <3>1, <4>1 DEF GameInitMsg
      <4> QED BY <1>5, <4>2 DEF Hears
    <3>2. CASE h.game # last
      BY <1>5, <2>5, <3>2 DEF Hears
    <3> QED BY <3>1, <3>2
  <2>6. ASSUME Hears(t, mine, last) PROVE ~NoInit(t)
    <3>1. mine # last
      BY <2>1, <2>2
    <3>2. GameInitMsg(last) \in In(t) /\ GameInitMsg(last).kind = "GAMEINIT"
      BY <2>6, <3>1 DEF Hears, GameInitMsg
    <3> QED BY <3>2 DEF NoInit, Holds, In
  <2> QED BY <2>1, <2>2, <2>4, <2>5, <2>6
<1> QED BY <1>1, <1>4, <1>6, <1>7

LEMMA AheadHere ==
  ASSUME NEW q \in Seq(Msgs), NEW mine \in Nat, NEW last \in Nat, Ahead(q, mine, last)
  PROVE  /\ mine = last => NoInit(q)
         /\ mine # last /\ Hears(q, mine, last) => ~NoInit(q)
<1>1. ASSUME mine = last, ~NoInit(q) PROVE FALSE
  <2>1. PICK i \in DOMAIN q : q[i].kind = "GAMEINIT"
    BY <1>1 DEF NoInit, Holds
  <2>2. q[i].game \in Nat /\ mine < q[i].game /\ q[i].game <= last
    BY <2>1, MsgsAre DEF Ahead
  <2> QED BY <1>1, <2>2
<1>2. ASSUME mine # last, Hears(q, mine, last) PROVE ~NoInit(q)
  <2>1. GameInitMsg(last) \in In(q) /\ GameInitMsg(last).kind = "GAMEINIT"
    BY <1>2 DEF Hears, GameInitMsg
  <2> QED BY <2>1 DEF NoInit, Holds, In
<1> QED BY <1>1, <1>2

\* The other messages of a client are of its game or of an earlier one.
Behind(u, mine) == \A m \in In(u) : m.kind # "CLIENTINFO" => m.game <= mine

LEMMA BehindMoves ==
  ASSUME NEW u \in Seq(UpMsgs), NEW mine \in Nat, Behind(u, mine)
  PROVE  /\ \A m \in UpMsgs : (m.kind # "CLIENTINFO" => m.game <= mine)
                                => Behind(Append(u, m), mine)
         /\ u # <<>> => Behind(Tail(u), mine)
         /\ \A new \in Nat : mine <= new => Behind(u, new)
<1>1. u \in Seq(Msgs)
  BY DEF Msgs
<1>2. ASSUME NEW m \in UpMsgs, m.kind # "CLIENTINFO" => m.game <= mine
      PROVE  Behind(Append(u, m), mine)
  <2>1. In(Append(u, m)) = In(u) \cup {m}
    BY <1>1, QueueGrows DEF Msgs
  <2> QED BY <1>2, <2>1 DEF Behind
<1>3. ASSUME u # <<>> PROVE Behind(Tail(u), mine)
  BY <1>1, <1>3, QueueShrinks DEF Behind
<1>4. ASSUME NEW new \in Nat, mine <= new PROVE Behind(u, new)
  <2>1. ASSUME NEW m \in In(u), m.kind # "CLIENTINFO" PROVE m.game <= new
    <3>1. m \in UpMsgs
      BY DEF In
    <3>2. m.game \in Nat
      BY <2>1, <3>1, MsgsAre DEF Msgs
    <3>3. m.game <= mine
      BY <2>1 DEF Behind
    <3> QED BY <1>4, <3>2, <3>3
  <2> QED BY <2>1 DEF Behind
<1> QED BY <1>2, <1>3, <1>4

\* The message that is read or lost makes no difference to what is heard.
LEMMA AfterLost ==
  ASSUME NEW q \in Seq(DownMsgs), NEW a \in Dict, NEW mine \in Nat, NEW last \in Nat,
         Ahead(q, mine, last), q # <<>>, Unreliable(Head(q)), Hears(Tail(q), mine, last)
  PROVE  After(Tail(q), a) = After(q, a)
<1>1. q \in Seq(Msgs)
  BY DEF Msgs
<1>2. PICK h, t : h = Head(q) /\ t = Tail(q)
  OBVIOUS
<1>3. h \in Msgs /\ t \in Seq(Msgs)
  BY <1>1, <1>2, QueueShrinks
<1>4. ReadMsg(h, a) \in Dict /\ After(t, ReadMsg(h, a)) = After(q, a)
  BY <1>1, <1>2, <1>3, AfterTail, ReadMsgIs
<1>5. CASE h.kind = "GAMEINIT"
  <2>1. ~NoInit(t)
    BY <1>1, <1>2, <1>5, AheadShrinks
  <2> QED BY <1>2, <1>3, <1>4, <2>1, AfterWhat
<1>6. CASE h.kind # "GAMEINIT"
  <2>1. ReadMsg(h, a) = a
    BY <1>2, <1>3, <1>6, ReadMsgIs DEF Unreliable, Idle
  <2> QED BY <1>2, <1>4, <2>1
<1> QED BY <1>5, <1>6

-----------------------------------------------------------------------------
(* The player's client and the server *)

\* Of what is on its way down, q, and up, u: the client with the copy a, or the
\* server with s, has what the other has when it has read it; or a new map leaves
\* the client with nothing, so that it will send the whole.
Level(q, a, u, s, mine, last) ==
  \/ NoInfo(u) /\ After(q, a) = s
  \/ mine = last /\ NoInfo(q) /\ After(u, s) = a
  \/ After(q, a) = EmptyDict

LEMMA UpIs ==
  ASSUME NEW u \in Seq(UpMsgs)
  PROVE  u \in Seq(Msgs) /\ NoInit(u)
<1>1. u \in Seq(Msgs)
  BY DEF Msgs
<1>2. \A i \in DOMAIN u : u[i] \in UpMsgs
  OBVIOUS
<1>3. \A i \in DOMAIN u : u[i].kind # "GAMEINIT"
  BY <1>2, MsgsAre DEF Msgs
<1> QED BY <1>1, <1>3 DEF NoInit, Holds

LEMMA LevelRead ==
  ASSUME NEW q \in Seq(Msgs), NEW a \in Dict, NEW u, NEW s, NEW mine \in Nat,
         NEW last \in Nat, Ahead(q, mine, last), q # <<>>, Level(q, a, u, s, mine, last),
         NEW now, Head(q).kind # "GAMEINIT" => now = mine
  PROVE  Level(Tail(q), ReadMsg(Head(q), a), u, s, now, last)
<1>1. After(Tail(q), ReadMsg(Head(q), a)) = After(q, a)
  BY AfterTail
<1>2. ASSUME mine = last, NoInfo(q), After(u, s) = a
      PROVE  /\ now = last /\ NoInfo(Tail(q))
             /\ After(u, s) = ReadMsg(Head(q), a)
  <2>1. NoInit(q)
    BY <1>2, AheadHere
  <2>2. /\ Head(q) \in Msgs /\ Head(q).kind \notin {"CLIENTINFO", "GAMEINIT"}
        /\ NoInfo(Tail(q))
    BY <1>2, <2>1, QueueShrinks DEF NoInfo, NoInit
  <2>3. ReadMsg(Head(q), a) = a
    BY <2>2, ReadMsgIs DEF Idle
  <2> QED BY <1>2, <2>2, <2>3
<1> QED BY <1>1, <1>2 DEF Level

LEMMA LevelLost ==
  ASSUME NEW q \in Seq(DownMsgs), NEW a \in Dict, NEW u, NEW s, NEW mine \in Nat,
         NEW last \in Nat, Ahead(q, mine, last), q # <<>>, Level(q, a, u, s, mine, last),
         Unreliable(Head(q)), Hears(Tail(q), mine, last)
  PROVE  Level(Tail(q), a, u, s, mine, last)
<1>1. After(Tail(q), a) = After(q, a)
  BY AfterLost
<1>2. q \in Seq(Msgs)
  BY DEF Msgs
<1>3. NoInfo(q) => NoInfo(Tail(q))
  BY <1>2, QueueShrinks DEF NoInfo
<1> QED BY <1>1, <1>3 DEF Level

\* A message that says nothing of infos is put into the queues.
LEMMA LevelIdle ==
  ASSUME NEW q \in Seq(Msgs), NEW a \in Dict, NEW u \in Seq(UpMsgs), NEW s \in Dict,
         NEW mine, NEW last, Level(q, a, u, s, mine, last)
  PROVE  /\ \A m \in Msgs : Idle(m) => Level(Append(q, m), a, u, s, mine, last)
         /\ \A m \in UpMsgs : Idle(m) => Level(q, a, Append(u, m), s, mine, last)
         /\ u # <<>> /\ Idle(Head(u)) => Level(q, a, Tail(u), s, mine, last)
<1>1. ASSUME NEW m \in Msgs, Idle(m)
      PROVE  Level(Append(q, m), a, u, s, mine, last)
  <2>1. After(q, a) \in Dict
    BY AfterType
  <2>2. After(Append(q, m), a) = After(q, a)
    BY <1>1, <2>1, AfterAppend, ReadMsgIs
  <2>3. NoInfo(q) => NoInfo(Append(q, m))
    BY <1>1, QueueGrows DEF NoInfo, Idle
  <2> QED BY <2>2, <2>3 DEF Level
<1>2. u \in Seq(Msgs)
  BY UpIs
<1>3. ASSUME NEW m \in UpMsgs, Idle(m)
      PROVE  Level(q, a, Append(u, m), s, mine, last)
  <2>1. m \in Msgs
    BY DEF Msgs
  <2>2. After(u, s) \in Dict
    BY <1>2, AfterType
  <2>3. After(Append(u, m), s) = After(u, s)
    BY <1>2, <1>3, <2>1, <2>2, AfterAppend, ReadMsgIs
  <2>4. NoInfo(u) => NoInfo(Append(u, m))
    BY <1>2, <1>3, <2>1, QueueGrows DEF NoInfo, Idle
  <2> QED BY <2>3, <2>4 DEF Level
<1>4. ASSUME u # <<>>, Idle(Head(u))
      PROVE  Level(q, a, Tail(u), s, mine, last)
  <2>1. Head(u) \in Msgs /\ (NoInfo(u) => NoInfo(Tail(u)))
    BY <1>2, <1>4, QueueShrinks DEF NoInfo
  <2>2. ReadMsg(Head(u), s) = s
    BY <1>4, <2>1, ReadMsgIs
  <2>3. After(Tail(u), s) = After(u, s)
    BY <1>2, <1>4, <2>2, AfterTail
  <2> QED BY <2>1, <2>3 DEF Level
<1> QED BY <1>1, <1>3, <1>4

\* The server reads an info.
LEMMA LevelServed ==
  ASSUME NEW q \in Seq(Msgs), NEW a \in Dict, NEW u \in Seq(UpMsgs), NEW s \in Dict,
         NEW mine \in Nat, NEW last \in Nat, Ahead(q, mine, last),
         Level(q, a, u, s, mine, last), u # <<>>, Head(u).kind = "CLIENTINFO"
  PROVE  Level(q, a, Tail(u), ReadDeltaDict(Head(u).delta, s), mine, last)
<1>1. u \in Seq(Msgs)
  BY UpIs
<1>2. ~NoInfo(u) /\ Head(u) \in Msgs /\ Head(u) \in UpMsgs
  BY <1>1, QueueShrinks DEF NoInfo
<1>3. ReadMsg(Head(u), s) = ReadDeltaDict(Head(u).delta, s)
  BY <1>2, ReadMsgIs, MsgsAre
<1>4. After(Tail(u), ReadDeltaDict(Head(u).delta, s)) = After(u, s)
  BY <1>1, <1>3, AfterTail
<1> QED BY <1>2, <1>4 DEF Level

\* The client sends its info, with no info on its way to it.
LEMMA LevelSent ==
  ASSUME NEW q \in Seq(Msgs), NEW a \in Dict, NEW u \in Seq(UpMsgs), NEW s \in Dict,
         NEW mine \in Nat, NEW last \in Nat, Ahead(q, mine, last), Hears(q, mine, last),
         Level(q, a, u, s, mine, last), NoInfo(q), NEW v \in [Key -> Value]
  PROVE  Level(q, v, Append(u, ClientInfoMsg(TRUE, WriteDeltaDict(v, a))), s, mine, last)
<1>1. u \in Seq(Msgs) /\ NoInit(u)
  BY UpIs
<1>2. v \in Dict /\ IsDict(v)
  BY WholeIs, DictIs
<1>3. CASE mine # last
  <2>1. ~NoInit(q)
    BY <1>3, AheadHere
  <2>2. After(q, v) = EmptyDict
    BY <1>2, <2>1, AfterWhat
  <2> QED BY <2>2 DEF Level
<1>4. CASE mine = last
  <2>1. After(q, a) = a
    BY <1>4, AheadHere, AfterWhat
  <2>2. After(u, s) = a \/ a = EmptyDict
    <3>1. NoInfo(u) => After(u, s) = s
      BY <1>1, AfterWhat
    <3> QED BY <2>1, <3>1 DEF Level
  <2>3. PICK m, t : m = ClientInfoMsg(TRUE, WriteDeltaDict(v, a)) /\ t = After(u, s)
    OBVIOUS
  <2>4. m.kind = "CLIENTINFO" /\ m.haveBase = TRUE /\ m.delta = WriteDeltaDict(v, a)
    BY <2>3 DEF ClientInfoMsg
  <2>5. m \in Msgs
    <3>1. WriteDeltaDict(v, a) \in Deltas
      BY <1>2, WriteIs
    <3> QED BY <2>3, <3>1 DEF Msgs, DownMsgs, Infos, ClientInfoMsg
  <2>6. t \in Dict
    BY <1>1, <2>3, AfterType
  <2>7. After(Append(u, m), s) = ReadDeltaDict(WriteDeltaDict(v, a), t)
    <3>1. After(Append(u, m), s) = ReadMsg(m, t)
      BY <1>1, <2>3, <2>5, AfterAppend
    <3>2. ReadMsg(m, t) = ReadDeltaDict(m.delta, t)
      BY <2>4, <2>5, <2>6, ReadMsgIs
    <3> QED BY <2>4, <3>1, <3>2
  <2>8. ReadDeltaDict(WriteDeltaDict(v, a), t) = v
    <3>1. CASE t = a
      BY <1>2, <3>1, RoundTrip
    <3>2. CASE a = EmptyDict
      BY <2>6, <3>2, WholeIs
    <3> QED BY <2>2, <2>3, <3>1, <3>2
  <2> QED BY <1>4, <2>3, <2>7, <2>8 DEF Level
<1> QED BY <1>3, <1>4

\* All are sent the whole info.
LEMMA WholeSent ==
  ASSUME NEW q \in Seq(Msgs), NEW a \in Dict, NEW s \in Dict, NEW base \in Dict,
         NEW haveBase \in BOOLEAN, NEW m,
         m = ClientInfoMsg(haveBase, WriteDeltaDict(s, base)),
         haveBase => After(q, a) = base, ~haveBase => base = EmptyDict
  PROVE  m \in Infos /\ After(Append(q, m), a) = s
<1>1. m.kind = "CLIENTINFO" /\ m.haveBase = haveBase /\ m.delta = WriteDeltaDict(s, base)
  BY DEF ClientInfoMsg
<1>2. WriteDeltaDict(s, base) \in Deltas
  BY WriteIs
<1>3. m \in Infos /\ m \in Msgs
  BY <1>2 DEF Msgs, DownMsgs, Infos, ClientInfoMsg
<1>4. PICK t : t = After(q, a) /\ t \in Dict
  BY AfterType
<1>5. After(Append(q, m), a) = ReadMsg(m, t)
  BY <1>3, <1>4, AfterAppend
<1>6. ReadMsg(m, t) = ReadDeltaDict(m.delta, IF haveBase THEN t ELSE EmptyDict)
  BY <1>1, <1>3, <1>4, ReadMsgIs
<1>7. (IF haveBase THEN t ELSE EmptyDict) = base
  BY <1>4
<1>8. ReadDeltaDict(WriteDeltaDict(s, base), base) = s
  BY RoundTrip, DictIs
<1> QED BY <1>1, <1>3, <1>5, <1>6, <1>7, <1>8

-----------------------------------------------------------------------------
(* The inductive invariant *)

States == {"SCS_PUREWAIT", "SCS_CONNECTED", "SCS_INGAME"}

Types ==
  /\ pure \in BOOLEAN
  /\ gameInitId \in Nat
  /\ clientState \in [Client -> States]
  /\ userInfo \in Dict
  /\ down \in [Client -> Seq(DownMsgs)]
  /\ myGameInitId \in [Client -> Nat]
  /\ copy \in [Client -> Dict]
  /\ cvars \in [Key -> Value]
  /\ up \in [Client -> Seq(UpMsgs)]

\* What a client has when it has read what is on its way to it.
Caught(c) == After(down[c], copy[c])

Heard(c) == Hears(down[c], myGameInitId[c], gameInitId)

\* Where the server takes a client to be in the game, the client is.
Stands(c) ==
  /\ clientState[c] = "SCS_INGAME" => myGameInitId[c] = gameInitId
  /\ clientState[c] = "SCS_PUREWAIT" => pure
  /\ pure /\ clientState[c] = "SCS_CONNECTED" => myGameInitId[c] = gameInitId

Placed(c) ==
  /\ Ahead(down[c], myGameInitId[c], gameInitId)
  /\ Behind(up[c], myGameInitId[c])
  /\ Stands(c)

Games == \A c \in Client : Placed(c)

\* Before the player has passed the pure check nobody has heard of the player.
Unheard ==
  ~late /\ clientState[Player] = "SCS_PUREWAIT" =>
    /\ userInfo = EmptyDict
    /\ \A c \in Observers : Heard(c) => Caught(c) = EmptyDict

Observed ==
  ~late => \A c \in Observers : clientState[c] = "SCS_INGAME" => Caught(c) = userInfo

Agreed ==
  ~crossed /\ ~late /\ Heard(Player) =>
    Level(down[Player], copy[Player], up[Player], userInfo, myGameInitId[Player], gameInitId)

\* The player in the game has answered ENTERGAME with the whole info, or will.
Entered ==
  ~crossed /\ ~late /\ clientState[Player] = "SCS_INGAME" =>
    Holds(down[Player], "ENTERGAME") \/ DOMAIN Caught(Player) = Key

Shown == ~modified => \A k \in DOMAIN copy[Player] : cvars[k] = copy[Player][k]

IInv == Types /\ Games /\ Unheard /\ Observed /\ Agreed /\ Entered /\ Shown

LEMMA TypesOf ==
  ASSUME Types, NEW c \in Client
  PROVE  /\ down[c] \in Seq(DownMsgs) /\ down[c] \in Seq(Msgs)
         /\ up[c] \in Seq(UpMsgs) /\ up[c] \in Seq(Msgs)
         /\ copy[c] \in Dict /\ myGameInitId[c] \in Nat /\ clientState[c] \in States
         /\ Caught(c) \in Dict
<1>1. /\ down[c] \in Seq(DownMsgs) /\ up[c] \in Seq(UpMsgs)
      /\ copy[c] \in Dict /\ myGameInitId[c] \in Nat /\ clientState[c] \in States
  BY DEF Types
<1>2. down[c] \in Seq(Msgs) /\ up[c] \in Seq(Msgs)
  <2>1. \A S, T : S \subseteq T => Seq(S) \subseteq Seq(T)
    OBVIOUS
  <2>2. DownMsgs \subseteq Msgs /\ UpMsgs \subseteq Msgs
    BY DEF Msgs
  <2> QED BY <1>1, <2>1, <2>2
<1> QED BY <1>1, <1>2, AfterType DEF Caught

LEMMA ClientsAre ==
  /\ Player \in Client /\ Observers \subseteq Client
  /\ \A c \in Client : c \in Observers <=> c # Player
BY UserInfoAssumption DEF Client

\* What does not disturb what client c hears.
Undisturbed(c) == Heard(c)' => Heard(c) /\ Caught(c)' = Caught(c)

LEMMA ObserversStay ==
  ASSUME Types, Games, Unheard, Observed, UNCHANGED <<userInfo, late>>,
         clientState'[Player] = "SCS_PUREWAIT" => clientState[Player] = "SCS_PUREWAIT",
         \A c \in Observers : /\ Undisturbed(c)
                              /\ clientState'[c] = "SCS_INGAME" =>
                                   clientState[c] = "SCS_INGAME" /\ Heard(c)'
  PROVE  Unheard' /\ Observed'
<1>1. Unheard'
  BY DEF Unheard, Undisturbed
<1>2. Observed'
  BY DEF Observed, Undisturbed
<1> QED BY <1>1, <1>2

\* Nothing happens to the player.
LEMMA PlayerStays ==
  ASSUME Types, Agreed, Entered, Shown,
         UNCHANGED <<userInfo, late, crossed, gameInitId, cvars, modified>>,
         down'[Player] = down[Player], up'[Player] = up[Player],
         copy'[Player] = copy[Player], myGameInitId'[Player] = myGameInitId[Player],
         clientState'[Player] = "SCS_INGAME" => clientState[Player] = "SCS_INGAME"
  PROVE  Agreed' /\ Entered' /\ Shown'
<1>1. (Heard(Player)' <=> Heard(Player)) /\ Caught(Player)' = Caught(Player)
  BY DEF Heard, Caught
<1>2. Agreed'
  BY <1>1 DEF Agreed
<1>3. Entered'
  BY <1>1 DEF Entered
<1>4. Shown'
  BY DEF Shown
<1> QED BY <1>2, <1>3, <1>4

LEMMA PlacedStays ==
  ASSUME NEW c \in Client, Placed(c), UNCHANGED <<gameInitId, pure>>,
         down'[c] = down[c], up'[c] = up[c], myGameInitId'[c] = myGameInitId[c],
         clientState'[c] = clientState[c]
  PROVE  Placed(c)'
BY DEF Placed, Stands

-----------------------------------------------------------------------------
(* A client reads *)

\* All that happens when client c reads a message, but for the player's cvars.
Takes(c) ==
  LET m == Head(down[c])
  IN  /\ down[c] # <<>>
      /\ down' = [down EXCEPT ![c] = Tail(@)]
      /\ m.kind # "ENTERGAME"
      /\ copy' = [copy EXCEPT ![c] = ReadMsg(m, @)]
      /\ myGameInitId' = IF m.kind = "GAMEINIT"
                           THEN [myGameInitId EXCEPT ![c] = m.game] ELSE myGameInitId
      /\ \/ up' = up
         \/ up' = [up EXCEPT ![c] = Append(@, PureMsg(myGameInitId[c]))]
      /\ UNCHANGED <<pure, gameInitId, clientState, userInfo, late, crossed>>

LEMMA TakesKeeps ==
  ASSUME IInv, NEW c \in Client, Takes(c), cvars' \in [Key -> Value], Shown'
  PROVE  IInv'
<1> DEFINE q == down[c]
           m == Head(down[c])
           now == myGameInitId'[c]
<1>0. Types /\ Games /\ Unheard /\ Observed /\ Agreed /\ Entered /\ Shown
  BY DEF IInv
<1>1. /\ q \in Seq(DownMsgs) /\ q \in Seq(Msgs) /\ copy[c] \in Dict
      /\ up[c] \in Seq(UpMsgs) /\ myGameInitId[c] \in Nat /\ gameInitId \in Nat
      /\ q # <<>>
  BY <1>0, TypesOf DEF Takes, Types
<1>2. Placed(c)
  BY <1>0 DEF Games
<1>3. /\ m \in DownMsgs /\ m \in Msgs /\ Tail(q) \in Seq(DownMsgs) /\ Tail(q) \in Seq(Msgs)
      /\ ReadMsg(m, copy[c]) \in Dict
  <2>1. m \in DownMsgs /\ Tail(q) \in Seq(DownMsgs)
    BY <1>1
  <2>2. m \in Msgs /\ Tail(q) \in Seq(Msgs)
    BY <1>1, QueueShrinks
  <2> QED BY <1>1, <2>1, <2>2, ReadMsgIs
<1>4. /\ down'[c] = Tail(q) /\ copy'[c] = ReadMsg(m, copy[c])
      /\ \A d \in Client : d # c => down'[d] = down[d] /\ copy'[d] = copy[d]
                                    /\ up'[d] = up[d] /\ myGameInitId'[d] = myGameInitId[d]
  BY <1>0 DEF Takes, Types
<1>5. /\ m.kind # "GAMEINIT" => now = myGameInitId[c]
      /\ m.kind = "GAMEINIT" => now = m.game
  BY <1>0 DEF Takes, Types
<1>6. PureMsg(myGameInitId[c]) \in UpMsgs /\ Idle(PureMsg(myGameInitId[c]))
  BY <1>1 DEF PureMsg, UpMsgs, Idle
<1>7. up'[c] = up[c] \/ up'[c] = Append(up[c], PureMsg(myGameInitId[c]))
  BY <1>0 DEF Takes, Types
<1>8. m.kind = "GAMEINIT" => m.game \in Nat /\ myGameInitId[c] < m.game
  BY <1>1, <1>2, AheadShrinks DEF Placed
<1>9. now \in Nat /\ myGameInitId[c] <= now
  BY <1>1, <1>5, <1>8
<1>10. Types'
  <2>1. down' \in [Client -> Seq(DownMsgs)] /\ copy' \in [Client -> Dict]
    BY <1>0, <1>3 DEF Takes, Types
  <2>2. myGameInitId' \in [Client -> Nat]
    BY <1>0, <1>8 DEF Takes, Types
  <2>3. up' \in [Client -> Seq(UpMsgs)]
    <3>1. Append(up[c], PureMsg(myGameInitId[c])) \in Seq(UpMsgs)
      BY <1>1, <1>6
    <3>2. up \in [Client -> Seq(UpMsgs)]
      BY <1>0 DEF Types
    <3>3. up' = up \/ up' = [up EXCEPT ![c] = Append(up[c], PureMsg(myGameInitId[c]))]
      BY DEF Takes
    <3> QED BY <3>1, <3>2, <3>3
  <2> QED BY <1>0, <2>1, <2>2, <2>3 DEF Takes, Types
<1>11. /\ Ahead(Tail(q), now, gameInitId)
       /\ Hears(Tail(q), now, gameInitId) => Heard(c)
  BY <1>1, <1>2, <1>5, AheadShrinks DEF Placed, Heard
<1>12. Caught(c)' = Caught(c)
  BY <1>1, <1>4, AfterTail DEF Caught
<1>13. Undisturbed(c)
  BY <1>4, <1>11, <1>12 DEF Undisturbed, Heard, Takes
<1>14. Games'
  <2>1. Placed(c)'
    <3>1. Behind(up'[c], now)
      <4>1. Behind(up'[c], myGameInitId[c])
        <5>1. PureMsg(myGameInitId[c]).game <= myGameInitId[c]
          BY <1>1 DEF PureMsg
        <5> QED BY <1>1, <1>2, <1>6, <1>7, <5>1, BehindMoves DEF Placed
      <4>2. up'[c] \in Seq(UpMsgs)
        BY <1>10 DEF Types
      <4> QED BY <1>1, <1>9, <4>1, <4>2, BehindMoves
    <3>2. myGameInitId[c] = gameInitId => now = gameInitId
      <4>1. now <= gameInitId
        BY <1>11 DEF Ahead
      <4> QED BY <1>1, <1>9, <4>1
    <3> QED BY <1>2, <1>4, <1>11, <3>1, <3>2 DEF Placed, Stands, Takes
  <2>2. ASSUME NEW d \in Client, d # c PROVE Placed(d)'
    <3>1. Placed(d) /\ UNCHANGED <<gameInitId, pure, clientState>>
      BY <1>0 DEF Games, Takes
    <3> QED BY <1>4, <2>2, <3>1, PlacedStays
  <2> QED BY <2>1, <2>2 DEF Games
<1>15. \A d \in Client : Undisturbed(d)
  <2>1. ASSUME NEW d \in Client, d # c PROVE Undisturbed(d)
    BY <1>4, <2>1 DEF Undisturbed, Heard, Caught, Takes
  <2> QED BY <1>13, <2>1
<1>16. Unheard' /\ Observed'
  <2>1. UNCHANGED <<userInfo, late, clientState, gameInitId>>
    BY DEF Takes
  <2>2. ASSUME NEW d \in Observers, clientState'[d] = "SCS_INGAME"
        PROVE  Heard(d)'
    <3>1. Placed(d)'
      BY <1>14, ClientsAre DEF Games
    <3> QED BY <2>2, <3>1 DEF Placed, Stands, Heard, Hears
  <2> QED BY <1>0, <1>15, <2>1, <2>2, ClientsAre, ObserversStay
<1>17. Agreed' /\ Entered'
  <2>1. UNCHANGED <<userInfo, late, crossed, gameInitId, clientState>>
    BY DEF Takes
  <2>2. CASE c # Player
    <3>1. /\ down'[Player] = down[Player] /\ up'[Player] = up[Player]
          /\ copy'[Player] = copy[Player] /\ myGameInitId'[Player] = myGameInitId[Player]
      BY <1>4, <2>2, ClientsAre
    <3>2. (Heard(Player)' <=> Heard(Player)) /\ Caught(Player)' = Caught(Player)
      BY <2>1, <3>1 DEF Heard, Caught
    <3> QED BY <1>0, <2>1, <3>1, <3>2 DEF Agreed, Entered
  <2>3. CASE c = Player
    <3>1. Agreed'
      <4>1. SUFFICES ASSUME ~crossed, ~late, Heard(c)'
                     PROVE  Level(Tail(q), ReadMsg(m, copy[c]), up'[c], userInfo, now, gameInitId)
        BY <1>4, <2>1, <2>3 DEF Agreed
      <4>2. Level(q, copy[c], up[c], userInfo, myGameInitId[c], gameInitId)
        BY <1>0, <1>13, <2>3, <4>1 DEF Agreed, Undisturbed
      <4>3. Level(Tail(q), ReadMsg(m, copy[c]), up[c], userInfo, now, gameInitId)
        BY <1>1, <1>2, <1>5, <4>2, LevelRead DEF Placed
      <4>4. userInfo \in Dict
        BY <1>0 DEF Types
      <4> QED BY <1>1, <1>3, <1>6, <1>7, <4>3, <4>4, LevelIdle
    <3>2. Entered'
      <4>1. Holds(q, "ENTERGAME") => Holds(Tail(q), "ENTERGAME")
        BY <1>1, QueueShrinks DEF Takes
      <4> QED BY <1>0, <1>4, <1>12, <2>1, <2>3, <4>1 DEF Entered
    <3> QED BY <3>1, <3>2
  <2> QED BY <2>2, <2>3
<1> QED BY <1>10, <1>14, <1>16, <1>17 DEF IInv

LEMMA HeadOfDown ==
  ASSUME Types, NEW c \in Client, down[c] # <<>>
  PROVE  /\ Head(down[c]) \in DownMsgs /\ Head(down[c]) \in Msgs
         /\ ReadMsg(Head(down[c]), copy[c]) \in Dict
<1>1. down[c] \in Seq(DownMsgs) /\ copy[c] \in Dict
  BY TypesOf
<1>2. Head(down[c]) \in DownMsgs
  BY <1>1
<1>3. Head(down[c]) \in Msgs
  BY <1>2 DEF Msgs
<1> QED BY <1>1, <1>2, <1>3, ReadMsgIs

LEMMA GameInitKeeps ==
  ASSUME IInv, NEW c \in Client, ProcessGameInit(c)
  PROVE  IInv'
<1> DEFINE m == Head(down[c])
<1>0. Types /\ Shown /\ down[c] # <<>> /\ m.kind = "GAMEINIT"
  BY DEF IInv, ProcessGameInit, ToClient
<1>1. ReadMsg(m, copy[c]) = EmptyDict
  BY <1>0, HeadOfDown, TypesOf, ReadMsgIs
<1>2. copy' = [copy EXCEPT ![c] = ReadMsg(m, copy[c])]
  BY <1>1 DEF ProcessGameInit
<1>3. myGameInitId' = [myGameInitId EXCEPT ![c] = m.game]
  BY DEF ProcessGameInit
<1>4. Takes(c)
  BY <1>0, <1>2, <1>3 DEF ProcessGameInit, ToClient, Takes
<1>5. Shown'
  <2>1. copy'[Player] = copy[Player] \/ copy'[Player] = EmptyDict
    BY <1>0, <1>1, <1>2, ClientsAre DEF Types
  <2>2. UNCHANGED <<cvars, modified>>
    BY DEF ProcessGameInit
  <2> QED BY <1>0, <2>1, <2>2, EmptyDictIs DEF Shown
<1>6. cvars' \in [Key -> Value]
  BY <1>0 DEF ProcessGameInit, Types
<1> QED BY <1>4, <1>5, <1>6, TakesKeeps

LEMMA PureKeeps ==
  ASSUME IInv, NEW c \in Client, ProcessReliableMessagePure(c)
  PROVE  IInv'
<1> DEFINE m == Head(down[c])
<1>0. Types /\ Shown /\ down[c] # <<>> /\ m.kind = "PURE"
  BY DEF IInv, ProcessReliableMessagePure, ToClient
<1>1. ReadMsg(m, copy[c]) = copy[c]
  BY <1>0, HeadOfDown, TypesOf, ReadMsgIs DEF Idle
<1>2. copy' = [copy EXCEPT ![c] = ReadMsg(m, copy[c])]
  <2>1. copy' = copy
    BY DEF ProcessReliableMessagePure
  <2> QED BY <1>0, <1>1, <2>1 DEF Types
<1>3. /\ myGameInitId' = myGameInitId
      /\ up' = up \/ up' = [up EXCEPT ![c] = Append(@, PureMsg(myGameInitId[c]))]
  BY DEF ProcessReliableMessagePure
<1>4. Takes(c)
  BY <1>0, <1>2, <1>3 DEF ProcessReliableMessagePure, ToClient, Takes
<1>5. Shown'
  BY <1>0 DEF ProcessReliableMessagePure, Shown
<1>6. cvars' \in [Key -> Value]
  BY <1>0 DEF ProcessReliableMessagePure, Types
<1> QED BY <1>4, <1>5, <1>6, TakesKeeps

LEMMA ClientInfoKeeps ==
  ASSUME IInv, NEW c \in Client, ProcessClientInfo(c)
  PROVE  IInv'
<1> DEFINE m == Head(down[c])
           info == ReadDeltaDict(m.delta, IF m.haveBase THEN copy[c] ELSE EmptyDict)
<1>0. Types /\ Shown /\ down[c] # <<>> /\ m.kind = "CLIENTINFO"
  BY DEF IInv, ProcessClientInfo, ToClient
<1>1. ReadMsg(m, copy[c]) = info /\ info \in Dict
  BY <1>0, HeadOfDown, TypesOf, ReadMsgIs
<1>2. /\ copy' = [copy EXCEPT ![c] = info]
      /\ c = Player => /\ cvars' = [k \in Key |-> IF k \in DOMAIN info THEN info[k]
                                                                      ELSE cvars[k]]
                       /\ modified' = FALSE
      /\ c # Player => UNCHANGED <<cvars, modified>>
  BY DEF ProcessClientInfo
<1> HIDE DEF info
<1>3. copy' = [copy EXCEPT ![c] = ReadMsg(m, copy[c])]
  BY <1>1, <1>2
<1>4. Takes(c)
  BY <1>0, <1>3 DEF ProcessClientInfo, ToClient, Takes
<1>5. DOMAIN info \subseteq Key /\ \A k \in DOMAIN info : info[k] \in Value
  BY <1>1, DictIs
<1>6. CASE c = Player
  <2>1. copy'[Player] = info
    BY <1>0, <1>2, <1>6 DEF Types
  <2>2. \A k \in DOMAIN info : cvars'[k] = info[k]
    BY <1>2, <1>5, <1>6
  <2>3. cvars' \in [Key -> Value]
    BY <1>0, <1>2, <1>5, <1>6 DEF Types
  <2>4. Shown'
    BY <2>1, <2>2 DEF Shown
  <2> QED BY <1>4, <2>3, <2>4, TakesKeeps
<1>7. CASE c # Player
  <2>1. copy'[Player] = copy[Player] /\ UNCHANGED <<cvars, modified>>
    BY <1>0, <1>2, <1>7, ClientsAre DEF Types
  <2>2. Shown'
    BY <1>0, <2>1 DEF Shown
  <2>3. cvars' \in [Key -> Value]
    BY <1>0, <2>1 DEF Types
  <2> QED BY <1>4, <2>2, <2>3, TakesKeeps
<1> QED BY <1>6, <1>7

-----------------------------------------------------------------------------
(* The player's client sends *)

\* What ENTERGAME and RunFrame have in common.
Sends ==
  /\ UNCHANGED <<pure, gameInitId, clientState, userInfo, late, myGameInitId, cvars>>
  /\ \/ down' = down
     \/ /\ down[Player] # <<>>
        /\ Head(down[Player]).kind = "ENTERGAME"
        /\ down' = [down EXCEPT ![Player] = Tail(@)]
  /\ SendUserInfoToServer

LEMMA SendsKeeps ==
  ASSUME IInv, Sends
  PROVE  IInv'
<1> DEFINE q == down[Player]
           r == down'[Player]
           a == copy[Player]
           m == ClientInfoMsg(TRUE, WriteDeltaDict(cvars, a))
<1>0. Types /\ Games /\ Unheard /\ Observed /\ Agreed /\ Entered
  BY DEF IInv
<1>1. /\ q \in Seq(DownMsgs) /\ q \in Seq(Msgs) /\ a \in Dict
      /\ up[Player] \in Seq(UpMsgs)
      /\ myGameInitId[Player] \in Nat /\ gameInitId \in Nat
      /\ userInfo \in Dict /\ cvars \in [Key -> Value]
  BY <1>0, ClientsAre, TypesOf DEF Types
<1>2. Placed(Player)
  BY <1>0, ClientsAre DEF Games
<1>3. UNCHANGED <<pure, gameInitId, clientState, userInfo, late, myGameInitId, cvars>>
  BY DEF Sends
<1>4. \/ down' = down
      \/ /\ q # <<>> /\ Head(q).kind = "ENTERGAME"
         /\ down' = [down EXCEPT ![Player] = Tail(q)]
  BY DEF Sends
<1>5. /\ r = q \/ (q # <<>> /\ Head(q).kind = "ENTERGAME" /\ r = Tail(q))
      /\ \A d \in Client : d # Player => down'[d] = down[d]
  BY <1>0, <1>4, ClientsAre DEF Types
<1>6. /\ r \in Seq(DownMsgs) /\ r \in Seq(Msgs)
      /\ Ahead(r, myGameInitId[Player], gameInitId)
      /\ Hears(r, myGameInitId[Player], gameInitId) => Heard(Player)
      /\ NoInfo(q) => NoInfo(r)
      /\ After(r, a) = After(q, a)
  <2>1. CASE r = q
    BY <1>1, <1>2, <2>1 DEF Placed, Heard
  <2>2. CASE q # <<>> /\ Head(q).kind = "ENTERGAME" /\ r = Tail(q)
    <3>1. r \in Seq(DownMsgs) /\ r \in Seq(Msgs) /\ Head(q) \in Msgs
      BY <1>1, <2>2, QueueShrinks
    <3>2. ReadMsg(Head(q), a) = a
      BY <1>1, <2>2, <3>1, ReadMsgIs DEF Idle
    <3>3. After(r, a) = After(q, a)
      BY <1>1, <2>2, <3>2, AfterTail
    <3>4. NoInfo(q) => NoInfo(r)
      BY <1>1, <2>2, QueueShrinks DEF NoInfo
    <3>5. /\ Ahead(r, myGameInitId[Player], gameInitId)
          /\ Hears(r, myGameInitId[Player], gameInitId) => Heard(Player)
      BY <1>1, <1>2, <2>2, AheadShrinks DEF Placed, Heard
    <3> QED BY <3>1, <3>3, <3>4, <3>5
  <2> QED BY <1>5, <2>1, <2>2
<1>7. m \in UpMsgs /\ m.kind = "CLIENTINFO"
  <2>1. WriteDeltaDict(cvars, a) \in Deltas
    BY <1>1, WholeIs, WriteIs
  <2> QED BY <2>1 DEF UpMsgs, ClientInfoMsg
<1>8. /\ up' = [up EXCEPT ![Player] = Append(@, m)]
      /\ copy' = [copy EXCEPT ![Player] = cvars]
      /\ crossed' = (crossed \/ Holds(r, "CLIENTINFO"))
  BY DEF Sends, SendUserInfoToServer, CopySent
<1>9. /\ up'[Player] = Append(up[Player], m) /\ copy'[Player] = cvars
      /\ \A d \in Client : d # Player => up'[d] = up[d] /\ copy'[d] = copy[d]
  BY <1>0, <1>8, ClientsAre DEF Types
<1>10. Types'
  <2>1. down' \in [Client -> Seq(DownMsgs)]
    <3>1. down \in [Client -> Seq(DownMsgs)]
      BY <1>0 DEF Types
    <3>2. q # <<>> => Tail(q) \in Seq(DownMsgs)
      BY <1>1
    <3> QED BY <1>4, <3>1, <3>2
  <2>2. copy' \in [Client -> Dict]
    BY <1>0, <1>1, <1>8, WholeIs DEF Types
  <2>3. up' \in [Client -> Seq(UpMsgs)]
    <3>1. Append(up[Player], m) \in Seq(UpMsgs)
      BY <1>1, <1>7, AppendProperties
    <3>2. up \in [Client -> Seq(UpMsgs)]
      BY <1>0 DEF Types
    <3> QED BY <1>8, <3>1, <3>2
  <2> QED BY <1>0, <1>3, <2>1, <2>2, <2>3 DEF Types
<1>11. Games'
  <2>1. Placed(Player)'
    <3>1. Behind(up'[Player], myGameInitId[Player])
      BY <1>1, <1>2, <1>7, <1>9, BehindMoves DEF Placed
    <3> QED BY <1>2, <1>3, <1>6, <3>1 DEF Placed, Stands
  <2>2. ASSUME NEW d \in Client, d # Player PROVE Placed(d)'
    <3>1. Placed(d) /\ myGameInitId'[d] = myGameInitId[d] /\ clientState'[d] = clientState[d]
      BY <1>0, <1>3 DEF Games
    <3> QED BY <1>3, <1>5, <1>9, <2>2, <3>1, PlacedStays
  <2> QED BY <2>1, <2>2 DEF Games
<1>12. Unheard' /\ Observed'
  <2>1. ASSUME NEW d \in Observers
        PROVE  /\ Undisturbed(d)
               /\ clientState'[d] = "SCS_INGAME" => clientState[d] = "SCS_INGAME" /\ Heard(d)'
    <3>1. d \in Client /\ d # Player
      BY ClientsAre
    <3>2. down'[d] = down[d] /\ copy'[d] = copy[d]
      BY <1>5, <1>9, <3>1
    <3>3. Placed(d)'
      BY <1>11, <3>1 DEF Games
    <3> QED BY <1>3, <3>2, <3>3 DEF Undisturbed, Heard, Caught, Placed, Stands, Hears
  <2> QED BY <1>0, <1>3, <2>1, ObserversStay
<1>13. ASSUME ~crossed' PROVE NoInfo(r) /\ ~crossed
  BY <1>8, <1>13 DEF NoInfo
<1>14. Agreed'
  <2>1. SUFFICES ASSUME ~crossed', ~late, Heard(Player)'
                 PROVE  Level(r, cvars, Append(up[Player], m), userInfo,
                              myGameInitId[Player], gameInitId)
    BY <1>3, <1>9 DEF Agreed
  <2>2. Hears(r, myGameInitId[Player], gameInitId) /\ Heard(Player)
    BY <1>3, <1>6, <2>1 DEF Heard
  <2>3. Level(q, a, up[Player], userInfo, myGameInitId[Player], gameInitId)
    BY <1>0, <1>13, <2>1, <2>2 DEF Agreed
  <2>4. Level(r, a, up[Player], userInfo, myGameInitId[Player], gameInitId)
    BY <1>6, <2>3 DEF Level
  <2> QED BY <1>1, <1>6, <1>13, <2>1, <2>2, <2>4, LevelSent
<1>15. Entered'
  <2>1. SUFFICES ASSUME ~crossed', ~late, clientState[Player] = "SCS_INGAME"
                 PROVE  DOMAIN After(r, cvars) = Key
    BY <1>3, <1>9 DEF Entered, Caught
  <2>2. NoInit(r)
    BY <1>1, <1>2, <1>6, <2>1, AheadHere DEF Placed, Stands
  <2>3. After(r, cvars) = cvars
    BY <1>1, <1>6, <1>13, <2>1, <2>2, WholeIs, AfterWhat
  <2> QED BY <1>1, <2>3
<1>16. Shown'
  BY <1>3, <1>9 DEF Shown
<1> QED BY <1>10, <1>11, <1>12, <1>14, <1>15, <1>16 DEF IInv

LEMMA EnterGameKeeps ==
  ASSUME IInv, ProcessEnterGame
  PROVE  IInv'
<1>1. Sends
  BY DEF ProcessEnterGame, ToClient, Sends
<1> QED BY <1>1, SendsKeeps

LEMMA SendModifiedKeeps ==
  ASSUME IInv, SendModified
  PROVE  IInv'
<1>1. Sends
  BY DEF SendModified, serverVars, Sends
<1> QED BY <1>1, SendsKeeps

-----------------------------------------------------------------------------
(* The server sends infos *)

\* What the server holds is whole when what the player will have is.
LEMMA WholeAtServer ==
  ASSUME NEW q \in Seq(Msgs), NEW a \in Dict, NEW u \in Seq(UpMsgs), NEW s \in Dict,
         NEW mine \in Nat, NEW last \in Nat, Ahead(q, mine, last), mine = last,
         Level(q, a, u, s, mine, last), NoInfo(u), DOMAIN After(q, a) = Key
  PROVE  DOMAIN s = Key
<1>1. CASE After(q, a) = s
  BY <1>1
<1>2. CASE NoInfo(q) /\ After(u, s) = a
  <2>1. After(q, a) = a
    BY <1>2, AheadHere, AfterWhat
  <2>2. After(u, s) = s
    BY UpIs, AfterWhat
  <2> QED BY <1>2, <2>1, <2>2
<1>3. CASE After(q, a) = EmptyDict
  <2>1. Key = {}
    BY <1>3, EmptyDictIs
  <2> QED BY <2>1, DictIs
<1> QED BY <1>1, <1>2, <1>3 DEF Level

LEMMA BroadcastKeeps ==
  ASSUME IInv, NEW s \in Dict, NEW info \in Dict, NEW sendToAll \in BOOLEAN,
         info = s \/ \E f \in Forced : info = With(s, f),
         SendUserInfoBroadcast(info, sendToAll),
         UNCHANGED <<pure, gameInitId, clientState, myGameInitId, copy, cvars, modified>>,
         ~late' => ~late /\ clientState[Player] # "SCS_PUREWAIT",
         \/ up' = up /\ s = userInfo /\ sendToAll
         \/ /\ up[Player] # <<>> /\ Head(up[Player]).kind = "CLIENTINFO"
            /\ up' = [up EXCEPT ![Player] = Tail(@)]
            /\ s = ReadDeltaDict(Head(up[Player]).delta, userInfo)
            /\ info = s /\ ~sendToAll
  PROVE  IInv'
<1> DEFINE Whole(new) == sendToAll \/ new # info
           Base(new) == IF Whole(new) THEN EmptyDict ELSE userInfo
           Msg(new) == ClientInfoMsg(~Whole(new), WriteDeltaDict(new, Base(new)))
           Told(new) == {c \in Client : /\ clientState[c] \in {"SCS_CONNECTED", "SCS_INGAME"}
                                        /\ Whole(new) \/ c # Player}
<1>0. Types /\ Games /\ Unheard /\ Observed /\ Agreed /\ Entered /\ Shown
  BY DEF IInv
<1>1. PICK new \in SetUserInfo(info) :
         /\ down' = [c \in Client |-> IF c \in Told(new) THEN Append(down[c], Msg(new))
                                                         ELSE down[c]]
         /\ userInfo' = new
         /\ crossed' = (crossed \/ (Whole(new) /\ Holds(up'[Player], "CLIENTINFO")))
  BY DEF SendUserInfoBroadcast, BroadcastBase
<1>2. PICK whole, base, m, told :
         whole = Whole(new) /\ base = Base(new) /\ m = Msg(new) /\ told = Told(new)
  OBVIOUS
<1>3. /\ whole \in BOOLEAN /\ (whole <=> sendToAll \/ new # info)
      /\ base = IF whole THEN EmptyDict ELSE userInfo
      /\ m = ClientInfoMsg(~whole, WriteDeltaDict(new, base))
      /\ told = {c \in Client : /\ clientState[c] \in {"SCS_CONNECTED", "SCS_INGAME"}
                                /\ whole \/ c # Player}
  BY <1>2
<1>4. /\ down' = [c \in Client |-> IF c \in told THEN Append(down[c], m) ELSE down[c]]
      /\ userInfo' = new
      /\ crossed' = (crossed \/ (whole /\ Holds(up'[Player], "CLIENTINFO")))
  BY <1>1, <1>2
<1> HIDE DEF Whole, Base, Msg, Told
<1>5. new = info \/ \E f \in Forced : new = With(info, f)
  BY <1>1 DEF SetUserInfo
<1>6. new \in Dict /\ base \in Dict /\ userInfo \in Dict
  BY <1>0, <1>3, <1>5, WithIs, EmptyDictIs DEF Types
<1>7. ASSUME NEW c \in Client
      PROVE  /\ m \in Infos /\ m \in Msgs /\ m \in DownMsgs
             /\ m.kind = "CLIENTINFO"
             /\ whole \/ Caught(c) = userInfo => After(Append(down[c], m), copy[c]) = new
  <2>1. WriteDeltaDict(new, base) \in Deltas
    BY <1>6, WriteIs
  <2>2. m \in Infos /\ m.kind = "CLIENTINFO"
    BY <1>3, <2>1 DEF Infos, ClientInfoMsg
  <2>3. m \in Msgs /\ m \in DownMsgs
    BY <2>2 DEF Msgs, DownMsgs
  <2>4. down[c] \in Seq(Msgs) /\ copy[c] \in Dict
    BY <1>0, TypesOf
  <2>5. ASSUME whole \/ Caught(c) = userInfo
        PROVE  After(Append(down[c], m), copy[c]) = new
    <3>1. PICK have : have = ~whole /\ have \in BOOLEAN
      BY <1>3
    <3>2. (have => After(down[c], copy[c]) = base) /\ (~have => base = EmptyDict)
      BY <1>3, <2>5, <3>1 DEF Caught
    <3>3. m = ClientInfoMsg(have, WriteDeltaDict(new, base))
      BY <1>3, <3>1
    <3>4. PICK q, a : q = down[c] /\ a = copy[c]
      OBVIOUS
    <3>5. q \in Seq(Msgs) /\ a \in Dict /\ new \in Dict /\ base \in Dict /\ have \in BOOLEAN
      BY <1>6, <2>4, <3>1, <3>4
    <3>6. (have => After(q, a) = base) /\ (~have => base = EmptyDict)
      BY <3>2, <3>4
    <3>7. After(Append(q, m), a) = new
      BY <3>3, <3>5, <3>6, WholeSent
    <3> QED BY <3>4, <3>7
  <2> QED BY <2>2, <2>3, <2>5
<1>8. \A c \in Client : down'[c] = IF c \in told THEN Append(down[c], m) ELSE down[c]
  BY <1>4
<1>9. UNCHANGED <<pure, gameInitId, clientState, myGameInitId, copy, cvars, modified>>
  OBVIOUS
<1>10. /\ up' \in [Client -> Seq(UpMsgs)]
       /\ \A c \in Client : Behind(up'[c], myGameInitId[c])
  <2>1. up \in [Client -> Seq(UpMsgs)] /\ Player \in Client
    BY <1>0, ClientsAre DEF Types
  <2>2. \A c \in Client : Behind(up[c], myGameInitId[c]) /\ myGameInitId[c] \in Nat
    BY <1>0, TypesOf DEF Games, Placed
  <2>3. CASE up' = up
    BY <2>1, <2>2, <2>3
  <2>4. CASE up[Player] # <<>> /\ up' = [up EXCEPT ![Player] = Tail(@)]
    <3>1. Tail(up[Player]) \in Seq(UpMsgs)
      BY <2>1, <2>4
    <3>2. Behind(Tail(up[Player]), myGameInitId[Player])
      BY <2>1, <2>2, <2>4, BehindMoves
    <3> QED BY <2>1, <2>2, <2>4, <3>1, <3>2
  <2> QED BY <2>3, <2>4
<1>11. Types'
  <2>1. down' \in [Client -> Seq(DownMsgs)]
    <3>1. \A c \in Client : down'[c] \in Seq(DownMsgs)
      <4>1. ASSUME NEW c \in Client PROVE down'[c] \in Seq(DownMsgs)
        <5>1. down[c] \in Seq(DownMsgs) /\ m \in DownMsgs
          BY <1>0, <1>7, TypesOf
        <5>2. Append(down[c], m) \in Seq(DownMsgs)
          BY <5>1, AppendProperties
        <5> QED BY <1>8, <5>1, <5>2
      <4> QED BY <4>1
    <3> QED BY <1>4, <3>1
  <2> QED BY <1>0, <1>4, <1>6, <1>9, <1>10, <2>1 DEF Types
<1>12. ASSUME NEW c \in Client
       PROVE  /\ Ahead(down'[c], myGameInitId[c], gameInitId)
              /\ Hears(down'[c], myGameInitId[c], gameInitId) => Heard(c)
  <2>1. /\ down[c] \in Seq(Msgs) /\ myGameInitId[c] \in Nat /\ gameInitId \in Nat
        /\ Ahead(down[c], myGameInitId[c], gameInitId)
    BY <1>0, TypesOf DEF Games, Placed, Types
  <2>2. m \in Msgs /\ m.kind # "GAMEINIT"
    BY <1>7
  <2>3. /\ Ahead(Append(down[c], m), myGameInitId[c], gameInitId)
        /\ Hears(Append(down[c], m), myGameInitId[c], gameInitId) => Heard(c)
    BY <2>1, <2>2, AheadGrows DEF Heard
  <2> QED BY <1>8, <2>1, <2>3 DEF Heard
<1>13. Games'
  <2>1. ASSUME NEW c \in Client PROVE Placed(c)'
    BY <1>0, <1>9, <1>10, <1>12 DEF Games, Placed, Stands
  <2> QED BY <2>1 DEF Games
<1>14. Unheard'
  BY <1>9 DEF Unheard
<1>15. Observed'
  <2>1. SUFFICES ASSUME ~late', NEW c \in Observers, clientState[c] = "SCS_INGAME"
                 PROVE  After(down'[c], copy[c]) = new
    BY <1>4, <1>9 DEF Observed, Caught
  <2>2. c \in Client /\ c # Player /\ c \in told
    BY <1>3, <2>1, ClientsAre
  <2>3. Caught(c) = userInfo
    BY <1>0, <2>1 DEF Observed
  <2> QED BY <1>7, <1>8, <2>2, <2>3
<1>16. ASSUME ~late', Heard(Player)', ~crossed
       PROVE  Level(down[Player], copy[Player], up'[Player], s, myGameInitId[Player], gameInitId)
  <2>1. Heard(Player)
    BY <1>9, <1>12, <1>16, ClientsAre DEF Heard
  <2>2. Level(down[Player], copy[Player], up[Player], userInfo, myGameInitId[Player], gameInitId)
    BY <1>0, <1>16, <2>1 DEF Agreed
  <2>3. CASE up' = up /\ s = userInfo
    BY <2>2, <2>3
  <2>4. CASE /\ up[Player] # <<>> /\ Head(up[Player]).kind = "CLIENTINFO"
             /\ up' = [up EXCEPT ![Player] = Tail(@)]
             /\ s = ReadDeltaDict(Head(up[Player]).delta, userInfo)
    <3>1. /\ down[Player] \in Seq(Msgs) /\ copy[Player] \in Dict
          /\ up[Player] \in Seq(UpMsgs) /\ myGameInitId[Player] \in Nat
          /\ gameInitId \in Nat
      BY <1>0, TypesOf, ClientsAre DEF Types
    <3>2. Ahead(down[Player], myGameInitId[Player], gameInitId)
      BY <1>0, ClientsAre DEF Games, Placed
    <3>3. up'[Player] = Tail(up[Player])
      BY <1>0, <2>4, ClientsAre DEF Types
    <3> QED BY <1>6, <2>2, <2>4, <3>1, <3>2, <3>3, LevelServed
  <2> QED BY <2>3, <2>4
<1>17. ASSUME ~late'
       PROVE  Player \in told <=> whole
  <2>1. clientState[Player] \in {"SCS_CONNECTED", "SCS_INGAME"}
    BY <1>0, <1>17, ClientsAre, TypesOf DEF States
  <2> QED BY <1>3, <2>1, ClientsAre
<1>19. ASSUME ~crossed' PROVE ~crossed /\ (whole => NoInfo(up'[Player]))
  BY <1>4, <1>19 DEF NoInfo
<1>20. Agreed'
  <2>1. SUFFICES ASSUME ~crossed', ~late', Heard(Player)'
                 PROVE  Level(down'[Player], copy[Player], up'[Player], new,
                              myGameInitId[Player], gameInitId)
    BY <1>4, <1>9 DEF Agreed
  <2>2. CASE whole
    <3>1. down'[Player] = Append(down[Player], m)
      BY <1>8, <1>17, <2>1, <2>2, ClientsAre
    <3>2. After(down'[Player], copy[Player]) = new
      BY <1>7, <2>2, <3>1, ClientsAre
    <3> QED BY <1>19, <2>1, <2>2, <3>2 DEF Level
  <2>3. CASE ~whole
    <3>1. down'[Player] = down[Player]
      BY <1>8, <1>17, <2>1, <2>3, ClientsAre
    <3>2. new = s
      BY <1>3, <2>3
    <3> QED BY <1>16, <1>19, <2>1, <3>1, <3>2
  <2> QED BY <1>3, <2>2, <2>3
<1>21. Entered'
  <2>1. SUFFICES ASSUME ~crossed', ~late', clientState[Player] = "SCS_INGAME"
                 PROVE  \/ Holds(down'[Player], "ENTERGAME")
                        \/ DOMAIN After(down'[Player], copy[Player]) = Key
    BY <1>9 DEF Entered, Caught
  <2>2. Holds(down[Player], "ENTERGAME") \/ DOMAIN Caught(Player) = Key
    BY <1>0, <1>19, <2>1 DEF Entered
  <2>3. down[Player] \in Seq(Msgs) /\ m \in Msgs
    BY <1>0, <1>7, ClientsAre, TypesOf
  <2>4. CASE Holds(down[Player], "ENTERGAME")
    <3>1. Holds(Append(down[Player], m), "ENTERGAME")
      BY <2>3, <2>4, QueueGrows
    <3> QED BY <1>8, <2>4, <3>1, ClientsAre
  <2>5. CASE DOMAIN Caught(Player) = Key /\ ~whole
    <3>1. down'[Player] = down[Player]
      BY <1>8, <1>17, <2>1, <2>5, ClientsAre
    <3> QED BY <2>5, <3>1 DEF Caught
  <2>6. CASE DOMAIN Caught(Player) = Key /\ whole
    <3>1. down'[Player] = Append(down[Player], m)
      BY <1>8, <1>17, <2>1, <2>6, ClientsAre
    <3>2. After(down'[Player], copy[Player]) = new
      BY <1>7, <2>6, <3>1, ClientsAre
    <3>3. myGameInitId[Player] = gameInitId /\ Heard(Player)'
      <4>1. myGameInitId[Player] = gameInitId
        BY <1>0, <2>1, ClientsAre DEF Games, Placed, Stands
      <4> QED BY <1>9, <4>1 DEF Heard, Hears
    <3>4. Level(down[Player], copy[Player], up'[Player], s, myGameInitId[Player], gameInitId)
      BY <1>16, <1>19, <2>1, <3>3
    <3>5. /\ copy[Player] \in Dict /\ up'[Player] \in Seq(UpMsgs)
          /\ myGameInitId[Player] \in Nat /\ gameInitId \in Nat
          /\ Ahead(down[Player], myGameInitId[Player], gameInitId)
      BY <1>0, <1>10, TypesOf, ClientsAre DEF Types, Games, Placed
    <3>6. NoInfo(up'[Player]) /\ DOMAIN After(down[Player], copy[Player]) = Key
      BY <1>19, <2>1, <2>6 DEF Caught
    <3>7. DOMAIN s = Key
      BY <2>3, <3>3, <3>4, <3>5, <3>6, WholeAtServer
    <3>8. DOMAIN info = Key
      BY <3>7, WithIs
    <3>9. DOMAIN new = Key
      BY <1>5, <3>8, WithIs
    <3> QED BY <3>2, <3>9
  <2> QED BY <1>3, <2>2, <2>4, <2>5, <2>6
<1>22. Shown'
  BY <1>0, <1>9 DEF Shown
<1> QED BY <1>11, <1>13, <1>14, <1>15, <1>20, <1>21, <1>22 DEF IInv

LEMMA UpdateUIKeeps ==
  ASSUME IInv, UpdateUI
  PROVE  IInv'
<1>1. PICK f \in Forced : SendUserInfoBroadcast(With(userInfo, f), TRUE)
  BY DEF UpdateUI
<1>2. userInfo \in Dict
  BY DEF IInv, Types
<1>3. PICK info : info = With(userInfo, f) /\ info \in Dict
  BY <1>1, <1>2, WithIs
<1>4. UNCHANGED <<pure, gameInitId, clientState, myGameInitId, copy, cvars, modified, late, up>>
  BY DEF UpdateUI, clientVars
<1>5. clientState[Player] # "SCS_PUREWAIT"
  BY DEF UpdateUI
<1>6. SendUserInfoBroadcast(info, TRUE)
  BY <1>1, <1>3
<1> QED BY <1>2, <1>3, <1>4, <1>5, <1>6, BroadcastKeeps

LEMMA ReceiveClientInfoKeeps ==
  ASSUME IInv, ReceiveClientInfo
  PROVE  IInv'
<1>1. /\ up[Player] # <<>> /\ Head(up[Player]).kind = "CLIENTINFO"
      /\ up' = [up EXCEPT ![Player] = Tail(@)]
      /\ SendUserInfoBroadcast(ReadDeltaDict(Head(up[Player]).delta, userInfo), FALSE)
      /\ late' = (late \/ clientState[Player] = "SCS_PUREWAIT")
      /\ UNCHANGED <<pure, gameInitId, clientState, myGameInitId, copy, cvars, modified>>
  BY DEF ReceiveClientInfo, FromClient
<1>2. userInfo \in Dict /\ up[Player] \in Seq(UpMsgs)
  BY ClientsAre, TypesOf DEF IInv, Types
<1>3. Head(up[Player]).delta \in Deltas
  <2>1. Head(up[Player]) \in UpMsgs
    BY <1>1, <1>2
  <2> QED BY <1>1, <2>1, MsgsAre DEF Msgs
<1>4. PICK info : info = ReadDeltaDict(Head(up[Player]).delta, userInfo) /\ info \in Dict
  BY <1>2, <1>3, ReadIs
<1>5. SendUserInfoBroadcast(info, FALSE)
  BY <1>1, <1>4
<1>6. ~late' => ~late /\ clientState[Player] # "SCS_PUREWAIT"
  BY <1>1
<1> QED BY <1>1, <1>4, <1>5, <1>6, BroadcastKeeps

-----------------------------------------------------------------------------
(* Steps that move no info *)

\* What is said of the messages on their way up, when one that holds no info is
\* read, lost or sent.
UpKeeps ==
  /\ up' \in [Client -> Seq(UpMsgs)]
  /\ \A c \in Client : Behind(up'[c], myGameInitId[c])
  /\ Level(down[Player], copy[Player], up[Player], userInfo, myGameInitId[Player], gameInitId)
     => Level(down[Player], copy[Player], up'[Player], userInfo, myGameInitId[Player],
              gameInitId)

LEMMA UpMoves ==
  ASSUME Types, Games, NEW c \in Client,
         \/ up' = up
         \/ /\ up[c] # <<>> /\ Head(up[c]).kind # "CLIENTINFO"
            /\ up' = [up EXCEPT ![c] = Tail(@)]
         \/ \E m \in UpMsgs : /\ m.kind # "CLIENTINFO" /\ m.game = myGameInitId[c]
                              /\ up' = [up EXCEPT ![c] = Append(@, m)]
  PROVE  UpKeeps
<1>1. /\ up \in [Client -> Seq(UpMsgs)] /\ up[c] \in Seq(UpMsgs) /\ up[c] \in Seq(Msgs)
      /\ \A d \in Client : Behind(up[d], myGameInitId[d]) /\ myGameInitId[d] \in Nat
  BY TypesOf DEF Types, Games, Placed
<1>2. /\ down[Player] \in Seq(Msgs) /\ copy[Player] \in Dict /\ userInfo \in Dict
      /\ up[Player] \in Seq(UpMsgs)
  BY TypesOf, ClientsAre DEF Types
<1>9. ASSUME NEW u \in Seq(UpMsgs),
             Level(down[Player], copy[Player], u, userInfo, myGameInitId[Player], gameInitId)
      PROVE  /\ \A m \in UpMsgs : Idle(m) =>
                  Level(down[Player], copy[Player], Append(u, m), userInfo,
                        myGameInitId[Player], gameInitId)
             /\ u # <<>> /\ Idle(Head(u)) =>
                  Level(down[Player], copy[Player], Tail(u), userInfo,
                        myGameInitId[Player], gameInitId)
  <2>1. PICK q, a, s, mine, last :
           /\ q = down[Player] /\ a = copy[Player] /\ s = userInfo
           /\ mine = myGameInitId[Player] /\ last = gameInitId
    OBVIOUS
  <2>2. q \in Seq(Msgs) /\ a \in Dict /\ s \in Dict /\ Level(q, a, u, s, mine, last)
    BY <1>2, <1>9, <2>1
  <2>3. /\ \A m \in UpMsgs : Idle(m) => Level(q, a, Append(u, m), s, mine, last)
        /\ u # <<>> /\ Idle(Head(u)) => Level(q, a, Tail(u), s, mine, last)
    BY <2>2, LevelIdle
  <2> QED BY <2>1, <2>3
<1>3. CASE up' = up
  BY <1>1, <1>3 DEF UpKeeps
<1>4. CASE /\ up[c] # <<>> /\ Head(up[c]).kind # "CLIENTINFO"
           /\ up' = [up EXCEPT ![c] = Tail(@)]
  <2>1. Tail(up[c]) \in Seq(UpMsgs) /\ Behind(Tail(up[c]), myGameInitId[c])
    BY <1>1, <1>4, BehindMoves
  <2>2. Head(up[c]).kind \notin {"CLIENTINFO", "GAMEINIT"}
    <3>1. Head(up[c]) \in UpMsgs
      BY <1>1, <1>4
    <3> QED BY <1>4, <3>1, MsgsAre DEF Msgs
  <2>3. up'[Player] = up[Player]
        \/ (c = Player /\ up'[Player] = Tail(up[Player]))
    BY <1>1, <1>4, ClientsAre
  <2>4. Level(down[Player], copy[Player], up[Player], userInfo, myGameInitId[Player],
              gameInitId)
        => Level(down[Player], copy[Player], up'[Player], userInfo, myGameInitId[Player],
                 gameInitId)
    BY <1>2, <1>4, <1>9, <2>2, <2>3 DEF Idle
  <2>5. up' \in [Client -> Seq(UpMsgs)] /\ \A d \in Client : Behind(up'[d], myGameInitId[d])
    BY <1>1, <1>4, <2>1
  <2> QED BY <2>4, <2>5 DEF UpKeeps
<1>5. ASSUME NEW m \in UpMsgs, m.kind # "CLIENTINFO", m.game = myGameInitId[c],
             up' = [up EXCEPT ![c] = Append(@, m)]
      PROVE  UpKeeps
  <2>1. Append(up[c], m) \in Seq(UpMsgs)
    BY <1>1, AppendProperties
  <2>2. Behind(Append(up[c], m), myGameInitId[c])
    BY <1>1, <1>5, BehindMoves
  <2>3. m.kind \notin {"CLIENTINFO", "GAMEINIT"}
    BY <1>5, MsgsAre DEF Msgs
  <2>4. up'[Player] = up[Player] \/ up'[Player] = Append(up[Player], m)
    BY <1>1, <1>5, ClientsAre
  <2>5. Level(down[Player], copy[Player], up[Player], userInfo, myGameInitId[Player],
              gameInitId)
        => Level(down[Player], copy[Player], up'[Player], userInfo, myGameInitId[Player],
                 gameInitId)
    BY <1>2, <1>9, <2>3, <2>4 DEF Idle
  <2>6. up' \in [Client -> Seq(UpMsgs)] /\ \A d \in Client : Behind(up'[d], myGameInitId[d])
    BY <1>1, <1>5, <2>1, <2>2
  <2> QED BY <2>5, <2>6 DEF UpKeeps
<1> QED BY <1>3, <1>4, <1>5

LEMMA QuietKeeps ==
  ASSUME IInv, UpKeeps,
         UNCHANGED <<pure, gameInitId, userInfo, down, late, crossed, myGameInitId, copy>>,
         UNCHANGED <<cvars, modified>>,
         clientState' \in [Client -> States], \A c \in Client : Stands(c)',
         clientState'[Player] = "SCS_PUREWAIT" => clientState[Player] = "SCS_PUREWAIT",
         \A c \in Client : clientState'[c] = "SCS_INGAME" => clientState[c] = "SCS_INGAME"
  PROVE  IInv'
<1>0. Types /\ Games /\ Unheard /\ Observed /\ Agreed /\ Entered /\ Shown
  BY DEF IInv
<1>1. Types'
  BY <1>0 DEF Types, UpKeeps
<1>2. Games'
  BY <1>0 DEF Games, Placed, UpKeeps
<1>3. \A c \in Client : (Heard(c)' <=> Heard(c)) /\ Caught(c)' = Caught(c)
  BY DEF Heard, Caught
<1>4. Unheard' /\ Observed'
  <2>1. ASSUME NEW c \in Observers
        PROVE  /\ Undisturbed(c)
               /\ clientState'[c] = "SCS_INGAME" => clientState[c] = "SCS_INGAME" /\ Heard(c)'
    <3>1. c \in Client
      BY ClientsAre
    <3> QED BY <1>2, <1>3, <3>1 DEF Undisturbed, Games, Placed, Stands, Heard, Hears
  <2> QED BY <1>0, <2>1, ObserversStay
<1>5. Agreed'
  BY <1>0, <1>3, ClientsAre DEF Agreed, UpKeeps
<1>6. Entered'
  BY <1>0, <1>3, ClientsAre DEF Entered
<1>7. Shown'
  BY <1>0 DEF Shown
<1> QED BY <1>1, <1>2, <1>4, <1>5, <1>6, <1>7 DEF IInv

\* A message of the client's that is of the server's game shows that the client is
\* in that game.
LEMMA HeadOfUp ==
  ASSUME Types, Games, NEW c \in Client, up[c] # <<>>, Head(up[c]).kind # "CLIENTINFO",
         Head(up[c]).game = gameInitId
  PROVE  myGameInitId[c] = gameInitId
<1>1. /\ up[c] \in Seq(UpMsgs) /\ up[c] \in Seq(Msgs)
      /\ myGameInitId[c] \in Nat /\ gameInitId \in Nat
  BY TypesOf DEF Types
<1>2. Head(up[c]) \in In(up[c])
  BY <1>1, QueueShrinks
<1>3. gameInitId <= myGameInitId[c] /\ myGameInitId[c] <= gameInitId
  BY <1>2 DEF Games, Placed, Behind, Ahead
<1> QED BY <1>1, <1>3

LEMMA ReceivePureKeeps ==
  ASSUME IInv, NEW c \in Client, ReceivePure(c)
  PROVE  IInv'
<1>0. Types /\ Games
  BY DEF IInv
<1>1. /\ up[c] # <<>> /\ Head(up[c]).kind = "PURE"
      /\ up' = [up EXCEPT ![c] = Tail(@)]
      /\ UNCHANGED <<pure, gameInitId, userInfo, down, late, crossed, myGameInitId, copy>>
      /\ UNCHANGED <<cvars, modified>>
  BY DEF ReceivePure, FromClient
<1>2. UpKeeps
  BY <1>0, <1>1, UpMoves
<1>3. \/ clientState' = clientState
      \/ /\ Head(up[c]).game = gameInitId
         /\ clientState' = [clientState EXCEPT ![c] = "SCS_CONNECTED"]
  BY DEF ReceivePure
<1>4. clientState \in [Client -> States]
  BY <1>0 DEF Types
<1>5. clientState' \in [Client -> States]
  BY <1>3, <1>4 DEF States
<1>6. \A d \in Client : Stands(d)
  BY <1>0 DEF Games, Placed
<1>7. CASE clientState' = clientState
  <2>1. \A d \in Client : Stands(d)'
    BY <1>1, <1>6, <1>7 DEF Stands
  <2> QED BY <1>1, <1>2, <1>5, <1>7, <2>1, QuietKeeps
<1>8. CASE /\ Head(up[c]).game = gameInitId
           /\ clientState' = [clientState EXCEPT ![c] = "SCS_CONNECTED"]
  <2>1. myGameInitId[c] = gameInitId
    BY <1>0, <1>1, <1>8, HeadOfUp
  <2>2. \A d \in Client : clientState'[d] = IF d = c THEN "SCS_CONNECTED" ELSE clientState[d]
    BY <1>4, <1>8
  <2>3. \A d \in Client : Stands(d)'
    BY <1>1, <1>6, <2>1, <2>2 DEF Stands
  <2>4. /\ clientState'[Player] = "SCS_PUREWAIT" => clientState[Player] = "SCS_PUREWAIT"
        /\ \A d \in Client : clientState'[d] = "SCS_INGAME" => clientState[d] = "SCS_INGAME"
    BY <2>2, ClientsAre
  <2> QED BY <1>1, <1>2, <1>5, <2>3, <2>4, QuietKeeps
<1> QED BY <1>3, <1>7, <1>8

LEMMA SendToServerKeeps ==
  ASSUME IInv, NEW c \in Client, SendToServer(c)
  PROVE  IInv'
<1>0. Types /\ Games
  BY DEF IInv
<1>1. /\ up' = [up EXCEPT ![c] = Append(@, UnreliableMsg(myGameInitId[c]))]
      /\ UNCHANGED <<pure, gameInitId, userInfo, down, late, crossed, myGameInitId, copy>>
      /\ UNCHANGED <<cvars, modified, clientState>>
  BY DEF SendToServer, serverVars
<1>2. /\ UnreliableMsg(myGameInitId[c]) \in UpMsgs
      /\ UnreliableMsg(myGameInitId[c]).kind # "CLIENTINFO"
      /\ UnreliableMsg(myGameInitId[c]).game = myGameInitId[c]
  BY <1>0, TypesOf DEF UnreliableMsg, UpMsgs
<1>3. UpKeeps
  BY <1>0, <1>1, <1>2, UpMoves
<1>4. clientState' \in [Client -> States] /\ \A d \in Client : Stands(d)'
  BY <1>0, <1>1 DEF Types, Games, Placed, Stands
<1> QED BY <1>1, <1>3, <1>4, QuietKeeps

LEMMA ChangeCvarKeeps ==
  ASSUME IInv, NEW k \in Key, NEW v \in Value, ChangeCvar(k, v)
  PROVE  IInv'
<1>1. /\ UNCHANGED <<pure, gameInitId, clientState, userInfo, down, late, crossed>>
      /\ UNCHANGED <<myGameInitId, copy, up>>
      /\ modified' = TRUE
      /\ cvars' = [cvars EXCEPT ![k] = v]
  BY DEF ChangeCvar, serverVars
<1>2. cvars' \in [Key -> Value]
  BY <1>1 DEF IInv, Types
<1>3. Types'
  BY <1>1, <1>2 DEF IInv, Types
<1>4. Games'
  BY <1>1 DEF IInv, Games, Placed, Stands
<1>5. \A c : (Heard(c)' <=> Heard(c)) /\ Caught(c)' = Caught(c)
  BY <1>1 DEF Heard, Caught
<1>6. Unheard' /\ Observed'
  BY <1>1, <1>5 DEF IInv, Unheard, Observed
<1>7. Agreed'
  BY <1>1, <1>5 DEF IInv, Agreed
<1>8. Entered'
  BY <1>1, <1>5 DEF IInv, Entered
<1>9. Shown'
  BY <1>1 DEF Shown
<1> QED BY <1>3, <1>4, <1>6, <1>7, <1>8, <1>9 DEF IInv

LEMMA LoseKeeps ==
  ASSUME IInv, NEW c \in Client, Lose(c)
  PROVE  IInv'
<1>0. Types /\ Games /\ Unheard /\ Observed /\ Agreed /\ Entered /\ Shown
  BY DEF IInv
<1>1. UNCHANGED <<pure, gameInitId, clientState, userInfo, late, crossed, myGameInitId>>
      /\ UNCHANGED <<copy, cvars, modified>>
  BY DEF Lose, serverVars, clientVars
<1>2. CASE /\ up[c] # <<>> /\ Unreliable(Head(up[c]))
           /\ up' = [up EXCEPT ![c] = Tail(@)]
           /\ UNCHANGED serverVars
  <2>1. UpKeeps
    BY <1>0, <1>2, UpMoves DEF Unreliable
  <2>2. clientState' \in [Client -> States] /\ \A d \in Client : Stands(d)'
    BY <1>0, <1>1 DEF Types, Games, Placed, Stands
  <2>3. down' = down
    BY <1>2 DEF serverVars
  <2> QED BY <1>1, <2>1, <2>2, <2>3, QuietKeeps
<1>3. CASE /\ down[c] # <<>> /\ Unreliable(Head(down[c]))
           /\ down' = [down EXCEPT ![c] = Tail(@)]
           /\ UNCHANGED clientVars
  <2> DEFINE q == down[c]
  <2>1. /\ q \in Seq(DownMsgs) /\ q \in Seq(Msgs) /\ copy[c] \in Dict
        /\ myGameInitId[c] \in Nat /\ gameInitId \in Nat /\ Placed(c)
    BY <1>0, TypesOf DEF Types, Games
  <2>2. up' = up
    BY <1>3 DEF clientVars
  <2>3. \A d \in Client : down'[d] = IF d = c THEN Tail(q) ELSE down[d]
    BY <1>0, <1>3 DEF Types
  <2>4. Tail(q) \in Seq(DownMsgs)
    BY <1>3, <2>1
  <2>5. Types'
    <3>1. down' \in [Client -> Seq(DownMsgs)]
      BY <1>0, <1>3, <2>4 DEF Types
    <3> QED BY <1>0, <1>1, <2>2, <3>1 DEF Types
  <2>6. /\ Ahead(Tail(q), myGameInitId[c], gameInitId)
        /\ Hears(Tail(q), myGameInitId[c], gameInitId) => Heard(c)
    BY <1>3, <2>1, AheadShrinks DEF Placed, Heard
  <2>7. Hears(Tail(q), myGameInitId[c], gameInitId)
        => After(Tail(q), copy[c]) = After(q, copy[c])
    BY <1>3, <2>1, AfterLost DEF Placed
  <2>8. Games'
    <3>1. ASSUME NEW d \in Client PROVE Placed(d)'
      <4>1. Placed(d)
        BY <1>0 DEF Games
      <4> QED BY <1>1, <2>2, <2>3, <2>6, <4>1 DEF Placed, Stands
    <3> QED BY <3>1 DEF Games
  <2>9. ASSUME NEW d \in Client PROVE Undisturbed(d)
    <3>1. CASE d = c
      BY <1>1, <2>3, <2>6, <2>7, <3>1 DEF Undisturbed, Heard, Caught
    <3>2. CASE d # c
      BY <1>1, <2>3, <3>2 DEF Undisturbed, Heard, Caught
    <3> QED BY <3>1, <3>2
  <2>10. \A d \in Client : clientState'[d] = "SCS_INGAME" =>
                             /\ clientState[d] = "SCS_INGAME"
                             /\ myGameInitId[d] = gameInitId /\ Heard(d)'
    BY <1>1, <2>8 DEF Games, Placed, Stands, Heard, Hears
  <2>11. Unheard' /\ Observed'
    BY <1>0, <1>1, <2>9, <2>10, ClientsAre, ObserversStay
  <2>12. Agreed'
    <3>1. CASE c # Player
      <4>1. down'[Player] = down[Player]
        BY <2>3, <3>1, ClientsAre
      <4> QED BY <1>0, <1>1, <2>2, <4>1 DEF Agreed, Heard
    <3>2. CASE c = Player
      <4>1. SUFFICES ASSUME ~crossed, ~late, Heard(c)'
                     PROVE  Level(Tail(q), copy[c], up[c], userInfo, myGameInitId[c], gameInitId)
        BY <1>1, <2>2, <2>3, <3>2 DEF Agreed
      <4>2. Hears(Tail(q), myGameInitId[c], gameInitId) /\ Heard(c)
        BY <1>1, <2>3, <2>6, <4>1 DEF Heard
      <4>3. Level(q, copy[c], up[c], userInfo, myGameInitId[c], gameInitId)
        BY <1>0, <3>2, <4>1, <4>2 DEF Agreed
      <4> QED BY <1>3, <2>1, <4>2, <4>3, LevelLost DEF Placed
    <3> QED BY <3>1, <3>2
  <2>13. Entered'
    <3>1. SUFFICES ASSUME ~crossed, ~late, clientState[Player] = "SCS_INGAME"
                   PROVE  Holds(down'[Player], "ENTERGAME") \/ DOMAIN Caught(Player)' = Key
      BY <1>1 DEF Entered
    <3>2. Caught(Player)' = Caught(Player)
      BY <1>1, <2>9, <2>10, <3>1, ClientsAre DEF Undisturbed
    <3>3. Holds(down[Player], "ENTERGAME") => Holds(down'[Player], "ENTERGAME")
      <4>1. Holds(q, "ENTERGAME") => Holds(Tail(q), "ENTERGAME")
        BY <1>3, <2>1, QueueShrinks DEF Unreliable
      <4> QED BY <2>3, <4>1, ClientsAre
    <3> QED BY <1>0, <3>1, <3>2, <3>3 DEF Entered
  <2>14. Shown'
    BY <1>0, <1>1 DEF Shown
  <2> QED BY <2>5, <2>8, <2>11, <2>12, <2>13, <2>14 DEF IInv
<1> QED BY <1>2, <1>3 DEF Lose, serverVars

-----------------------------------------------------------------------------
(* A game begins, and is entered *)

\* A client that is sent GAMEINIT and the list of paks has nothing of the game
\* before when it has read them.
LEMMA GameInitSent ==
  ASSUME NEW q \in Seq(DownMsgs), NEW a \in Dict, NEW mine \in Nat, NEW last \in Nat,
         NEW new \in Nat, Ahead(q, mine, last), last <= new, mine # new,
         GameInitMsg(new) \notin In(q), NEW r, r = q \o GameInitMsgs(new)
  PROVE  /\ r \in Seq(DownMsgs)
         /\ Ahead(r, mine, new)
         /\ After(r, a) = EmptyDict
<1>1. PICK i, p, t : i = GameInitMsg(new) /\ p = PureMsg(new) /\ t = Append(q, i)
  OBVIOUS
<1>2. /\ i \in DownMsgs /\ i \in Msgs /\ i.kind = "GAMEINIT"
      /\ p \in DownMsgs /\ p \in Msgs /\ p.kind = "PURE"
  BY <1>1 DEF GameInitMsg, PureMsg, DownMsgs, Msgs
<1>3. q \in Seq(Msgs) /\ t \in Seq(DownMsgs) /\ t \in Seq(Msgs)
  <2>1. q \in Seq(Msgs)
    BY DEF Msgs
  <2> QED BY <1>1, <1>2, <2>1, AppendProperties
<1>4. Ahead(t, mine, new)
  BY <1>1, <1>2, <1>3, AheadGrows
<1>5. After(t, a) = EmptyDict
  <2>1. After(t, a) = ReadMsg(i, After(q, a)) /\ After(q, a) \in Dict
    BY <1>1, <1>2, <1>3, AfterAppend, AfterType
  <2> QED BY <1>2, <2>1, ReadMsgIs
<1>6. CASE ~pure
  <2>1. r = t
    <3>1. r = q \o <<i>>
      BY <1>1, <1>6 DEF GameInitMsgs
    <3> QED BY <1>1, <1>2, <3>1, AppendIsConcat
  <2> QED BY <1>3, <1>4, <1>5, <2>1
<1>7. CASE pure
  <2>1. r = Append(t, p)
    <3>1. r = q \o <<i, p>>
      BY <1>1, <1>7 DEF GameInitMsgs
    <3>2. <<i, p>> = <<i>> \o <<p>>
      <4>1. <<i>> \in Seq(DownMsgs) /\ <<i, p>> = Append(<<i>>, p)
        BY <1>2
      <4> QED BY <1>2, <4>1, AppendIsConcat
    <3>3. <<i>> \in Seq(DownMsgs) /\ <<p>> \in Seq(DownMsgs)
      BY <1>2
    <3>4. q \o (<<i>> \o <<p>>) = (q \o <<i>>) \o <<p>>
      BY <3>3, ConcatAssociative
    <3>5. t = q \o <<i>> /\ Append(t, p) = t \o <<p>>
      BY <1>1, <1>2, <1>3, AppendIsConcat
    <3> QED BY <3>1, <3>2, <3>4, <3>5
  <2>2. r \in Seq(DownMsgs)
    BY <1>2, <1>3, <2>1, AppendProperties
  <2>3. Ahead(r, mine, new)
    BY <1>2, <1>3, <1>4, <2>1, AheadGrows
  <2>4. After(r, a) = EmptyDict
    <3>1. After(r, a) = ReadMsg(p, EmptyDict)
      BY <1>2, <1>3, <1>5, <2>1, AfterAppend
    <3> QED BY <1>2, <3>1, ReadMsgIs, EmptyDictIs DEF Idle
  <2> QED BY <2>2, <2>3, <2>4
<1> QED BY <1>6, <1>7

LEMMA StateAfterIs ==
  ASSUME Types
  PROVE  /\ StateAfterGameInit \in States /\ StateAfterGameInit # "SCS_INGAME"
         /\ StateAfterGameInit = "SCS_PUREWAIT" => pure
         /\ ~(pure /\ StateAfterGameInit = "SCS_CONNECTED")
BY DEF Types, StateAfterGameInit, States

LEMMA MapChangeKeeps ==
  ASSUME IInv, ExecuteMapChange
  PROVE  IInv'
<1>0. Types /\ Games /\ Shown
  BY DEF IInv
<1>1. /\ gameInitId' = gameInitId + 1
      /\ clientState' = [c \in Client |-> StateAfterGameInit]
      /\ userInfo' = EmptyDict
      /\ down' = [c \in Client |-> down[c] \o GameInitMsgs(gameInitId + 1)]
      /\ UNCHANGED <<pure, crossed, myGameInitId, copy, cvars, modified, up>>
  BY DEF ExecuteMapChange, InitClient, clientVars
<1>2. PICK new : new = gameInitId + 1 /\ new \in Nat /\ gameInitId \in Nat
  BY <1>0 DEF Types
<1>3. ASSUME NEW c \in Client
      PROVE  /\ down'[c] \in Seq(DownMsgs)
             /\ Ahead(down'[c], myGameInitId[c], new)
             /\ After(down'[c], copy[c]) = EmptyDict
  <2>1. /\ down[c] \in Seq(DownMsgs) /\ down[c] \in Seq(Msgs) /\ copy[c] \in Dict
        /\ myGameInitId[c] \in Nat /\ Ahead(down[c], myGameInitId[c], gameInitId)
    BY <1>0, TypesOf DEF Games, Placed
  <2>2. gameInitId <= new /\ myGameInitId[c] # new
    BY <1>2, <2>1 DEF Ahead
  <2>3. GameInitMsg(new) \notin In(down[c])
    <3>1. SUFFICES ASSUME NEW i \in DOMAIN down[c], down[c][i] = GameInitMsg(new)
                   PROVE  FALSE
      BY DEF In
    <3>2. down[c][i].kind = "GAMEINIT" /\ down[c][i].game = new
      BY <3>1 DEF GameInitMsg
    <3>3. new <= gameInitId
      BY <2>1, <3>2 DEF Ahead
    <3> QED BY <1>2, <3>3
  <2>4. PICK r : r = down[c] \o GameInitMsgs(new)
    OBVIOUS
  <2>5. down'[c] = r
    BY <1>1, <1>2, <2>4
  <2>6. r \in Seq(DownMsgs) /\ Ahead(r, myGameInitId[c], new) /\ After(r, copy[c]) = EmptyDict
    <3>1. PICK q, a, mine, last :
            q = down[c] /\ a = copy[c] /\ mine = myGameInitId[c] /\ last = gameInitId
      OBVIOUS
    <3>2. /\ q \in Seq(DownMsgs) /\ a \in Dict /\ mine \in Nat /\ last \in Nat /\ new \in Nat
          /\ Ahead(q, mine, last) /\ last <= new /\ mine # new
          /\ GameInitMsg(new) \notin In(q) /\ r = q \o GameInitMsgs(new)
      BY <1>2, <2>1, <2>2, <2>3, <2>4, <3>1
    <3>3. r \in Seq(DownMsgs) /\ Ahead(r, mine, new) /\ After(r, a) = EmptyDict
      BY <3>2, GameInitSent
    <3> QED BY <3>1, <3>3
  <2> QED BY <2>5, <2>6
<1>4. \A c \in Client : clientState'[c] = StateAfterGameInit
  BY <1>1
<1>5. Types'
  <2>1. down' \in [Client -> Seq(DownMsgs)]
    BY <1>1, <1>3
  <2>2. clientState' \in [Client -> States]
    BY <1>0, <1>1, StateAfterIs
  <2> QED BY <1>0, <1>1, <1>2, <2>1, <2>2, EmptyDictIs DEF Types
<1>6. Games'
  <2>1. ASSUME NEW c \in Client PROVE Placed(c)'
    <3>1. Behind(up[c], myGameInitId[c])
      BY <1>0 DEF Games, Placed
    <3>2. Stands(c)'
      BY <1>0, <1>1, <1>4, StateAfterIs DEF Stands
    <3> QED BY <1>1, <1>2, <1>3, <3>1, <3>2 DEF Placed
  <2> QED BY <2>1 DEF Games
<1>7. \A c \in Client : Caught(c)' = EmptyDict
  BY <1>1, <1>3 DEF Caught
<1>8. Unheard' /\ Observed'
  BY <1>0, <1>1, <1>4, <1>7, ClientsAre, StateAfterIs DEF Unheard, Observed
<1>9. Agreed'
  BY <1>7, ClientsAre DEF Agreed, Level, Caught
<1>10. Entered'
  BY <1>0, <1>4, ClientsAre, StateAfterIs DEF Entered
<1>11. Shown'
  BY <1>0, <1>1 DEF Shown
<1> QED BY <1>5, <1>6, <1>8, <1>9, <1>10, <1>11 DEF IInv

\* A client that has missed its GAMEINIT is sent it again.
LEMMA MissedKeeps ==
  ASSUME IInv, NEW c \in Client, MissedGameInit(c), UpKeeps,
         clientState' = [clientState EXCEPT ![c] = StateAfterGameInit],
         down' = [down EXCEPT ![c] = @ \o GameInitMsgs(gameInitId)],
         UNCHANGED <<pure, gameInitId, userInfo, late, crossed, myGameInitId, copy>>,
         UNCHANGED <<cvars, modified>>
  PROVE  IInv'
<1> DEFINE r == down[c] \o GameInitMsgs(gameInitId)
<1>0. Types /\ Games /\ Unheard /\ Observed /\ Agreed /\ Entered /\ Shown
  BY DEF IInv
<1>1. /\ down[c] \in Seq(DownMsgs) /\ copy[c] \in Dict /\ myGameInitId[c] \in Nat
      /\ gameInitId \in Nat /\ Placed(c)
  BY <1>0, TypesOf DEF Types, Games
<1>2. myGameInitId[c] # gameInitId /\ GameInitMsg(gameInitId) \notin In(down[c])
  BY DEF MissedGameInit, In
<1>3. /\ r \in Seq(DownMsgs) /\ Ahead(r, myGameInitId[c], gameInitId)
      /\ After(r, copy[c]) = EmptyDict
  <2>1. gameInitId <= gameInitId
    BY <1>1
  <2>2. PICK q, a, mine, last, s : /\ q = down[c] /\ a = copy[c] /\ mine = myGameInitId[c]
                                   /\ last = gameInitId /\ s = r
    OBVIOUS
  <2>3. /\ q \in Seq(DownMsgs) /\ a \in Dict /\ mine \in Nat /\ last \in Nat
        /\ Ahead(q, mine, last) /\ last <= last /\ mine # last
        /\ GameInitMsg(last) \notin In(q) /\ s = q \o GameInitMsgs(last)
    BY <1>1, <1>2, <2>1, <2>2 DEF Placed
  <2>4. s \in Seq(DownMsgs) /\ Ahead(s, mine, last) /\ After(s, a) = EmptyDict
    BY <2>3, GameInitSent
  <2> QED BY <2>2, <2>4
<1> HIDE DEF r
<1>4. \A d \in Client : /\ down'[d] = IF d = c THEN r ELSE down[d]
                        /\ clientState'[d] = IF d = c THEN StateAfterGameInit ELSE clientState[d]
  BY <1>0 DEF Types, r
<1>5. Types'
  <2>1. down' \in [Client -> Seq(DownMsgs)]
    BY <1>0, <1>3 DEF Types, r
  <2>2. clientState' \in [Client -> States]
    BY <1>0, StateAfterIs DEF Types
  <2> QED BY <1>0, <2>1, <2>2 DEF Types, UpKeeps
<1>6. Games'
  <2>1. ASSUME NEW d \in Client PROVE Placed(d)'
    <3>1. Placed(d) /\ Behind(up'[d], myGameInitId[d])
      BY <1>0 DEF Games, UpKeeps
    <3>2. Stands(d)'
      BY <1>0, <1>4, <3>1, StateAfterIs DEF Stands, Placed
    <3> QED BY <1>3, <1>4, <3>1, <3>2 DEF Placed
  <2> QED BY <2>1 DEF Games
<1>7. Caught(c)' = EmptyDict
  BY <1>3, <1>4 DEF Caught
<1>8. \A d \in Client : d # c => (Heard(d)' <=> Heard(d)) /\ Caught(d)' = Caught(d)
  BY <1>4 DEF Heard, Caught
<1>9. clientState'[Player] = "SCS_PUREWAIT" => clientState[Player] = "SCS_PUREWAIT"
  <2>1. SUFFICES ASSUME c = Player, StateAfterGameInit = "SCS_PUREWAIT",
                        clientState[c] # "SCS_PUREWAIT"
                 PROVE  FALSE
    BY <1>4, ClientsAre
  <2>2. pure /\ clientState[c] \in {"SCS_CONNECTED", "SCS_INGAME"}
    BY <1>0, <2>1, StateAfterIs, TypesOf DEF States
  <2> QED BY <1>1, <1>2, <2>2 DEF Placed, Stands
<1>10. Unheard'
  BY <1>0, <1>7, <1>8, <1>9, ClientsAre DEF Unheard
<1>11. Observed'
  BY <1>0, <1>4, <1>8, ClientsAre, StateAfterIs DEF Observed
<1>12. Agreed'
  <2>1. CASE c = Player
    BY <1>7, <2>1 DEF Agreed, Level, Caught
  <2>2. CASE c # Player
    <3>1. down'[Player] = down[Player] /\ (Heard(Player)' <=> Heard(Player))
      BY <1>4, <1>8, <2>2, ClientsAre
    <3> QED BY <1>0, <3>1 DEF Agreed, UpKeeps
  <2> QED BY <2>1, <2>2
<1>13. Entered'
  <2>1. CASE c = Player
    BY <1>0, <1>4, <2>1, ClientsAre, StateAfterIs DEF Entered
  <2>2. CASE c # Player
    BY <1>0, <1>4, <1>8, <2>2, ClientsAre DEF Entered
  <2> QED BY <2>1, <2>2
<1>14. Shown'
  BY <1>0 DEF Shown
<1> QED BY <1>5, <1>6, <1>10, <1>11, <1>12, <1>13, <1>14 DEF IInv

\* What a client is sent with its entry.
LEMMA EntrySent ==
  ASSUME Types, NEW c \in Client, NEW r,
         r = down[c] \o InfoOfOthers(c) \o IF c = Player THEN <<EnterGameMsg>> ELSE <<>>
  PROVE  /\ c = Player => r = Append(down[c], EnterGameMsg)
         /\ c # Player /\ clientState[Player] = "SCS_PUREWAIT" => r = down[c]
         /\ c # Player /\ clientState[Player] # "SCS_PUREWAIT" =>
              r = Append(down[c], ClientInfoMsg(FALSE, WriteDeltaDict(userInfo, EmptyDict)))
         /\ EnterGameMsg \in DownMsgs /\ EnterGameMsg \in Msgs /\ Idle(EnterGameMsg)
         /\ EnterGameMsg.kind = "ENTERGAME"
<1>1. PICK q, m : /\ q = down[c] /\ q \in Seq(DownMsgs)
                  /\ m = ClientInfoMsg(FALSE, WriteDeltaDict(userInfo, EmptyDict))
  BY TypesOf
<1>2. /\ EnterGameMsg \in DownMsgs /\ EnterGameMsg \in Msgs /\ Idle(EnterGameMsg)
      /\ EnterGameMsg.kind = "ENTERGAME"
  BY DEF EnterGameMsg, DownMsgs, Msgs, Idle
<1>3. \A x : q \o <<x>> = Append(q, x)
  OBVIOUS
<1>4. q \o <<>> = q
  OBVIOUS
<1>5. CASE c = Player
  <2>1. InfoOfOthers(c) = <<>>
    BY <1>5 DEF InfoOfOthers
  <2>2. r = q \o <<EnterGameMsg>>
    BY <1>1, <1>4, <1>5, <2>1
  <2> QED BY <1>1, <1>2, <1>3, <1>5, <2>2
<1>6. CASE c # Player /\ clientState[Player] = "SCS_PUREWAIT"
  <2>1. InfoOfOthers(c) = <<>>
    BY <1>6 DEF InfoOfOthers
  <2> QED BY <1>1, <1>2, <1>4, <1>6, <2>1
<1>7. CASE c # Player /\ clientState[Player] # "SCS_PUREWAIT"
  <2>1. clientState[Player] \in {"SCS_CONNECTED", "SCS_INGAME"}
    BY <1>7, ClientsAre, TypesOf DEF States
  <2>2. InfoOfOthers(c) = <<m>>
    BY <1>1, <1>7, <2>1 DEF InfoOfOthers
  <2>3. r = (q \o <<m>>) \o <<>>
    BY <1>1, <1>7, <2>2
  <2>4. WriteDeltaDict(userInfo, EmptyDict) \in Deltas
    BY EmptyDictIs, WriteIs DEF Types
  <2>5. m \in DownMsgs
    BY <1>1, <2>4 DEF DownMsgs, Infos, ClientInfoMsg
  <2>6. Append(q, m) \in Seq(DownMsgs)
    BY <1>1, <2>5, AppendProperties
  <2>7. Append(q, m) \o <<>> = Append(q, m)
    BY <2>6
  <2>8. r = Append(q, m)
    BY <1>3, <2>3, <2>7
  <2> QED BY <1>1, <1>2, <1>7, <2>8
<1> QED BY <1>5, <1>6, <1>7

LEMMA EntryKeeps ==
  ASSUME IInv, NEW c \in Client, UpKeeps, myGameInitId[c] = gameInitId,
         clientState[c] = "SCS_CONNECTED",
         clientState' = [clientState EXCEPT ![c] = "SCS_INGAME"],
         down' = [down EXCEPT ![c] = @ \o InfoOfOthers(c) \o
                                     IF c = Player THEN <<EnterGameMsg>> ELSE <<>>],
         UNCHANGED <<pure, gameInitId, userInfo, late, crossed, myGameInitId, copy>>,
         UNCHANGED <<cvars, modified>>
  PROVE  IInv'
<1> DEFINE m == ClientInfoMsg(FALSE, WriteDeltaDict(userInfo, EmptyDict))
<1>0. Types /\ Games /\ Unheard /\ Observed /\ Agreed /\ Entered /\ Shown
  BY DEF IInv
<1>1. PICK r : r = down[c] \o InfoOfOthers(c) \o IF c = Player THEN <<EnterGameMsg>> ELSE <<>>
  OBVIOUS
<1>2. /\ c = Player => r = Append(down[c], EnterGameMsg)
      /\ c # Player /\ clientState[Player] = "SCS_PUREWAIT" => r = down[c]
      /\ c # Player /\ clientState[Player] # "SCS_PUREWAIT" => r = Append(down[c], m)
      /\ EnterGameMsg \in DownMsgs /\ EnterGameMsg \in Msgs /\ Idle(EnterGameMsg)
      /\ EnterGameMsg.kind = "ENTERGAME"
  BY <1>0, <1>1, EntrySent
<1>3. /\ down[c] \in Seq(DownMsgs) /\ down[c] \in Seq(Msgs) /\ copy[c] \in Dict
      /\ myGameInitId[c] \in Nat /\ gameInitId \in Nat /\ userInfo \in Dict /\ Placed(c)
  BY <1>0, TypesOf DEF Types, Games
<1>4. PICK n : n = m
  OBVIOUS
<1>5. /\ n \in DownMsgs /\ n \in Msgs /\ n.kind = "CLIENTINFO"
      /\ After(Append(down[c], n), copy[c]) = userInfo
  <2>1. PICK q, a, have : q = down[c] /\ a = copy[c] /\ have = FALSE /\ have \in BOOLEAN
    OBVIOUS
  <2>2. /\ q \in Seq(Msgs) /\ a \in Dict /\ EmptyDict \in Dict
        /\ n = ClientInfoMsg(have, WriteDeltaDict(userInfo, EmptyDict))
    BY <1>3, <1>4, <2>1, EmptyDictIs
  <2>3. n \in Infos /\ After(Append(q, n), a) = userInfo
    BY <1>3, <2>1, <2>2, WholeSent
  <2>4. n.kind = "CLIENTINFO"
    BY <1>4 DEF ClientInfoMsg
  <2> QED BY <2>1, <2>3, <2>4 DEF DownMsgs, Msgs
<1> HIDE DEF m
<1>6. \A d \in Client : /\ down'[d] = IF d = c THEN r ELSE down[d]
                        /\ clientState'[d] = IF d = c THEN "SCS_INGAME" ELSE clientState[d]
  BY <1>0, <1>1 DEF Types
<1>7. r = down[c] \/ r = Append(down[c], EnterGameMsg) \/ r = Append(down[c], n)
  BY <1>2, <1>4
<1>8. /\ r \in Seq(DownMsgs)
      /\ Ahead(r, myGameInitId[c], gameInitId)
  <2>1. r \in Seq(DownMsgs)
    BY <1>2, <1>3, <1>5, <1>7, AppendProperties
  <2>2. EnterGameMsg.kind # "GAMEINIT" /\ n.kind # "GAMEINIT"
    BY <1>2, <1>5
  <2>3. Ahead(Append(down[c], EnterGameMsg), myGameInitId[c], gameInitId)
    BY <1>2, <1>3, <2>2, AheadGrows DEF Placed
  <2>4. Ahead(Append(down[c], n), myGameInitId[c], gameInitId)
    BY <1>3, <1>5, <2>2, AheadGrows DEF Placed
  <2>5. Ahead(down[c], myGameInitId[c], gameInitId)
    BY <1>3 DEF Placed
  <2> QED BY <1>7, <2>1, <2>3, <2>4, <2>5
<1>9. Types'
  <2>1. down' \in [Client -> Seq(DownMsgs)]
    BY <1>0, <1>1, <1>8 DEF Types
  <2>2. clientState' \in [Client -> States]
    BY <1>0 DEF Types, States
  <2> QED BY <1>0, <2>1, <2>2 DEF Types, UpKeeps
<1>10. Games'
  <2>1. ASSUME NEW d \in Client PROVE Placed(d)'
    <3>1. Placed(d) /\ Behind(up'[d], myGameInitId[d])
      BY <1>0 DEF Games, UpKeeps
    <3>2. Stands(d)'
      BY <1>6, <3>1 DEF Stands, Placed
    <3> QED BY <1>6, <1>8, <3>1, <3>2 DEF Placed
  <2> QED BY <2>1 DEF Games
<1>11. \A d \in Client : d # c => (Heard(d)' <=> Heard(d)) /\ Caught(d)' = Caught(d)
  BY <1>6 DEF Heard, Caught
<1>12. Heard(c) /\ Heard(c)'
  BY DEF Heard, Hears
<1>13. Shown'
  BY <1>0 DEF Shown
<1>14. CASE c = Player
  <2>1. r = Append(down[c], EnterGameMsg)
    BY <1>2, <1>14
  <2>2. Unheard'
    BY <1>6, <1>14 DEF Unheard
  <2>3. Observed'
    BY <1>0, <1>6, <1>11, <1>14, ClientsAre DEF Observed
  <2>4. Agreed'
    <3>1. SUFFICES ASSUME ~crossed, ~late
                   PROVE  Level(r, copy[c], up'[c], userInfo, myGameInitId[c], gameInitId)
      BY <1>6, <1>14 DEF Agreed
    <3>2. Level(down[c], copy[c], up'[c], userInfo, myGameInitId[c], gameInitId)
      BY <1>0, <1>12, <1>14, <3>1 DEF Agreed, UpKeeps
    <3>3. up'[c] \in Seq(UpMsgs)
      BY DEF UpKeeps
    <3> QED BY <1>2, <1>3, <2>1, <3>2, <3>3, LevelIdle
  <2>5. Entered'
    <3>1. Holds(r, "ENTERGAME")
      BY <1>2, <1>3, <2>1, QueueGrows
    <3> QED BY <1>6, <1>14, <3>1 DEF Entered
  <2> QED BY <1>9, <1>10, <1>13, <2>2, <2>3, <2>4, <2>5 DEF IInv
<1>15. CASE c # Player
  <2>1. /\ clientState'[Player] = clientState[Player] /\ down'[Player] = down[Player]
        /\ Heard(Player)' <=> Heard(Player)
        /\ Caught(Player)' = Caught(Player)
    BY <1>6, <1>11, <1>15, ClientsAre
  <2>2. Agreed'
    BY <1>0, <2>1 DEF Agreed, UpKeeps
  <2>3. Entered'
    BY <1>0, <2>1 DEF Entered
  <2>4. ASSUME ~late
        PROVE  /\ Caught(c)' = userInfo
               /\ clientState[Player] = "SCS_PUREWAIT" => Caught(c)' = EmptyDict
    <3>1. CASE clientState[Player] = "SCS_PUREWAIT"
      <4>1. r = down[c]
        BY <1>2, <1>15, <3>1
      <4>2. Caught(c)' = Caught(c)
        BY <1>6, <4>1 DEF Caught
      <4>3. userInfo = EmptyDict /\ Caught(c) = EmptyDict
        BY <1>0, <1>12, <1>15, <2>4, <3>1, ClientsAre DEF Unheard
      <4> QED BY <4>2, <4>3
    <3>2. CASE clientState[Player] # "SCS_PUREWAIT"
      <4>1. r = Append(down[c], n)
        BY <1>2, <1>4, <1>15, <3>2
      <4> QED BY <1>5, <1>6, <3>2, <4>1 DEF Caught
    <3> QED BY <3>1, <3>2
  <2>5. Unheard'
    BY <1>0, <1>11, <2>1, <2>4, ClientsAre DEF Unheard
  <2>6. Observed'
    <3>1. SUFFICES ASSUME ~late, NEW d \in Observers, clientState'[d] = "SCS_INGAME"
                   PROVE  Caught(d)' = userInfo
      BY DEF Observed
    <3>2. CASE d = c
      BY <2>4, <3>1, <3>2
    <3>3. CASE d # c
      BY <1>0, <1>6, <1>11, <3>1, <3>3, ClientsAre DEF Observed
    <3> QED BY <3>2, <3>3
  <2> QED BY <1>9, <1>10, <1>13, <2>2, <2>3, <2>5, <2>6 DEF IInv
<1> QED BY <1>14, <1>15

LEMMA ReceiveUnreliableKeeps ==
  ASSUME IInv, NEW c \in Client, ReceiveUnreliable(c)
  PROVE  IInv'
<1>0. Types /\ Games
  BY DEF IInv
<1>1. PICK game : game = Head(up[c]).game
  OBVIOUS
<1>2. /\ up[c] # <<>> /\ Head(up[c]).kind = "UNRELIABLE"
      /\ up' = [up EXCEPT ![c] = Tail(@)]
      /\ UNCHANGED <<pure, gameInitId, userInfo, late, crossed, myGameInitId, copy>>
      /\ UNCHANGED <<cvars, modified>>
      /\ \/ WrongGame(c, game)
         \/ EnterGame(c, game)
         \/ UNCHANGED <<clientState, down>>
  BY <1>1 DEF ReceiveUnreliable, FromClient
<1>3. UpKeeps
  BY <1>0, <1>2, UpMoves
<1>4. CASE UNCHANGED <<clientState, down>>
  <2>1. clientState' \in [Client -> States] /\ \A d \in Client : Stands(d)'
    BY <1>0, <1>2, <1>4 DEF Types, Games, Placed, Stands
  <2> QED BY <1>2, <1>3, <1>4, <2>1, QuietKeeps
<1>5. CASE WrongGame(c, game)
  <2>1. CASE MissedGameInit(c)
    <3>1. /\ clientState' = [clientState EXCEPT ![c] = StateAfterGameInit]
          /\ down' = [down EXCEPT ![c] = @ \o GameInitMsgs(gameInitId)]
      BY <1>5, <2>1 DEF WrongGame
    <3> QED BY <1>2, <1>3, <2>1, <3>1, MissedKeeps
  <2>2. CASE ~MissedGameInit(c)
    BY <1>4, <1>5, <2>2 DEF WrongGame
  <2> QED BY <2>1, <2>2
<1>6. CASE EnterGame(c, game)
  <2>1. /\ game = gameInitId /\ clientState[c] = "SCS_CONNECTED"
        /\ clientState' = [clientState EXCEPT ![c] = "SCS_INGAME"]
        /\ down' = [down EXCEPT ![c] = @ \o InfoOfOthers(c) \o
                                       IF c = Player THEN <<EnterGameMsg>> ELSE <<>>]
    BY <1>6 DEF EnterGame
  <2>2. myGameInitId[c] = gameInitId
    BY <1>0, <1>1, <1>2, <2>1, HeadOfUp
  <2> QED BY <1>2, <1>3, <2>1, <2>2, EntryKeeps
<1> QED BY <1>2, <1>4, <1>5, <1>6

-----------------------------------------------------------------------------
(* The theorems *)

LEMMA InitIInv ==
  ASSUME Init
  PROVE  IInv
<1>1. Types
  BY EmptyDictIs DEF Init, Types, States
<1>2. \A c \in Client : down[c] = <<>> /\ up[c] = <<>> /\ copy[c] = EmptyDict
                        /\ myGameInitId[c] = gameInitId /\ gameInitId = 1
                        /\ clientState[c] = "SCS_CONNECTED"
  BY DEF Init
<1>3. Games
  <2>1. DOMAIN <<>> = {} /\ In(<<>>) = {}
    BY DEF In
  <2>2. Ahead(<<>>, 1, 1) /\ Behind(<<>>, 1)
    BY <2>1 DEF Ahead, Behind
  <2> QED BY <1>2, <2>2 DEF Games, Placed, Stands
<1>4. \A c \in Client : Caught(c) = EmptyDict
  BY <1>2, AfterEmpty, EmptyDictIs DEF Caught
<1>5. Unheard /\ Observed
  BY <1>2, ClientsAre DEF Unheard, Observed
<1>6. Agreed
  BY <1>4, ClientsAre DEF Agreed, Level, Caught
<1>7. Entered
  BY <1>2, ClientsAre DEF Entered
<1>8. Shown
  BY <1>2, ClientsAre, EmptyDictIs DEF Shown
<1> QED BY <1>1, <1>3, <1>5, <1>6, <1>7, <1>8 DEF IInv

LEMMA NextIInv ==
  ASSUME IInv, [Next]_vars
  PROVE  IInv'
<1>1. ASSUME UpdateUI PROVE IInv'
  BY <1>1, UpdateUIKeeps
<1>2. ASSUME ExecuteMapChange PROVE IInv'
  BY <1>2, MapChangeKeeps
<1>3. ASSUME ReceiveClientInfo PROVE IInv'
  BY <1>3, ReceiveClientInfoKeeps
<1>4. ASSUME ProcessEnterGame PROVE IInv'
  BY <1>4, EnterGameKeeps
<1>5. ASSUME SendModified PROVE IInv'
  BY <1>5, SendModifiedKeeps
<1>6. ASSUME NEW k \in Key, NEW v \in Value, ChangeCvar(k, v) PROVE IInv'
  BY <1>6, ChangeCvarKeeps
<1>7. ASSUME NEW c \in Client, ReceivePure(c) PROVE IInv'
  BY <1>7, ReceivePureKeeps
<1>8. ASSUME NEW c \in Client, ReceiveUnreliable(c) PROVE IInv'
  BY <1>8, ReceiveUnreliableKeeps
<1>9. ASSUME NEW c \in Client, ProcessGameInit(c) PROVE IInv'
  BY <1>9, GameInitKeeps
<1>10. ASSUME NEW c \in Client, ProcessReliableMessagePure(c) PROVE IInv'
  BY <1>10, PureKeeps
<1>11. ASSUME NEW c \in Client, ProcessClientInfo(c) PROVE IInv'
  BY <1>11, ClientInfoKeeps
<1>12. ASSUME NEW c \in Client, SendToServer(c) PROVE IInv'
  BY <1>12, SendToServerKeeps
<1>13. ASSUME NEW c \in Client, Lose(c) PROVE IInv'
  BY <1>13, LoseKeeps
<1>14. ASSUME UNCHANGED vars PROVE IInv'
  <2>1. UNCHANGED <<pure, gameInitId, clientState, userInfo, down, late, crossed>>
    BY <1>14 DEF vars, serverVars
  <2>2. UNCHANGED <<myGameInitId, copy, cvars, modified, up>>
    BY <1>14 DEF vars, clientVars
  <2>3. \A c : (Heard(c)' <=> Heard(c)) /\ Caught(c)' = Caught(c)
    BY <2>1, <2>2 DEF Heard, Caught
  <2>4. Types' /\ Games'
    BY <2>1, <2>2 DEF IInv, Types, Games, Placed, Stands
  <2>5. Unheard' /\ Observed'
    BY <2>1, <2>2, <2>3 DEF IInv, Unheard, Observed
  <2>6. Agreed' /\ Entered' /\ Shown'
    BY <2>1, <2>2, <2>3 DEF IInv, Agreed, Entered, Shown
  <2> QED BY <2>4, <2>5, <2>6 DEF IInv
<1> QED
  BY <1>1, <1>2, <1>3, <1>4, <1>5, <1>6, <1>7, <1>8, <1>9, <1>10, <1>11, <1>12, <1>13,
     <1>14 DEF Next

(***************************************************************************)
(* What each client will have when it has read what is on its way is known *)
(* of all of them at all times.                                            *)
(***************************************************************************)
THEOREM Invariant == Spec => []IInv
<1>1. Init => IInv
  BY InitIInv
<1>2. IInv /\ [Next]_vars => IInv'
  BY NextIInv
<1> QED BY <1>1, <1>2, PTL DEF Spec

\* The function in CaughtUp is the chain of copies.
LEMMA CaughtUpIs ==
  ASSUME Types, NEW c \in Client
  PROVE  CaughtUp(c) = Caught(c)
<1> DEFINE Read[i \in 0 .. Len(down[c])] ==
             IF i = 0 THEN copy[c]
             ELSE LET m == down[c][i]
                  IN  CASE m.kind = "CLIENTINFO" ->
                             ReadDeltaDict(m.delta, IF m.haveBase THEN Read[i - 1]
                                                                  ELSE EmptyDict)
                        [] m.kind = "GAMEINIT" -> EmptyDict
                        [] OTHER -> Read[i - 1]
<1>1. CaughtUp(c) = Read[Len(down[c])]
  BY DEF CaughtUp
<1>2. Read = CHOOSE f : Run(f, down[c], copy[c], Len(down[c]))
  BY DEF Run, ReadMsg
<1> HIDE DEF Read
<1> QED BY <1>1, <1>2 DEF Caught, After

(***************************************************************************)
(* "Core is in charge of syncing down userinfo changes"                    *)
(* (MultiplayerGame.cpp:3634): whatever the infos are, and over map        *)
(* changes, GAMEINITs that are lost and changes by player and game, each   *)
(* client that is in the game sees the player as the server does, once it  *)
(* has read what is on its way.                                            *)
(***************************************************************************)
THEOREM ObserversAgreeAlways == Spec => []ObserversAgree
<1>1. IInv => ObserversAgree
  BY CaughtUpIs, ClientsAre DEF IInv, Observed, ObserversAgree
<1> QED BY <1>1, Invariant, PTL

(***************************************************************************)
(* And the player's client and cvars have what the server has, once all is *)
(* settled, unless infos have crossed or one came in SCS_PUREWAIT.         *)
(***************************************************************************)
THEOREM PlayerAgreesAlways == Spec => []PlayerAgrees
<1>1. ASSUME IInv
      PROVE  PlayerAgrees
  <2>1. SUFFICES ASSUME ~crossed, ~late, Settled
                 PROVE  copy[Player] = userInfo /\ cvars = userInfo
    BY DEF PlayerAgrees, SyncedDown
  <2>2. Types /\ Games /\ Agreed /\ Entered /\ Shown
    BY <1>1 DEF IInv
  <2>3. PICK q, u, a, s : /\ q = down[Player] /\ u = up[Player]
                          /\ a = copy[Player] /\ s = userInfo
    OBVIOUS
  <2>4. /\ q \in Seq(Msgs) /\ u \in Seq(UpMsgs) /\ a \in Dict /\ s \in Dict
        /\ cvars \in [Key -> Value]
    BY <2>2, <2>3, TypesOf, ClientsAre DEF Types
  <2>5. NoInfo(q) /\ NoInit(q) /\ NoInfo(u) /\ ~Holds(q, "ENTERGAME")
    BY <2>1, <2>3 DEF Settled, NoInfo, NoInit, Holds
  <2>6. clientState[Player] = "SCS_INGAME" /\ myGameInitId[Player] = gameInitId
    BY <2>1, <2>2, ClientsAre DEF Settled, Games, Placed, Stands
  <2>7. After(q, a) = a /\ After(u, s) = s
    BY <2>4, <2>5, UpIs, AfterWhat
  <2>8. DOMAIN a = Key
    BY <2>1, <2>2, <2>3, <2>5, <2>6, <2>7 DEF Entered, Caught
  <2>9. a = s
    <3>1. Level(q, a, u, s, myGameInitId[Player], gameInitId)
      BY <2>1, <2>2, <2>3, <2>6 DEF Agreed, Heard, Hears
    <3>2. a = EmptyDict => Key = {} /\ DOMAIN s = {}
      BY <2>4, <2>8, EmptyDictIs, DictIs
    <3> QED BY <2>4, <2>7, <3>1, <3>2, EmptyDictIs DEF Level
  <2>10. cvars = a
    <3>1. \A k \in Key : cvars[k] = a[k]
      BY <2>1, <2>2, <2>3, <2>8 DEF Settled, Shown
    <3>2. IsDict(a)
      BY <2>4, DictIs
    <3>3. a = [k \in Key |-> a[k]] /\ cvars = [k \in Key |-> cvars[k]]
      BY <2>4, <2>8, <3>2 DEF IsDict
    <3>4. [k \in Key |-> a[k]] = [k \in Key |-> cvars[k]]
      BY <3>1
    <3> QED BY <3>3, <3>4
  <2> QED BY <2>3, <2>9, <2>10
<1> QED BY <1>1, Invariant, PTL
=============================================================================
