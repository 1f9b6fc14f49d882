-------------------------- MODULE Downloads_proofs --------------------------
(***************************************************************************)
(* Proofs about Downloads, for downloads of any size.  The two threads     *)
(* share the slot without a lock; the inductive invariant says which of    *)
(* them has it, and what it has done so far, as long as the slot was free  *)
(* when it was filled in and nobody connects under the box.                *)
(***************************************************************************)
EXTENDS Downloads, SequenceTheorems, TLAPS

\* The main thread waits for a download, or is about to.
Asked == main.at \in {"push", "trigger", "open", "box", "check", "abort", "ended"}

\* The slot has been asked for and nothing is left to do for it but to say so.
Answered == Asked /\ main.at # "push" /\ ~listed /\ (thread.at = "complete" \/ ~Busy)

MainType ==
  [at : {"frame", "next", "push", "trigger", "open", "box", "check", "abort", "ended"},
   kind : {"pak", "update"}, running : BOOLEAN,
   cancelled : {"no", "early", "during", "late"}, hasty : BOOLEAN]
ThreadType ==
  [at : {"look", "wait", "asleep", "taken", "setup", "perform", "failed", "done", "complete"},
   url : Nat, left : 0 .. Size, stalled : BOOLEAN]
SlotType(n) ==
  [completed : BOOLEAN, next : BOOLEAN, file : 0 .. n, url : 0 .. n,
   status : {"WAIT", "INPROGRESS", "DONE", "ABORTING", "FAILED"}]
EventType == [signaled : BOOLEAN, waiting : BOOLEAN, woken : BOOLEAN]
FileType == [parts : Seq(Nat \X Nat), open : BOOLEAN]

Types ==
  /\ TypeOK
  /\ main \in MainType
  /\ thread \in ThreadType
  /\ files \in Seq(FileType)
  /\ connects \in Nat

\* Whoever may read the slot finds a file in it, the one the download is for.
Given ==
  /\ Asked \/ listed \/ Busy => slot.file > 0
  /\ slot.url = slot.file
  /\ Asked /\ main.kind = "pak" => dlList > 0

\* The player can cancel once.
CancelsOnce ==
  /\ main.at \in {"push", "trigger", "open"} => main.cancelled = "no"
  /\ main.at = "box" => main.running
  /\ main.at = "abort" => ~main.running
  /\ main.at \in {"check", "abort"} /\ ~main.running => main.cancelled = "no"

\* The slot is with the main thread, in the list, or with the thread.
InTurn ==
  /\ main.at \in {"frame", "next", "push", "ended"} => ~listed /\ ~Busy
  /\ main.at = "trigger" => listed
  /\ listed => ~Busy
  /\ listed \/ Busy => ~slot.next
  /\ Asked => (slot.completed <=> main.at # "push" /\ ~listed /\ ~Busy)

\* What is in the file goes with what the thread has done.
Progress ==
  LET parts == files[slot.file].parts
  IN  /\ main.at = "push" \/ listed \/ thread.at \in {"taken", "setup"} => parts = <<>>
      /\ thread.at = "perform" =>
           /\ thread.url = slot.url
           /\ Len(parts) = Size - thread.left
           /\ \A n \in 1 .. Len(parts) : parts[n] = <<slot.url, n>>
      /\ thread.at = "done" => parts = Download(slot.url)

Verdicts ==
  /\ Answered =>
       /\ slot.status \in {"DONE", "FAILED"}
            \cup (IF main.cancelled = "late" THEN {"ABORTING"} ELSE {})
       /\ slot.status = "DONE" => files[slot.file].parts = Download(slot.url)
  /\ Asked /\ main.cancelled = "during" =>
       \/ thread.at = "perform" /\ slot.status = "ABORTING"
       \/ thread.at \in {"failed", "done"}
       \/ Answered

IInv ==
  /\ Types
  /\ Given
  /\ CancelsOnce
  /\ ~main.hasty => InTurn
  /\ ~main.hasty /\ slot.file > 0 => Progress
  /\ ~main.hasty => Verdicts

-----------------------------------------------------------------------------
(* What the steps do to the files *)

LEMMA FillFacts ==
  ASSUME IInv, NEW kind \in {"pak", "update"}, Fill(kind)
  PROVE  /\ Len(files') = Len(files) + 1 /\ Len(files') <= MaxDownloads /\ Len(files') \in Nat
         /\ Len(files') > 0
         /\ files' \in Seq(FileType)
         /\ files'[Len(files')].parts = <<>>
         /\ slot'.completed = FALSE /\ slot'.status = "WAIT" /\ slot'.next = slot.next
         /\ slot'.file = Len(files') /\ slot'.url = Len(files')
         /\ slot' \in SlotType(Len(files'))
<1> DEFINE new == [parts |-> <<>>, open |-> TRUE]
           n == Len(files)
<1>1. /\ n < MaxDownloads
      /\ files' = Append(files, new)
      /\ slot' = [slot EXCEPT !.completed = FALSE, !.status = "WAIT",
                              !.file = Len(files'), !.url = Len(files')]
  BY DEF Fill
<1>2. files \in Seq(FileType)
  BY DEF IInv, Types
<1>3. new \in FileType /\ new.parts = <<>>
  BY DEF FileType
<1> HIDE DEF new
<1>4. /\ files' \in Seq(FileType)
      /\ n \in Nat /\ Len(files') = n + 1 /\ files'[n + 1] = new
  BY <1>1, <1>2, <1>3, AppendProperties
<1> HIDE DEF n
<1>5. n + 1 <= MaxDownloads /\ n + 1 > 0
  BY <1>1, <1>4, DownloadsAssumption
<1>6. slot \in SlotType(n)
  BY DEF IInv, Types, TypeOK, n, SlotType
<1> DEFINE k == Len(files')
<1>7. k = n + 1 /\ k \in Nat /\ k <= MaxDownloads /\ k > 0 /\ files'[k] = new
  BY <1>4, <1>5
<1>8. slot' = [slot EXCEPT !.completed = FALSE, !.status = "WAIT", !.file = k, !.url = k]
  BY <1>1
<1> HIDE DEF k
<1>9. /\ slot'.completed = FALSE /\ slot'.status = "WAIT" /\ slot'.next = slot.next
      /\ slot'.file = k /\ slot'.url = k
      /\ slot' \in SlotType(k)
  <2>1. k \in 0 .. k
    BY <1>7
  <2> QED BY <1>6, <1>8, <2>1 DEF SlotType
<1> QED BY <1>3, <1>4, <1>7, <1>9 DEF n, k

\* A file is closed, and keeps what is in it.
LEMMA CloseFacts ==
  ASSUME IInv, files' = [files EXCEPT ![slot.file].open = FALSE]
  PROVE  /\ files' \in Seq(FileType)
         /\ Len(files') = Len(files)
         /\ \A n \in 1 .. Len(files) : files'[n].parts = files[n].parts
<1> DEFINE F == FileType
           n == Len(files)
<1>1. files \in Seq(F) /\ n \in Nat /\ DOMAIN files = 1 .. n
  BY DEF IInv, Types
<1> HIDE DEF n
<1>2. \A f \in F : [f EXCEPT !.open = FALSE] \in F /\ [f EXCEPT !.open = FALSE].parts = f.parts
  BY DEF FileType
<1> HIDE DEF F
<1>3. files \in [1 .. n -> F]
  BY <1>1 DEF n
<1>4. files' \in [1 .. n -> F] /\ \A i \in 1 .. n : files'[i].parts = files[i].parts
  BY <1>2, <1>3
<1>5. files' \in Seq(F) /\ Len(files') = n
  BY <1>1, <1>4
<1> QED BY <1>4, <1>5 DEF F, n

\* What curl writes goes to the end of the file.
LEMMA PerformFacts ==
  ASSUME IInv, Perform
  PROVE  /\ files' \in Seq(FileType)
         /\ Len(files') = Len(files)
         /\ slot.file \in 1 .. Len(files)
         /\ files'[slot.file].parts =
              Append(files[slot.file].parts, <<thread.url, Size + 1 - thread.left>>)
         /\ files[slot.file].parts \in Seq(Nat \X Nat)
         /\ thread.left \in 1 .. Size /\ thread.url \in Nat
<1> DEFINE F == FileType
           n == Len(files)
           k == slot.file
           part == <<thread.url, Size + 1 - thread.left>>
<1>1. files \in Seq(F) /\ n \in Nat /\ DOMAIN files = 1 .. n
  BY DEF IInv, Types
<1>2. k \in 1 .. n
  <2>1. k \in 0 .. n /\ k > 0
    BY DEF IInv, Types, TypeOK, Given, Perform, Busy
  <2> QED BY <1>1, <2>1
<1>3. thread.left \in 1 .. Size /\ thread.url \in Nat
  <2>1. thread.left \in 0 .. Size /\ thread.left > 0 /\ thread.url \in Nat
    BY DEF IInv, Types, Perform, ThreadType
  <2> QED BY <2>1, DownloadsAssumption
<1>4. part \in Nat \X Nat
  <2>1. Size + 1 - thread.left \in Nat
    BY <1>3, DownloadsAssumption
  <2> QED BY <1>3, <2>1
<1>5. files' = [files EXCEPT ![k].parts = Append(@, part)]
  BY DEF Perform
<1>6. \A f \in F : /\ f.parts \in Seq(Nat \X Nat)
                   /\ [f EXCEPT !.parts = Append(f.parts, part)] \in F
                   /\ [f EXCEPT !.parts = Append(f.parts, part)].parts = Append(f.parts, part)
  <2> HIDE DEF part
  <2>1. \A p \in Seq(Nat \X Nat) : Append(p, part) \in Seq(Nat \X Nat)
    BY <1>4, AppendProperties
  <2> QED BY <2>1 DEF FileType
<1> HIDE DEF F, k, part
<1>7. files \in [1 .. n -> F]
  BY <1>1
<1> HIDE DEF n
<1>8. files[k] \in F
  BY <1>2, <1>7
<1>9. files' = [files EXCEPT ![k] = [files[k] EXCEPT !.parts = Append(files[k].parts, part)]]
  BY <1>5
<1>10. files' \in [1 .. n -> F] /\ files'[k].parts = Append(files[k].parts, part)
  BY <1>2, <1>6, <1>7, <1>8, <1>9
<1>11. files' \in Seq(F) /\ Len(files') = n
  BY <1>1, <1>10
<1> QED BY <1>2, <1>3, <1>6, <1>8, <1>10, <1>11 DEF F, n, k, part

-----------------------------------------------------------------------------
(* The types *)

LEMMA TypesAre ==
  Types <=>
    /\ slot \in SlotType(Len(files)) /\ listed \in BOOLEAN /\ event \in EventType
    /\ event.waiting <=> thread.at = "asleep"
    /\ dlList \in 0 .. 2 /\ update \in {"SENT", "READY", "DLING", "DONE"}
    /\ Len(files) <= MaxDownloads
    /\ slot.file > 0 /\ ~main.hasty => Len(files[slot.file].parts) <= Size
    /\ main \in MainType /\ thread \in ThreadType
    /\ files \in Seq(FileType) /\ connects \in Nat
BY DEF Types, TypeOK, SlotType, EventType

LEMMA TypesAreNext ==
  Types' <=>
    /\ slot' \in SlotType(Len(files')) /\ listed' \in BOOLEAN /\ event' \in EventType
    /\ event'.waiting <=> thread'.at = "asleep"
    /\ dlList' \in 0 .. 2 /\ update' \in {"SENT", "READY", "DLING", "DONE"}
    /\ Len(files') <= MaxDownloads
    /\ slot'.file > 0 /\ ~main'.hasty => Len(files'[slot'.file].parts) <= Size
    /\ main' \in MainType /\ thread' \in ThreadType
    /\ files' \in Seq(FileType) /\ connects' \in Nat
BY DEF Types, TypeOK, SlotType, EventType

\* Steps that leave the files as they are.
LEMMA TypesKept ==
  ASSUME IInv, UNCHANGED files,
         slot' \in SlotType(Len(files)), slot'.file = slot.file,
         main' \in MainType, main.hasty => main'.hasty, thread' \in ThreadType,
         listed' \in BOOLEAN, event' \in EventType, event'.waiting <=> thread'.at = "asleep",
         dlList' \in 0 .. 2, update' \in {"SENT", "READY", "DLING", "DONE"}, connects' \in Nat
  PROVE  Types'
BY TypesAre, TypesAreNext DEF IInv

LEMMA SlotKept ==
  ASSUME NEW n, NEW s \in SlotType(n)
  PROVE  /\ \A b \in BOOLEAN : /\ [s EXCEPT !.completed = b] \in SlotType(n)
                               /\ [s EXCEPT !.completed = b].file = s.file
                               /\ [s EXCEPT !.next = b] \in SlotType(n)
                               /\ [s EXCEPT !.next = b].file = s.file
         /\ \A t \in {"WAIT", "INPROGRESS", "DONE", "ABORTING", "FAILED"} :
              /\ [s EXCEPT !.status = t] \in SlotType(n)
              /\ [s EXCEPT !.status = t].file = s.file
BY DEF SlotType

LEMMA MainTypes ==
  ASSUME IInv,
         \/ Answer \/ VersionReply \/ Connect \/ Push \/ Trigger \/ OpenBox \/ BoxFrame
         \/ BoxCheck \/ Abort
  PROVE  Types'
<1> USE DEF At, MainGoes
<1>1. /\ slot \in SlotType(Len(files)) /\ listed \in BOOLEAN /\ event \in EventType
      /\ event.waiting <=> thread.at = "asleep"
      /\ dlList \in 0 .. 2 /\ update \in {"SENT", "READY", "DLING", "DONE"}
      /\ main \in MainType /\ thread \in ThreadType /\ connects \in Nat
  BY TypesAre DEF IInv
<1>2. CASE Answer
  <2>1. dlList' \in 0 .. 2
    BY <1>2 DEF Answer
  <2> QED BY <1>1, <1>2, <2>1, TypesKept DEF Answer
<1>3. CASE VersionReply
  BY <1>1, <1>3, TypesKept DEF VersionReply
<1>4. CASE Connect
  <2>1. main' \in MainType /\ (main.hasty => main'.hasty)
    BY <1>1, <1>4 DEF Connect, MainType, Busy
  <2>2. connects' \in Nat
    BY <1>1, <1>4 DEF Connect
  <2>3. slot' \in SlotType(Len(files)) /\ slot'.file = slot.file
    BY <1>1, <1>4, SlotKept DEF Connect
  <2> QED BY <1>1, <1>4, <2>1, <2>2, <2>3, TypesKept DEF Connect
<1>5. CASE Push
  <2>1. main' \in MainType /\ main'.hasty = main.hasty
    BY <1>1, <1>5 DEF Push, MainType
  <2>2. slot' \in SlotType(Len(files)) /\ slot'.file = slot.file
    BY <1>1, <1>5, SlotKept DEF Push
  <2> QED BY <1>1, <1>5, <2>1, <2>2, TypesKept DEF Push
<1>6. CASE Trigger
  <2>1. main' \in MainType /\ main'.hasty = main.hasty
    BY <1>1, <1>6 DEF Trigger, MainType
  <2>2. event' \in EventType /\ event'.waiting = event.waiting
    BY <1>1, <1>6 DEF Trigger, EventType, Signaled
  <2> QED BY <1>1, <1>6, <2>1, <2>2, TypesKept DEF Trigger
<1>7. CASE OpenBox
  <2>1. main' \in MainType /\ (main.hasty => main'.hasty)
    BY <1>1, <1>7 DEF OpenBox, MainType
  <2> QED BY <1>1, <1>7, <2>1, TypesKept DEF OpenBox
<1>8. CASE BoxFrame
  <2>1. main' \in MainType /\ main'.hasty = main.hasty
    BY <1>1, <1>8 DEF BoxFrame, MainType
  <2> QED BY <1>1, <1>8, <2>1, TypesKept DEF BoxFrame
<1>9. CASE BoxCheck
  <2>1. main' \in MainType /\ main'.hasty = main.hasty
    BY <1>1, <1>9 DEF BoxCheck, MainType
  <2> QED BY <1>1, <1>9, <2>1, TypesKept DEF BoxCheck
<1>10. CASE Abort
  <2>1. main' \in MainType /\ main'.hasty = main.hasty
    BY <1>1, <1>10 DEF Abort, MainType, When
  <2>2. slot' \in SlotType(Len(files)) /\ slot'.file = slot.file
    BY <1>1, <1>10, SlotKept DEF Abort
  <2> QED BY <1>1, <1>10, <2>1, <2>2, TypesKept DEF Abort
<1> QED BY <1>2, <1>3, <1>4, <1>5, <1>6, <1>7, <1>8, <1>9, <1>10

LEMMA CallBackFacts ==
  ASSUME thread \in ThreadType, CallBack
  PROVE  /\ thread' \in ThreadType /\ thread.at = "perform" /\ thread'.at = "failed"
         /\ UNCHANGED <<slot, listed, event, main, dlList, update, files, connects>>
<1> DEFINE t == [thread EXCEPT !.at = "failed"]
<1>1. t \in ThreadType /\ t.at = "failed"
  BY DEF ThreadType
<1>2. thread' = [t EXCEPT !.stalled = FALSE]
  BY DEF CallBack
<1>3. \A u \in ThreadType : /\ [u EXCEPT !.stalled = FALSE] \in ThreadType
                            /\ [u EXCEPT !.stalled = FALSE].at = u.at
  BY DEF ThreadType
<1> HIDE DEF t
<1>4. thread' \in ThreadType /\ thread'.at = "failed"
  BY <1>1, <1>2, <1>3
<1> QED BY <1>4 DEF CallBack

LEMMA ThreadTypes ==
  ASSUME IInv,
         \/ Look \/ Wait \/ WakeUp \/ Unlink \/ SetUp \/ CallBack \/ PerformFails
         \/ PerformEnds \/ Stall \/ SetStatus \/ Complete
  PROVE  Types'
<1> USE DEF ThreadGoes
<1>1. /\ slot \in SlotType(Len(files)) /\ listed \in BOOLEAN /\ event \in EventType
      /\ event.waiting <=> thread.at = "asleep"
      /\ dlList \in 0 .. 2 /\ update \in {"SENT", "READY", "DLING", "DONE"}
      /\ main \in MainType /\ thread \in ThreadType /\ connects \in Nat
  BY TypesAre DEF IInv
<1>2. CASE Look
  <2>1. /\ thread' \in ThreadType /\ thread'.at # "asleep" /\ listed' \in BOOLEAN
        /\ thread.at # "asleep"
    BY <1>1, <1>2 DEF Look, ThreadType, SlotType
  <2> QED BY <1>1, <1>2, <2>1, TypesKept DEF Look
<1>3. CASE Wait
  <2>1. thread' \in ThreadType /\ event' \in EventType /\ (event'.waiting <=> thread'.at = "asleep")
    BY <1>1, <1>3 DEF Wait, ThreadType, EventType
  <2> QED BY <1>1, <1>3, <2>1, TypesKept DEF Wait
<1>4. CASE WakeUp
  <2>1. thread' \in ThreadType /\ event' \in EventType /\ (event'.waiting <=> thread'.at = "asleep")
    BY <1>1, <1>4 DEF WakeUp, Awake, ThreadType, EventType
  <2> QED BY <1>1, <1>4, <2>1, TypesKept DEF WakeUp
<1>5. CASE Unlink \/ Complete
  <2>1. thread' \in ThreadType /\ thread'.at # "asleep" /\ thread.at # "asleep"
    BY <1>1, <1>5 DEF Unlink, Complete, ThreadType
  <2>2. slot' = [slot EXCEPT !.next = FALSE] \/ slot' = [slot EXCEPT !.completed = TRUE]
    BY <1>5 DEF Unlink, Complete
  <2>3. slot' \in SlotType(Len(files)) /\ slot'.file = slot.file
    BY <1>1, <2>2, SlotKept
  <2> QED BY <1>1, <1>5, <2>1, <2>3, TypesKept DEF Unlink, Complete
<1>6. CASE SetUp
  <2>1. slot.url \in Nat /\ Size \in 0 .. Size
    <3>1. slot.url \in 0 .. Len(files)
      BY <1>1 DEF SlotType
    <3> QED BY <3>1, DownloadsAssumption
  <2>2. thread' \in ThreadType /\ thread'.at # "asleep" /\ thread.at # "asleep"
    <3>1. \/ thread' = [thread EXCEPT !.at = "complete"]
          \/ thread' = [at |-> "perform", url |-> slot.url, left |-> Size, stalled |-> FALSE]
      BY <1>6 DEF SetUp
    <3>2. thread.at = "setup"
      BY <1>6 DEF SetUp
    <3>3. CASE thread' = [thread EXCEPT !.at = "complete"]
      BY <1>1, <3>2, <3>3 DEF ThreadType
    <3>4. CASE thread' = [at |-> "perform", url |-> slot.url, left |-> Size, stalled |-> FALSE]
      BY <2>1, <3>2, <3>4 DEF ThreadType
    <3> QED BY <3>1, <3>3, <3>4
  <2>3. slot' \in SlotType(Len(files)) /\ slot'.file = slot.file
    BY ZenonT(60), <1>1, <1>6, SlotKept DEF SetUp
  <2> QED BY <1>1, <1>6, <2>2, <2>3, TypesKept DEF SetUp
<1>7. CASE CallBack \/ PerformFails \/ PerformEnds \/ Stall
  <2>1. thread' \in ThreadType /\ thread'.at # "asleep" /\ thread.at # "asleep"
    <3>1. CASE CallBack
      <4>1. thread' \in ThreadType /\ thread.at = "perform" /\ thread'.at = "failed"
        BY <1>1, <3>1, CallBackFacts
      <4> QED BY <4>1
    <3>2. CASE PerformFails \/ PerformEnds
      BY <1>1, <3>2 DEF PerformFails, PerformEnds, ThreadType
    <3>3. CASE Stall
      BY <1>1, <3>3 DEF Stall, ThreadType
    <3> QED BY <1>7, <3>1, <3>2, <3>3
  <2> QED BY <1>1, <1>7, <2>1, TypesKept DEF CallBack, PerformFails, PerformEnds, Stall
<1>8. CASE SetStatus
  <2>1. thread' \in ThreadType /\ thread'.at # "asleep" /\ thread.at # "asleep"
    BY <1>1, <1>8 DEF SetStatus, ThreadType
  <2>2. slot' \in SlotType(Len(files)) /\ slot'.file = slot.file
    BY <1>1, <1>8, SlotKept DEF SetStatus, Verdict
  <2> QED BY <1>1, <1>8, <2>1, <2>2, TypesKept DEF SetStatus
<1> QED BY <1>2, <1>3, <1>4, <1>5, <1>6, <1>7, <1>8

\* A new file, one that is closed, and one that is written to.
LEMMA FillTypes ==
  ASSUME IInv, NEW kind \in {"pak", "update"}, Fill(kind),
         update' \in {"SENT", "READY", "DLING", "DONE"}
  PROVE  Types'
<1>1. /\ listed \in BOOLEAN /\ event \in EventType
      /\ event.waiting <=> thread.at = "asleep"
      /\ dlList \in 0 .. 2 /\ main \in MainType /\ thread \in ThreadType /\ connects \in Nat
  BY TypesAre DEF IInv
<1>2. /\ main' = [main EXCEPT !.at = "push", !.kind = kind, !.cancelled = "no",
                              !.hasty = listed \/ Busy]
      /\ UNCHANGED <<listed, event, thread, dlList, connects>>
  BY DEF Fill
<1>3. main' \in MainType
  <2>1. (listed \/ Busy) \in BOOLEAN
    BY <1>1 DEF Busy
  <2> QED BY <1>1, <1>2, <2>1 DEF MainType
<1>4. Len(files'[slot'.file].parts) <= Size
  <2>1. files'[slot'.file].parts = <<>>
    BY FillFacts
  <2> QED BY <2>1, DownloadsAssumption
<1> QED BY <1>1, <1>2, <1>3, <1>4, FillFacts, TypesAreNext

LEMMA FinishTypes ==
  ASSUME IInv, FinishPak \/ FinishUpdate
  PROVE  Types'
<1>1. /\ slot \in SlotType(Len(files)) /\ listed \in BOOLEAN /\ event \in EventType
      /\ event.waiting <=> thread.at = "asleep"
      /\ dlList \in 0 .. 2 /\ update \in {"SENT", "READY", "DLING", "DONE"}
      /\ Len(files) <= MaxDownloads
      /\ slot.file > 0 /\ ~main.hasty => Len(files[slot.file].parts) <= Size
      /\ main \in MainType /\ thread \in ThreadType /\ connects \in Nat
      /\ files \in Seq(FileType)
  BY TypesAre DEF IInv
<1>2. UNCHANGED <<slot, listed, event, thread, connects>>
  BY DEF FinishPak, FinishUpdate
<1>3. /\ files' \in Seq(FileType)
      /\ Len(files') = Len(files)
      /\ \A n \in 1 .. Len(files) : files'[n].parts = files[n].parts
  <2>1. files' = [files EXCEPT ![slot.file].open = FALSE] \/ files' = files
    BY DEF FinishPak, FinishUpdate
  <2> QED BY <1>1, <2>1, CloseFacts
<1>4. main' \in MainType /\ main'.hasty = main.hasty
  BY <1>1 DEF FinishPak, FinishUpdate, MainGoes, MainType
<1>5. dlList' \in 0 .. 2 /\ update' \in {"SENT", "READY", "DLING", "DONE"}
  <2>1. CASE FinishPak
    <3>1. dlList \in 1 .. 2 /\ dlList \in Nat
      BY <1>1, <2>1 DEF IInv, Given, Asked, FinishPak, At
    <3>2. dlList' = dlList - 1 \/ dlList' = 0
      BY <2>1 DEF FinishPak
    <3> QED BY <1>1, <2>1, <3>1, <3>2 DEF FinishPak
  <2>2. CASE FinishUpdate
    BY <1>1, <2>2 DEF FinishUpdate
  <2> QED BY <2>1, <2>2
<1>6. slot.file > 0 => slot.file \in 1 .. Len(files)
  BY <1>1 DEF SlotType
<1> QED BY <1>1, <1>2, <1>3, <1>4, <1>5, <1>6, TypesAreNext

LEMMA PartFacts ==
  ASSUME NEW n \in Nat, NEW k \in 1 .. n
  PROVE  k \in Nat /\ k \in Int /\ k >= 1 /\ k <= n
OBVIOUS

LEMMA SizeIsNat == Size \in Nat /\ Size \in Int
BY DownloadsAssumption

LEMMA PerformTypes ==
  ASSUME IInv, Perform
  PROVE  Types'
<1>1. /\ slot \in SlotType(Len(files)) /\ listed \in BOOLEAN /\ event \in EventType
      /\ event.waiting <=> thread.at = "asleep"
      /\ dlList \in 0 .. 2 /\ update \in {"SENT", "READY", "DLING", "DONE"}
      /\ Len(files) <= MaxDownloads
      /\ main \in MainType /\ thread \in ThreadType /\ connects \in Nat
  BY TypesAre DEF IInv
<1>2. /\ files' \in Seq(FileType)
      /\ Len(files') = Len(files)
      /\ files'[slot.file].parts =
           Append(files[slot.file].parts, <<thread.url, Size + 1 - thread.left>>)
      /\ files[slot.file].parts \in Seq(Nat \X Nat)
      /\ thread.left \in 1 .. Size /\ thread.url \in Nat
  BY PerformFacts
<1>3. UNCHANGED <<slot, listed, event, main, dlList, update, connects>>
  BY DEF Perform
<1>4. thread' = [thread EXCEPT !.left = @ - 1] /\ thread.at = "perform" /\ slot.file > 0
  BY DEF Perform, IInv, Given, Busy
<1>5. thread' \in ThreadType /\ thread'.at = "perform"
  <2> DEFINE left == thread.left - 1
  <2>1. left \in 0 .. Size
    <3>1. thread.left \in Nat /\ thread.left >= 1 /\ thread.left <= Size
      BY Zenon, <1>2, SizeIsNat, PartFacts
    <3> QED BY <3>1, DownloadsAssumption
  <2>2. thread' = [thread EXCEPT !.left = left]
    BY <1>4
  <2> HIDE DEF left
  <2> QED BY <1>1, <1>4, <2>1, <2>2 DEF ThreadType
<1>6. ~main.hasty => Len(files'[slot.file].parts) <= Size
  <2> SUFFICES ASSUME ~main.hasty PROVE Len(files'[slot.file].parts) <= Size
    OBVIOUS
  <2> DEFINE p == files[slot.file].parts
             e == <<thread.url, Size + 1 - thread.left>>
             a == Len(p)
  <2>1. a = Size - thread.left
    BY <1>4 DEF IInv, Progress
  <2>2. p \in Seq(Nat \X Nat) /\ files'[slot.file].parts = Append(p, e)
    BY <1>2
  <2>3. Len(files'[slot.file].parts) = a + 1
    <3> HIDE DEF p, e
    <3>1. Len(Append(p, e)) = Len(p) + 1
      BY <2>2
    <3> QED BY <2>2, <3>1
  <2> HIDE DEF a
  <2>4. a + 1 <= Size
    <3>1. thread.left \in Nat /\ thread.left >= 1 /\ thread.left <= Size
      BY Zenon, <1>2, SizeIsNat, PartFacts
    <3> QED BY <2>1, <3>1, DownloadsAssumption
  <2> QED BY <2>3, <2>4
<1> QED BY <1>1, <1>2, <1>3, <1>4, <1>5, <1>6, TypesAreNext

LEMMA TypesStep ==
  ASSUME IInv, Next
  PROVE  Types'
<1>1. CASE StartUpdate
  <2>1. CASE UNCHANGED <<slot, listed, event, thread, main, dlList, files, connects>>
    BY <1>1, <2>1, TypesAre, TypesAreNext DEF StartUpdate, IInv
  <2>2. CASE Fill("update")
    BY <1>1, <2>2, FillTypes DEF StartUpdate
  <2> QED BY <1>1, <2>1, <2>2 DEF StartUpdate
<1>2. CASE StartPak
  <2>1. update' \in {"SENT", "READY", "DLING", "DONE"}
    BY <1>2, TypesAre DEF StartPak, IInv
  <2> QED BY <1>2, <2>1, FillTypes DEF StartPak
<1> QED BY <1>1, <1>2, MainTypes, ThreadTypes, FinishTypes, PerformTypes
        DEF Next, MainNext, ThreadNext, Woken, WokenByItself

-----------------------------------------------------------------------------
(* Who has the slot, whatever else happens *)

\* The steps that start a download fill in the slot; the others do not.
Starts == StartUpdate \/ StartPak

LEMMA StartsFill ==
  ASSUME IInv, Starts
  PROVE  \/ UNCHANGED <<slot, listed, event, thread, main, dlList, files, connects>>
         \/ \E kind \in {"pak", "update"} : /\ Fill(kind)
                                            /\ kind = "pak" => dlList > 0
BY DEF Starts, StartUpdate, StartPak

LEMMA GivenStep ==
  ASSUME IInv, Next
  PROVE  Given'
<1> USE DEF At, MainGoes, ThreadGoes
<1>1. /\ slot \in SlotType(Len(files)) /\ main \in MainType /\ thread \in ThreadType
      /\ dlList \in 0 .. 2
  BY TypesAre DEF IInv
<1>2. /\ Asked \/ listed \/ Busy => slot.file > 0
      /\ slot.url = slot.file
      /\ Asked /\ main.kind = "pak" => dlList > 0
  BY DEF IInv, Given
<1>3. ASSUME NEW kind \in {"pak", "update"}, Fill(kind), kind = "pak" => dlList > 0
      PROVE  Given'
  <2>1. slot'.file > 0 /\ slot'.url = slot'.file
    BY <1>3, FillFacts
  <2>2. main'.kind = kind /\ dlList' = dlList
    BY <1>1, <1>3 DEF Fill, MainType
  <2> QED BY <1>3, <2>1, <2>2 DEF Given
<1>4. CASE Starts
  <2>1. CASE UNCHANGED <<slot, listed, event, thread, main, dlList, files, connects>>
    BY <1>2, <2>1 DEF Given, Asked, Busy
  <2> QED BY <1>3, <1>4, <2>1, StartsFill
<1>5. ASSUME slot'.file = slot.file, slot'.url = slot.url,
             Asked' \/ listed' \/ Busy' => Asked \/ listed \/ Busy,
             Asked' /\ main'.kind = "pak" => Asked /\ main.kind = "pak" /\ dlList' = dlList
      PROVE  Given'
  BY <1>2, <1>5 DEF Given
<1>6. CASE Answer \/ VersionReply
  BY <1>5, <1>6 DEF Answer, VersionReply, Asked, Busy
<1>7. CASE Connect
  <2>1. slot'.file = slot.file /\ slot'.url = slot.url
    BY <1>1, <1>7 DEF Connect, SlotType
  <2>2. Asked' => Asked /\ main'.kind = main.kind
    BY <1>1, <1>7 DEF Connect, MainType, Asked
  <2> QED BY <1>5, <1>7, <2>1, <2>2 DEF Connect, Busy
<1>8. CASE Push \/ Abort
  <2>1. slot'.file = slot.file /\ slot'.url = slot.url
    BY <1>1, <1>8 DEF Push, Abort, SlotType
  <2>2. Asked /\ main'.kind = main.kind
    BY <1>1, <1>8 DEF Push, Abort, MainType, Asked
  <2> QED BY <1>5, <1>8, <2>1, <2>2 DEF Push, Abort
<1>9. CASE Trigger \/ OpenBox \/ BoxFrame \/ BoxCheck
  <2>1. Asked /\ main'.kind = main.kind
    BY <1>1, <1>9 DEF Trigger, OpenBox, BoxFrame, BoxCheck, MainType, Asked
  <2> QED BY <1>5, <1>9, <2>1 DEF Trigger, OpenBox, BoxFrame, BoxCheck
<1>10. CASE FinishPak \/ FinishUpdate
  <2>1. ~Asked'
    BY <1>1, <1>10 DEF FinishPak, FinishUpdate, MainType, Asked
  <2> QED BY <1>5, <1>10, <2>1 DEF FinishPak, FinishUpdate, Busy
<1>11. ASSUME \/ Look \/ Wait \/ WakeUp \/ Unlink \/ SetUp \/ Perform \/ CallBack
              \/ PerformFails \/ PerformEnds \/ Stall \/ SetStatus \/ Complete
       PROVE  Given'
  <2>1. slot'.file = slot.file /\ slot'.url = slot.url
    BY <1>1, <1>11 DEF Look, Wait, WakeUp, Unlink, SetUp, Perform, CallBack, PerformFails,
                       PerformEnds, Stall, SetStatus, Verdict, Complete, SlotType
  <2>2. listed' \/ Busy' => listed \/ Busy
    BY <1>1, <1>11 DEF Look, Wait, WakeUp, Unlink, SetUp, Perform, CallBack, PerformFails,
                       PerformEnds, Stall, SetStatus, Complete, ThreadType, Busy
  <2>3. main' = main /\ dlList' = dlList
    BY <1>11 DEF Look, Wait, WakeUp, Unlink, SetUp, Perform, CallBack, PerformFails,
                 PerformEnds, Stall, SetStatus, Complete
  <2> QED BY <1>5, <2>1, <2>2, <2>3 DEF Asked
<1> QED BY <1>4, <1>6, <1>7, <1>8, <1>9, <1>10, <1>11
        DEF Next, MainNext, ThreadNext, Woken, WokenByItself, Starts

LEMMA CancelsStep ==
  ASSUME IInv, Next
  PROVE  CancelsOnce'
<1> USE DEF At, MainGoes
<1>1. main \in MainType /\ CancelsOnce
  BY TypesAre DEF IInv
<1>2. CASE UNCHANGED main
  BY <1>1, <1>2 DEF CancelsOnce
<1>3. ASSUME NEW kind, Fill(kind) PROVE CancelsOnce'
  BY <1>1, <1>3 DEF Fill, CancelsOnce, MainType
<1>4. CASE Connect
  BY <1>1, <1>4 DEF Connect, CancelsOnce, MainType
<1>5. CASE Push \/ Trigger
  BY <1>1, <1>5 DEF Push, Trigger, CancelsOnce, MainType
<1>6. CASE OpenBox
  BY <1>1, <1>6 DEF OpenBox, CancelsOnce, MainType
<1>7. CASE BoxFrame
  BY <1>1, <1>7 DEF BoxFrame, CancelsOnce, MainType
<1>8. CASE BoxCheck
  BY <1>1, <1>8 DEF BoxCheck, CancelsOnce, MainType
<1>9. CASE Abort
  BY <1>1, <1>9 DEF Abort, CancelsOnce, MainType
<1>10. CASE FinishPak \/ FinishUpdate
  BY <1>1, <1>10 DEF FinishPak, FinishUpdate, CancelsOnce, MainType
<1>11. CASE Answer \/ VersionReply \/ ThreadNext \/ WokenByItself \/ Stall
  BY <1>2, <1>11 DEF Answer, VersionReply, ThreadNext, WokenByItself, WakeUp, Look, Wait, Woken,
       Unlink, SetUp, Perform, CallBack, PerformFails, PerformEnds, Stall, SetStatus, Complete
<1>12. CASE Starts
  BY <1>2, <1>3, <1>12, StartsFill
<1> QED BY <1>4, <1>5, <1>6, <1>7, <1>8, <1>9, <1>10, <1>11, <1>12 DEF Next, MainNext, Starts

\* Nobody but a new download makes haste good.
LEMMA InTurnStep ==
  ASSUME IInv, Next, ~main'.hasty
  PROVE  InTurn'
<1> USE DEF At, MainGoes, ThreadGoes
<1>1. /\ slot \in SlotType(Len(files)) /\ main \in MainType /\ thread \in ThreadType
      /\ listed \in BOOLEAN
      /\ ~main.hasty => InTurn
  BY TypesAre DEF IInv
<1>2. CASE Starts
  <2>1. CASE UNCHANGED <<slot, listed, event, thread, main, dlList, files, connects>>
    BY <1>1, <2>1 DEF InTurn, Busy, Asked
  <2>2. ASSUME NEW kind \in {"pak", "update"}, Fill(kind)
        PROVE  InTurn'
    <3>1. ~slot'.completed /\ UNCHANGED <<listed, thread>>
      BY <2>2, FillFacts DEF Fill
    <3>2. main'.at = "push" /\ ~listed /\ ~Busy
      BY <1>1, <2>2 DEF Fill, MainType, Busy
    <3> QED BY <3>1, <3>2 DEF InTurn, Busy
  <2> QED BY <1>2, <2>1, <2>2, StartsFill
<1>3. CASE Answer \/ VersionReply
  BY <1>1, <1>3 DEF Answer, VersionReply, InTurn, Busy, Asked
<1>4. CASE Connect
  BY <1>1, <1>4 DEF Connect, MainType, SlotType, InTurn, Busy, Asked
<1>5. CASE Push
  BY <1>1, <1>5 DEF Push, MainType, SlotType, InTurn, Busy, Asked
<1>6. CASE Trigger \/ OpenBox \/ BoxFrame \/ BoxCheck
  <2>1. UNCHANGED <<slot, listed, thread>>
    BY <1>6 DEF Trigger, OpenBox, BoxFrame, BoxCheck
  <2>2. /\ ~main.hasty /\ Asked /\ Asked' /\ main.at # "push"
        /\ main'.at \notin {"frame", "next", "push", "trigger"}
        /\ main'.at = "ended" => slot.completed
    <3>1. CASE Trigger
      BY <1>1, <3>1 DEF Trigger, MainType, Asked
    <3>2. CASE OpenBox
      BY <1>1, <3>2 DEF OpenBox, MainType, Asked
    <3>3. CASE BoxFrame
      BY <1>1, <3>3 DEF BoxFrame, MainType, Asked
    <3>4. CASE BoxCheck
      BY <1>1, <3>4 DEF BoxCheck, MainType, Asked
    <3> QED BY <1>6, <3>1, <3>2, <3>3, <3>4
  <2> QED BY <1>1, <2>1, <2>2 DEF InTurn, Busy
<1>8. CASE Abort
  BY <1>1, <1>8 DEF Abort, MainType, SlotType, InTurn, Busy, Asked
<1>9. CASE FinishPak \/ FinishUpdate
  BY <1>1, <1>9 DEF FinishPak, FinishUpdate, MainType, InTurn, Busy, Asked
<1>10. CASE Look
  BY <1>1, <1>10 DEF Look, ThreadType, InTurn, Busy, Asked
<1>11. CASE Wait \/ WakeUp
  BY <1>1, <1>11 DEF Wait, WakeUp, ThreadType, InTurn, Busy, Asked
<1>12. CASE Unlink
  BY <1>1, <1>12 DEF Unlink, ThreadType, SlotType, InTurn, Busy, Asked
<1>13. CASE SetUp
  BY <1>1, <1>13 DEF SetUp, ThreadType, SlotType, InTurn, Busy, Asked
<1>14. CASE Perform \/ PerformFails \/ PerformEnds \/ Stall
  BY <1>1, <1>14 DEF Perform, PerformFails, PerformEnds, Stall, ThreadType, InTurn, Busy, Asked
<1>15. CASE SetStatus
  BY <1>1, <1>15 DEF SetStatus, Verdict, ThreadType, SlotType, InTurn, Busy, Asked
<1>16. CASE Complete
  BY <1>1, <1>16 DEF Complete, ThreadType, SlotType, InTurn, Busy, Asked
<1>17. CASE CallBack
  BY <1>1, <1>17, CallBackFacts DEF InTurn, Busy, Asked
<1> QED BY <1>2, <1>3, <1>4, <1>5, <1>6, <1>8, <1>9, <1>10, <1>11, <1>12, <1>13, <1>14,
           <1>15, <1>16, <1>17 DEF Next, MainNext, ThreadNext, Woken, WokenByItself, Starts

-----------------------------------------------------------------------------
(* What is in the file *)

LEMMA ProgressStep ==
  ASSUME IInv, Next, ~main'.hasty, slot'.file > 0
  PROVE  Progress'
<1> USE DEF At, MainGoes, ThreadGoes
<1> DEFINE parts == files[slot.file].parts
<1>1. /\ slot \in SlotType(Len(files)) /\ main \in MainType /\ thread \in ThreadType
      /\ listed \in BOOLEAN
      /\ files \in Seq(FileType)
  BY TypesAre DEF IInv
<1>2. /\ ~main.hasty => InTurn
      /\ ~main.hasty /\ slot.file > 0 => Progress
  BY DEF IInv
<1>3. CASE Starts
  <2>1. CASE UNCHANGED <<slot, listed, event, thread, main, dlList, files, connects>>
    BY <1>2, <2>1 DEF Progress
  <2>2. ASSUME NEW kind \in {"pak", "update"}, Fill(kind)
        PROVE  Progress'
    <3>1. files'[slot'.file].parts = <<>>
      BY <2>2, FillFacts
    <3>2. UNCHANGED thread /\ ~Busy
      BY <1>1, <2>2 DEF Fill, MainType, Busy
    <3> QED BY <3>1, <3>2 DEF Progress, Busy
  <2> QED BY <1>3, <2>1, <2>2, StartsFill
<1>4. CASE FinishPak \/ FinishUpdate
  <2>1. UNCHANGED <<slot, listed, thread>>
    BY <1>4 DEF FinishPak, FinishUpdate
  <2>2. main'.at # "push" /\ ~listed /\ ~Busy
    BY <1>1, <1>2, <1>4 DEF FinishPak, FinishUpdate, MainType, InTurn
  <2> QED BY <2>1, <2>2 DEF Progress, Busy
<1>5. ASSUME UNCHANGED files, slot'.file = slot.file, slot'.url = slot.url, UNCHANGED thread,
             ~main.hasty, main'.at = "push" \/ listed' => main.at = "push" \/ listed
      PROVE  Progress'
  BY <1>2, <1>5 DEF Progress
<1>6. CASE Answer \/ VersionReply
  BY <1>5, <1>6 DEF Answer, VersionReply
<1>7. CASE Connect
  <2>1. slot'.file = slot.file /\ slot'.url = slot.url /\ ~main.hasty /\ main'.at # "push"
    BY <1>1, <1>7 DEF Connect, SlotType, MainType
  <2> QED BY <1>5, <1>7, <2>1 DEF Connect
<1>8. CASE Push \/ Abort
  <2>1. slot'.file = slot.file /\ slot'.url = slot.url
    BY <1>1, <1>8 DEF Push, Abort, SlotType
  <2>2. ~main.hasty /\ main'.at # "push" /\ (listed' => main.at = "push" \/ listed)
    <3>1. CASE Push
      BY <1>1, <3>1 DEF Push, MainType
    <3>2. CASE Abort
      <4>1. main' = [main EXCEPT !.at = "box", !.running = TRUE, !.cancelled = When]
            /\ UNCHANGED listed
        BY <3>2 DEF Abort
      <4> QED BY <1>1, <4>1 DEF MainType
    <3> QED BY <1>8, <3>1, <3>2
  <2> QED BY <1>5, <1>8, <2>1, <2>2 DEF Push, Abort
<1>9. CASE Trigger \/ OpenBox \/ BoxFrame \/ BoxCheck
  <2>1. UNCHANGED <<slot, listed, thread, files>>
    BY <1>9 DEF Trigger, OpenBox, BoxFrame, BoxCheck
  <2>2. ~main.hasty /\ main'.at # "push"
    BY <1>1, <1>9 DEF Trigger, OpenBox, BoxFrame, BoxCheck, MainType
  <2> QED BY <1>5, <2>1, <2>2
<1>10. CASE \/ Look \/ Wait \/ WakeUp \/ Unlink \/ PerformFails \/ SetStatus \/ Complete
  <2>1. UNCHANGED <<files, main>>
    BY <1>10 DEF Look, Wait, WakeUp, Unlink, PerformFails, SetStatus, Complete
  <2>2. slot'.file = slot.file /\ slot'.url = slot.url
    BY <1>1, <1>10 DEF Look, Wait, WakeUp, Unlink, PerformFails, SetStatus, Verdict, Complete,
                       SlotType
  <2>3. /\ thread'.at \notin {"perform", "done"}
        /\ listed' \/ thread'.at \in {"taken", "setup"} =>
             listed \/ thread.at \in {"taken", "setup"}
    BY <1>1, <1>10 DEF Look, Wait, WakeUp, Unlink, PerformFails, SetStatus, Complete, ThreadType
  <2> QED BY <1>2, <2>1, <2>2, <2>3 DEF Progress
<1>11. CASE SetUp
  <2>1. UNCHANGED <<files, main, listed>>
    BY <1>11 DEF SetUp
  <2>2. slot'.file = slot.file /\ slot'.url = slot.url
    BY <1>1, <1>11 DEF SetUp, SlotType
  <2>3. parts = <<>> /\ ~listed /\ main.at # "push"
    BY <1>2, <1>11, <2>1, <2>2 DEF SetUp, Progress, InTurn, Busy
  <2>4. /\ thread'.at \in {"perform", "complete"}
        /\ thread'.at = "perform" => thread'.left = Size /\ thread'.url = slot.url
    BY <1>1, <1>11 DEF SetUp, ThreadType
  <2>5. Len(parts) = Size - Size
    BY <2>3, DownloadsAssumption
  <2> QED BY <2>1, <2>2, <2>3, <2>4, <2>5 DEF Progress
<1>12. CASE PerformEnds
  <2>1. UNCHANGED <<files, main, listed, slot>>
    BY <1>12 DEF PerformEnds
  <2>2. thread.at = "perform" /\ thread.left = 0 /\ thread'.at = "done"
    BY <1>1, <1>12 DEF PerformEnds, ThreadType
  <2>3. ~listed /\ main.at # "push"
    BY <1>2, <2>1, <2>2 DEF InTurn, Busy
  <2>4. parts = Download(slot.url)
    <3> DEFINE p == parts
    <3>1. /\ Len(p) = Size - 0
          /\ \A n \in 1 .. Len(p) : p[n] = <<slot.url, n>>
      BY <1>2, <2>1, <2>2 DEF Progress
    <3>2. p \in Seq(Nat \X Nat)
      <4>1. slot.file \in 1 .. Len(files)
        BY <1>1, <2>1 DEF SlotType
      <4>2. files[slot.file] \in FileType
        BY <1>1, <4>1
      <4> QED BY <4>2 DEF FileType
    <3>3. Len(p) = Size
      BY <3>1, DownloadsAssumption
    <3> HIDE DEF p
    <3>4. p = [n \in 1 .. Size |-> p[n]]
      BY <3>2, <3>3
    <3>5. p = [n \in 1 .. Size |-> <<slot.url, n>>]
      BY <3>1, <3>3, <3>4
    <3> QED BY <3>5 DEF p, Download
  <2> QED BY <2>1, <2>2, <2>3, <2>4 DEF Progress
<1>13. CASE Perform
  <2>1. UNCHANGED <<main, listed, slot>>
    BY <1>13 DEF Perform
  <2>2. thread.at = "perform" /\ thread'.at = "perform" /\ thread'.url = thread.url
        /\ thread'.left = thread.left - 1
    BY <1>1, <1>13 DEF Perform, ThreadType
  <2>3. ~listed /\ main.at # "push"
    BY <1>2, <2>1, <2>2 DEF InTurn, Busy
  <2> DEFINE p == files[slot.file].parts
             q == files'[slot.file].parts
             left == thread.left
             e == <<thread.url, Size + 1 - left>>
             a == Len(p)
  <2>4. /\ thread.url = slot.url /\ a = Size - left
        /\ \A n \in 1 .. a : p[n] = <<slot.url, n>>
    BY <1>2, <2>1, <2>2 DEF Progress
  <2>5. p \in Seq(Nat \X Nat) /\ q = Append(p, e) /\ left \in 1 .. Size
    BY <1>13, PerformFacts
  <2>6. e = <<slot.url, a + 1>> /\ a \in Nat
    <3>1. left \in Nat /\ left <= Size /\ Size \in Nat
      BY Zenon, <2>5, SizeIsNat, PartFacts
    <3> HIDE DEF a, p, left
    <3>2. Size + 1 - left = a + 1 /\ a \in Nat
      BY <2>4, <3>1
    <3> QED BY <2>4, <3>2
  <2>7. Len(q) = a + 1 /\ \A n \in 1 .. a + 1 : q[n] = <<slot.url, n>>
    <3> HIDE DEF p, q, e
    <3>1. /\ Len(Append(p, e)) = Len(p) + 1
          /\ \A n \in 1 .. Len(p) : Append(p, e)[n] = p[n]
          /\ Append(p, e)[Len(p) + 1] = e
      BY <2>5
    <3> HIDE DEF a
    <3>2. \A n \in 1 .. a + 1 : n \in 1 .. a \/ n = a + 1
      BY <2>6
    <3> QED BY <2>4, <2>5, <2>6, <3>1, <3>2 DEF a
  <2>8. a + 1 = Size - (left - 1)
    <3>1. left \in Int /\ Size \in Int
      BY Zenon, <2>5, SizeIsNat, PartFacts
    <3> HIDE DEF a, left
    <3> QED BY <2>4, <3>1
  <2> HIDE DEF p, q, e, a
  <2>9. Len(q) = Size - thread'.left /\ \A n \in 1 .. Len(q) : q[n] = <<slot.url, n>>
    BY <2>2, <2>7, <2>8
  <2> QED BY <2>1, <2>2, <2>3, <2>4, <2>9 DEF Progress, q
<1>14. CASE Stall
  <2>1. UNCHANGED <<files, main, listed, slot>>
    BY <1>14 DEF Stall
  <2>2. thread'.at = thread.at /\ thread'.url = thread.url /\ thread'.left = thread.left
    BY <1>1, <1>14 DEF Stall, ThreadType
  <2> QED BY <1>2, <2>1, <2>2 DEF Progress
<1>15. CASE CallBack
  BY <1>1, <1>2, <1>15, CallBackFacts DEF Progress
<1> QED BY <1>3, <1>4, <1>6, <1>7, <1>8, <1>9, <1>10, <1>11, <1>12, <1>13, <1>14,
           <1>15 DEF Next, MainNext, ThreadNext, Woken, WokenByItself, Starts

-----------------------------------------------------------------------------
(* What the thread says of it *)

LEMMA VerdictsStep ==
  ASSUME IInv, Next, ~main'.hasty
  PROVE  Verdicts'
<1> USE DEF At, MainGoes, ThreadGoes
<1>1. /\ slot \in SlotType(Len(files)) /\ main \in MainType /\ thread \in ThreadType
      /\ listed \in BOOLEAN
  BY TypesAre DEF IInv
<1>2. /\ ~main.hasty => InTurn /\ Verdicts
      /\ ~main.hasty /\ slot.file > 0 => Progress
      /\ CancelsOnce
      /\ Asked \/ listed \/ Busy => slot.file > 0
      /\ slot.url = slot.file
  BY DEF IInv, Given
<1>3. CASE Starts
  <2>1. CASE UNCHANGED <<slot, listed, event, thread, main, dlList, files, connects>>
    BY <1>2, <2>1 DEF Verdicts, Answered, Asked, Busy
  <2>2. ASSUME NEW kind \in {"pak", "update"}, Fill(kind)
        PROVE  Verdicts'
    <3>1. main'.at = "push" /\ main'.cancelled = "no"
      BY <1>1, <2>2 DEF Fill, MainType
    <3> QED BY <3>1 DEF Verdicts, Answered
  <2> QED BY <1>3, <2>1, <2>2, StartsFill
<1>4. ASSUME ~Asked' PROVE Verdicts'
  BY <1>4 DEF Verdicts, Answered
<1>5. CASE FinishPak \/ FinishUpdate
  <2>1. ~Asked'
    BY <1>1, <1>5 DEF FinishPak, FinishUpdate, MainType, Asked
  <2> QED BY <1>4, <2>1
<1>6. CASE Push
  <2>1. listed' /\ main'.cancelled = main.cancelled /\ main.at = "push"
    BY <1>1, <1>6 DEF Push, MainType
  <2> QED BY <1>2, <2>1 DEF Verdicts, Answered, CancelsOnce
<1>7. CASE Trigger
  <2>1. /\ UNCHANGED listed /\ main'.cancelled = main.cancelled /\ main.at = "trigger"
        /\ ~main.hasty
    BY <1>1, <1>7 DEF Trigger, MainType
  <2>2. listed /\ main.cancelled = "no"
    BY <1>2, <2>1 DEF InTurn, CancelsOnce
  <2> QED BY <2>1, <2>2 DEF Verdicts, Answered
<1>8. ASSUME UNCHANGED <<thread, listed, files>>, slot'.status = slot.status,
             slot'.file = slot.file, slot'.url = slot.url, Asked', Asked,
             main.at # "push", main'.at # "push", main'.cancelled = main.cancelled, ~main.hasty
      PROVE  Verdicts'
  BY <1>2, <1>8 DEF Verdicts, Answered, Busy
<1>9. CASE OpenBox \/ BoxFrame \/ BoxCheck
  <2>1. UNCHANGED <<thread, listed, files, slot>>
    BY <1>9 DEF OpenBox, BoxFrame, BoxCheck
  <2>2. /\ Asked /\ Asked' /\ main.at # "push" /\ main'.at # "push"
        /\ main'.cancelled = main.cancelled /\ ~main.hasty
    BY <1>1, <1>9 DEF OpenBox, BoxFrame, BoxCheck, MainType, Asked
  <2> QED BY <1>8, <2>1, <2>2
<1>10. CASE Connect
  <2>1. slot'.status = slot.status /\ slot'.file = slot.file /\ slot'.url = slot.url
    BY <1>1, <1>10 DEF Connect, SlotType
  <2>2. /\ ~Asked' \/ (Asked /\ Asked' /\ main.at # "push" /\ main'.at # "push")
        /\ main'.cancelled = main.cancelled /\ ~main.hasty
    BY <1>1, <1>10 DEF Connect, MainType, Asked
  <2> QED BY <1>4, <1>8, <1>10, <2>1, <2>2 DEF Connect
<1>11. CASE Answer \/ VersionReply
  BY <1>2, <1>11 DEF Answer, VersionReply, Verdicts, Answered, Asked, Busy
<1>12. CASE Abort
  <2>1. UNCHANGED <<thread, listed>> /\ slot'.status = "ABORTING"
    BY <1>1, <1>12 DEF Abort, SlotType
  <2>2. main'.cancelled = When
    BY <1>1, <1>12 DEF Abort, MainType
  <2>3. ~listed /\ (thread.at = "complete" \/ ~Busy) => When = "late"
    BY DEF When, Busy
  <2>4. slot'.status = "ABORTING" /\ (When = "during" => thread.at = "perform")
    BY <2>1 DEF When
  <2>5. Asked' /\ Answered' => Answered' /\ ~listed /\ (thread.at = "complete" \/ ~Busy)
    BY <2>1 DEF Answered, Busy
  <2>6. Answered' => main'.cancelled = "late"
    BY <2>2, <2>3, <2>5 DEF Answered
  <2> QED BY <2>1, <2>2, <2>4, <2>6 DEF Verdicts
<1>13. CASE Look
  BY <1>1, <1>2, <1>13 DEF Look, ThreadType, Verdicts, Answered, Asked, Busy
<1>14. CASE Wait \/ WakeUp
  BY <1>1, <1>2, <1>14 DEF Wait, WakeUp, ThreadType, Verdicts, Answered, Asked, Busy
<1>15. CASE Unlink
  BY <1>1, <1>2, <1>15 DEF Unlink, ThreadType, Verdicts, Answered, Asked, Busy
<1>16. CASE SetUp
  <2>1. /\ thread.at = "setup" /\ UNCHANGED <<main, listed, files>>
        /\ \/ thread'.at = "complete" /\ slot'.status = "FAILED"
           \/ thread'.at = "perform" /\ slot'.status = "INPROGRESS"
    BY <1>1, <1>16 DEF SetUp, ThreadType, SlotType
  <2>2. Asked => main.at # "push" /\ ~listed
    BY <1>2, <2>1 DEF InTurn, Busy
  <2>3. Asked => main.cancelled # "during"
    BY <1>2, <2>1 DEF Verdicts, Answered, Busy
  <2> QED BY <1>2, <2>1, <2>2, <2>3 DEF Verdicts, Answered, Asked, Busy
<1>17. CASE Perform \/ Stall
  <2>1. /\ thread.at = "perform" /\ thread'.at = "perform"
        /\ UNCHANGED <<main, listed, slot>>
    BY <1>1, <1>17 DEF Perform, Stall, ThreadType
  <2> QED BY <1>2, <2>1 DEF Verdicts, Answered, Asked, Busy
<1>18. CASE PerformFails
  BY <1>1, <1>2, <1>18 DEF PerformFails, ThreadType, Verdicts, Answered, Asked, Busy
<1>19. CASE PerformEnds
  <2>1. thread.at = "perform" /\ thread'.at = "done"
    BY <1>1, <1>19 DEF PerformEnds, ThreadType
  <2>2. UNCHANGED <<main, listed, slot, files>>
    BY <1>19 DEF PerformEnds
  <2> QED BY <1>2, <2>1, <2>2 DEF Verdicts, Answered, Asked, Busy
<1>20. CASE SetStatus
  <2>1. UNCHANGED <<main, listed, files>> /\ thread'.at = "complete"
    BY <1>1, <1>20 DEF SetStatus, ThreadType
  <2>2. /\ \/ thread.at = "failed" /\ slot'.status = "FAILED"
           \/ thread.at = "done" /\ slot'.status = "DONE"
        /\ slot'.file = slot.file /\ slot'.url = slot.url
    BY <1>1, <1>20 DEF SetStatus, Verdict, SlotType
  <2>3. thread.at = "done" => files[slot.file].parts = Download(slot.url)
    BY <1>2, <2>1 DEF Progress, Busy
  <2>5. Busy
    BY <2>2 DEF Busy
  <2>6. Asked => main.at # "push" /\ ~listed
    BY <1>2, <2>1, <2>5 DEF InTurn
  <2>7. Asked' = Asked /\ Download(slot'.url) = Download(slot.url)
    BY <2>1, <2>2 DEF Asked
  <2> HIDE DEF Download
  <2> QED BY <2>1, <2>2, <2>3, <2>6, <2>7 DEF Verdicts, Answered
<1>21. CASE Complete
  <2>1. UNCHANGED <<main, listed, files>> /\ thread'.at = "look" /\ thread.at = "complete"
    BY <1>1, <1>21 DEF Complete, ThreadType
  <2>2. slot'.status = slot.status /\ slot'.file = slot.file /\ slot'.url = slot.url
    BY <1>1, <1>21 DEF Complete, SlotType
  <2> QED BY <1>2, <2>1, <2>2 DEF Verdicts, Answered, Asked, Busy
<1>22. CASE CallBack
  BY <1>1, <1>2, <1>22, CallBackFacts DEF Verdicts, Answered, Asked, Busy
<1> QED BY <1>3, <1>5, <1>6, <1>7, <1>9, <1>10, <1>11, <1>12, <1>13, <1>14, <1>15, <1>16,
           <1>17, <1>18, <1>19, <1>20, <1>21, <1>22
        DEF Next, MainNext, ThreadNext, Woken, WokenByItself, Starts

-----------------------------------------------------------------------------
(* The theorems *)

LEMMA InitIInv == Init => IInv
<1> SUFFICES ASSUME Init PROVE IInv
  OBVIOUS
<1>1. Types
  <2>1. slot \in SlotType(0)
    BY DEF Init, SlotType
  <2>2. event \in EventType /\ (event.waiting <=> thread.at = "asleep")
    BY DEF Init, EventType
  <2>3. main \in MainType /\ thread \in ThreadType
    BY DownloadsAssumption DEF Init, MainType, ThreadType
  <2>4. slot.file = 0 /\ listed = FALSE /\ dlList = 0 /\ update = "SENT" /\ connects = 0
        /\ files = <<>>
    BY DEF Init
  <2>5. Len(files) = 0 /\ files \in Seq(FileType) /\ Len(files) <= MaxDownloads
    BY <2>4, DownloadsAssumption
  <2>6. slot \in SlotType(Len(files)) /\ ~(slot.file > 0)
    BY <2>1, <2>4, <2>5
  <2>7. listed \in BOOLEAN
    BY <2>4
  <2>8. dlList \in 0 .. 2 /\ connects \in Nat /\ update \in {"SENT", "READY", "DLING", "DONE"}
    BY <2>4
  <2> QED BY <2>2, <2>3, <2>5, <2>6, <2>7, <2>8, TypesAre
<1>2. Given /\ CancelsOnce /\ InTurn /\ Verdicts
  BY DEF Init, Given, CancelsOnce, InTurn, Verdicts, Answered, Asked, Busy
<1>3. ~(slot.file > 0)
  BY DEF Init
<1> QED BY <1>1, <1>2, <1>3 DEF IInv

LEMMA NextIInv == IInv /\ [Next]_vars => IInv'
<1>1. ASSUME IInv, UNCHANGED vars PROVE IInv'
  BY <1>1 DEF vars, IInv, Types, TypeOK, Given, CancelsOnce, InTurn, Progress, Verdicts, Answered,
              Asked, Busy
<1>2. ASSUME IInv, Next PROVE IInv'
  <2>1. Types' /\ Given' /\ CancelsOnce'
    BY <1>2, TypesStep, GivenStep, CancelsStep
  <2>2. ~main'.hasty => InTurn' /\ Verdicts'
    BY <1>2, InTurnStep, VerdictsStep
  <2>3. ~main'.hasty /\ slot'.file > 0 => Progress'
    BY <1>2, ProgressStep
  <2> QED BY <2>1, <2>2, <2>3 DEF IInv
<1> QED BY <1>1, <1>2

LEMMA Invariant == Spec => []IInv
BY InitIInv, NextIInv, PTL DEF Spec

\* The slot, the box, the event and the files stay in their types, and no more is
\* written to a file than there is.
THEOREM TypeCorrect == Spec => []TypeOK
<1>1. IInv => TypeOK
  BY DEF IInv, Types
<1> QED BY <1>1, Invariant, PTL

\* When the box ends the thread has said its last word on the download, and a
\* download that is taken for done is whole, for downloads of any size; a cancel
\* that comes while curl runs stands until it has been seen or curl has ended.
THEOREM DownloadsEndWhole == Spec => []EndsWhole
<1>1. IInv => ThreadIsDone /\ DoneIsWhole
  <2> SUFFICES ASSUME IInv, main.at = "ended", ~main.hasty
               PROVE  /\ ~listed /\ ~Busy
                      /\ slot.status \in {"DONE", "FAILED"}
                           \cup (IF main.cancelled = "late" THEN {"ABORTING"} ELSE {})
                      /\ slot.status = "DONE" => files[slot.file].parts = Download(slot.url)
    BY DEF ThreadIsDone, DoneIsWhole, At
  <2>1. ~listed /\ ~Busy
    BY DEF IInv, InTurn
  <2>2. Answered
    BY <2>1 DEF Answered, Asked
  <2> QED BY <2>1, <2>2 DEF IInv, Verdicts
<1>2. IInv => CancelStands
  <2> SUFFICES ASSUME IInv, ~main.hasty, main.cancelled = "during", thread.at = "perform"
               PROVE  slot.status = "ABORTING"
    BY DEF CancelStands
  <2>1. main \in MainType
    BY TypesAre DEF IInv
  <2>2. Asked
    BY <2>1 DEF IInv, InTurn, Busy, Asked, MainType
  <2> QED BY <2>2 DEF IInv, Verdicts, Answered, Busy
<1>3. IInv => EndsWhole
  BY <1>1, <1>2 DEF EndsWhole
<1> QED BY <1>3, Invariant, PTL
=============================================================================
