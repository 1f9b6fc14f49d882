------------------------------ MODULE Downloads ------------------------------
(***************************************************************************)
(* The one download slot of the client (backgroundDownload in              *)
(* framework/async/AsyncClient.cpp), shared by the main thread, which      *)
(* fills it in and shows a box until it is completed, and the background   *)
(* thread (framework/FileSystem.cpp), which reads it while the main thread *)
(* may cancel, or connect elsewhere from the console under the box.        *)
(*                                                                         *)
(* The list of requests is a pointer, backgroundDownloads, and the next of *)
(* the slot; what points to anything points to the slot.  A file is the    *)
(* sequence of what was written to it, <<download, part>>.                 *)
(***************************************************************************)
EXTENDS Integers, Sequences

CONSTANTS
  Size,            \* parts of a download
  MaxDownloads,    \* bound: downloads started
  MaxConnects      \* bound: connects from the console

ASSUME DownloadsAssumption == Size \in Nat /\ MaxDownloads \in Nat /\ MaxConnects \in Nat

VARIABLES
  slot,      \* backgroundDownload
  listed,    \* backgroundDownloads points to the slot
  event,     \* signaled[0], waiting[0], and whether the thread was signaled
  thread,    \* the background thread: where it is, the url it was given, the parts
             \* to come, whether no more will ever come (stalled)
  main,      \* the main thread: where it is, the box, whether the slot was not
             \* free when the box was opened or left (hasty)
  dlList,    \* paks to download
  update,    \* updateState
  files,     \* the files downloaded to
  connects   \* history

vars == <<slot, listed, event, thread, main, dlList, update, files, connects>>

\* Places at which the thread has the slot.
Busy == thread.at \in {"taken", "setup", "perform", "failed", "done", "complete"}

Download(d) == [part \in 1 .. Size |-> <<d, part>>]

At(place) == main.at = place
MainGoes(place) == main' = [main EXCEPT !.at = place]
ThreadGoes(place) == thread' = [thread EXCEPT !.at = place]

-----------------------------------------------------------------------------
(* The main thread *)

\* ProcessDownloadInfoMessage, with files to download that the player wants.
Answer ==
  /\ At("frame")
  /\ dlList = 0
  /\ \E n \in 1 .. 2 : dlList' = n
  /\ UNCHANGED <<slot, listed, event, thread, main, update, files, connects>>

\* ProcessVersionMessage
VersionReply ==
  /\ At("frame")
  /\ update = "SENT"
  /\ update' = "READY"
  /\ UNCHANGED <<slot, listed, event, thread, main, dlList, files, connects>>

\* Fills in the slot; a new file.
Fill(kind) ==
  /\ Len(files) < MaxDownloads                                      \* bound
  /\ files' = Append(files, [parts |-> <<>>, open |-> TRUE])
  /\ slot' = [slot EXCEPT !.completed = FALSE, !.status = "WAIT",
                          !.file = Len(files'), !.url = Len(files')]
  /\ main' = [main EXCEPT !.at = "push", !.kind = kind, !.cancelled = "no",
                          !.hasty = listed \/ Busy]
  /\ UNCHANGED <<listed, event, thread, dlList, connects>>

\* "only enter these if the download slot is free"
MayStart == slot.completed

\* HandleDownloads.  The patch is refused or opened elsewhere, or downloaded.
StartUpdate ==
  /\ At("frame")
  /\ MayStart
  /\ update = "READY"
  /\ \/ /\ update' = "DONE"
        /\ UNCHANGED <<slot, listed, event, thread, main, dlList, files, connects>>
     \/ /\ update' = "DLING"
        /\ Fill("update")

\* The first pak, or the next one of the list, for which nobody asks whether the
\* slot is free.
StartPak ==
  /\ \/ At("frame") /\ MayStart /\ update # "READY"
     \/ At("next")
  /\ dlList > 0
  /\ Fill("pak")
  /\ UNCHANGED update

\* BackgroundDownload, in the critical section with Trigger.
Push ==
  /\ At("push")
  /\ slot' = [slot EXCEPT !.next = listed]
  /\ listed' = TRUE
  /\ MainGoes("trigger")
  /\ UNCHANGED <<event, thread, dlList, update, files, connects>>

\* A mutated form: a signal that nobody waits for is gone.
SignaledOnlyWhoWaits == [event EXCEPT !.woken = event.waiting]

\* Sys_TriggerEvent
Signaled == IF event.waiting THEN [event EXCEPT !.woken = TRUE]
                             ELSE [event EXCEPT !.signaled = TRUE]

Trigger ==
  /\ At("trigger")
  /\ event' = Signaled
  /\ MainGoes("open")
  /\ UNCHANGED <<slot, listed, thread, dlList, update, files, connects>>

\* DownloadProgressBox; under another box, that of a key check, it is not shown,
\* and nobody waits.
OpenBox ==
  /\ At("open")
  /\ \/ main' = [main EXCEPT !.at = "box", !.running = TRUE]
     \/ main.kind = "pak" /\ main' = [main EXCEPT !.at = "ended", !.hasty = TRUE]
  /\ UNCHANGED <<slot, listed, event, thread, dlList, update, files, connects>>

\* One GUIFrame under the box: nothing, or Cancel, which is shown once.
BoxFrame ==
  /\ At("box")
  /\ \/ MainGoes("check")
     \/ /\ main.cancelled = "no"
        /\ main' = [main EXCEPT !.at = "check", !.running = FALSE]
  /\ UNCHANGED <<slot, listed, event, thread, dlList, update, files, connects>>

\* idAsyncClient::Clear, from a connect or reconnect on the console, in a frame
\* of the box or out of it.
Connect ==
  /\ At("box") \/ At("frame")
  /\ connects < MaxConnects                                         \* bound
  /\ connects' = connects + 1
  /\ slot' = [slot EXCEPT !.completed = TRUE]
  /\ main' = [main EXCEPT !.at = IF @ = "box" THEN "check" ELSE @,
                          !.hasty = @ \/ listed \/ Busy]
  /\ UNCHANGED <<listed, event, thread, dlList, update, files>>

BoxCheck ==
  /\ At("check")
  /\ MainGoes(IF slot.completed THEN "ended" ELSE IF main.running THEN "box" ELSE "abort")
  /\ UNCHANGED <<slot, listed, event, thread, dlList, update, files, connects>>

\* cancelled, for the properties: before curl runs, while it does, or behind it.
When == IF listed \/ thread.at \in {"taken", "setup"} THEN "early"
        ELSE IF thread.at = "perform" THEN "during" ELSE "late"

\* "tell the downloader and wait till final stop"
Abort ==
  /\ At("abort")
  /\ slot' = [slot EXCEPT !.status = "ABORTING"]
  /\ main' = [main EXCEPT !.at = "box", !.running = TRUE, !.cancelled = When]
  /\ UNCHANGED <<listed, event, thread, dlList, update, files, connects>>

\* The box has ended.  A pak that has come is closed, and saved if its checksum
\* is the right one, then it is the turn of the next; if one fails the rest is
\* given up, and its file stays open.
FinishPak ==
  LET parts == files[slot.file].parts
      good == slot.status = "DONE" /\ parts = Download(slot.url)
  IN  /\ At("ended")
      /\ main.kind = "pak"
      /\ files' = IF slot.status = "DONE"
                    THEN [files EXCEPT ![slot.file].open = FALSE] ELSE files
      /\ dlList' = IF good THEN dlList - 1 ELSE 0
      /\ MainGoes(IF good /\ dlList > 1 THEN "next" ELSE "frame")
      /\ UNCHANGED <<slot, listed, event, thread, update, connects>>

\* The patch's file is closed whatever has become of it.
FinishUpdate ==
  /\ At("ended")
  /\ main.kind = "update"
  /\ files' = [files EXCEPT ![slot.file].open = FALSE]
  /\ update' = "DONE"
  /\ MainGoes("frame")
  /\ UNCHANGED <<slot, listed, event, thread, dlList, connects>>

-----------------------------------------------------------------------------
(* The background thread, BackgroundDownloadThread *)

\* The critical section is that of Push and Trigger.
Look ==
  /\ thread.at = "look"
  /\ ~At("trigger")
  /\ IF listed THEN listed' = slot.next /\ ThreadGoes("taken")
               ELSE UNCHANGED listed /\ ThreadGoes("wait")
  /\ UNCHANGED <<slot, event, main, dlList, update, files, connects>>

\* Sys_WaitForEvent
Wait ==
  /\ thread.at = "wait"
  /\ IF event.signaled
       THEN event' = [event EXCEPT !.signaled = FALSE] /\ ThreadGoes("look")
       ELSE event' = [event EXCEPT !.waiting = TRUE] /\ ThreadGoes("asleep")
  /\ UNCHANGED <<slot, listed, main, dlList, update, files, connects>>

\* A mutated form: it goes on as if it waited.
StillWaiting == [event EXCEPT !.woken = FALSE]

Awake == [event EXCEPT !.waiting = FALSE, !.woken = FALSE]

WakeUp ==
  /\ thread.at = "asleep"
  /\ event' = Awake
  /\ ThreadGoes("look")
  /\ UNCHANGED <<slot, listed, main, dlList, update, files, connects>>
Woken == event.woken /\ WakeUp

\* pthread_cond_wait may return for no reason.
WokenByItself == ~event.woken /\ WakeUp

Unlink ==
  /\ thread.at = "taken"
  /\ slot' = [slot EXCEPT !.next = FALSE]
  /\ ThreadGoes("setup")
  /\ UNCHANGED <<listed, event, main, dlList, update, files, connects>>

\* A handle for curl, with its options, or an error.
SetUp ==
  /\ thread.at = "setup"
  /\ \/ /\ slot' = [slot EXCEPT !.status = "FAILED"]
        /\ ThreadGoes("complete")
     \/ /\ slot' = [slot EXCEPT !.status = "INPROGRESS"]
        /\ thread' = [at |-> "perform", url |-> slot.url, left |-> Size, stalled |-> FALSE]
  /\ UNCHANGED <<listed, event, main, dlList, update, files, connects>>

\* A mutated form: nobody looks.
NeverStops == FALSE

\* CurlProgressFunction
MustStop == slot.status = "ABORTING"

\* curl_easy_perform: CurlWriteFunction writes to the file that the slot has now,
\* and does not ask for the status.
Perform ==
  /\ thread.at = "perform"
  /\ ~thread.stalled
  /\ thread.left > 0
  /\ files' = [files EXCEPT ![slot.file].parts =
                 Append(@, <<thread.url, Size + 1 - thread.left>>)]
  /\ thread' = [thread EXCEPT !.left = @ - 1]
  /\ UNCHANGED <<slot, listed, event, main, dlList, update, connects>>

\* curl calls back once a second, also while nothing comes; what comes in less may
\* be over before that, and the answer to the last call is ignored.
CallBack ==
  /\ thread.at = "perform"
  /\ MustStop
  /\ thread' = [thread EXCEPT !.at = "failed", !.stalled = FALSE]
  /\ UNCHANGED <<slot, listed, event, main, dlList, update, files, connects>>

\* The network fails; or all has come.
PerformFails ==
  /\ thread.at = "perform"
  /\ ~thread.stalled
  /\ thread.left > 0
  /\ ThreadGoes("failed")
  /\ UNCHANGED <<slot, listed, event, main, dlList, update, files, connects>>
PerformEnds ==
  /\ thread.at = "perform"
  /\ thread.left = 0
  /\ ThreadGoes("done")
  /\ UNCHANGED <<slot, listed, event, main, dlList, update, files, connects>>

\* The connection stays, and nothing comes any more: curl is given no time limit.
Stall ==
  /\ thread.at = "perform"
  /\ ~thread.stalled
  /\ thread.left > 0
  /\ thread' = [thread EXCEPT !.stalled = TRUE]
  /\ UNCHANGED <<slot, listed, event, main, dlList, update, files, connects>>

\* A mutated form: completed comes first.
VerdictTooSoon ==
  [slot EXCEPT !.status = IF thread.at = "failed" THEN "FAILED" ELSE "DONE",
               !.completed = TRUE]

Verdict == [slot EXCEPT !.status = IF thread.at = "failed" THEN "FAILED" ELSE "DONE"]

SetStatus ==
  /\ thread.at \in {"failed", "done"}
  /\ slot' = Verdict
  /\ ThreadGoes("complete")
  /\ UNCHANGED <<listed, event, main, dlList, update, files, connects>>

Complete ==
  /\ thread.at = "complete"
  /\ slot' = [slot EXCEPT !.completed = TRUE]
  /\ ThreadGoes("look")
  /\ UNCHANGED <<listed, event, main, dlList, update, files, connects>>

-----------------------------------------------------------------------------
Init ==
  /\ slot = [completed |-> TRUE, status |-> "DONE", file |-> 0, url |-> 0, next |-> FALSE]
  /\ listed = FALSE
  /\ event = [signaled |-> FALSE, waiting |-> FALSE, woken |-> FALSE]
  /\ thread = [at |-> "look", url |-> 0, left |-> 0, stalled |-> FALSE]
  /\ main = [at |-> "frame", kind |-> "pak", running |-> FALSE, cancelled |-> "no",
             hasty |-> FALSE]
  /\ dlList = 0
  /\ update = "SENT"
  /\ files = <<>>
  /\ connects = 0

MainNext ==
  \/ Push \/ Trigger \/ OpenBox \/ BoxFrame \/ BoxCheck \/ Abort
  \/ FinishPak \/ FinishUpdate
ThreadNext ==
  \/ Look \/ Wait \/ Woken \/ Unlink \/ SetUp
  \/ Perform \/ CallBack \/ PerformFails \/ PerformEnds \/ SetStatus \/ Complete

Next ==
  \/ Answer \/ VersionReply \/ StartUpdate \/ StartPak \/ Connect
  \/ MainNext \/ ThreadNext \/ WokenByItself \/ Stall

Spec == Init /\ [][Next]_vars

\* The frames go on, and so does the thread: curl goes on with what comes, and calls
\* back.  A connection need not stall, nor end if it has.
Fairness == WF_vars(MainNext) /\ WF_vars(ThreadNext)

FairSpec == Spec /\ Fairness

-----------------------------------------------------------------------------
\* The variables stay in their types, the event is waited for by the thread that
\* sleeps, and no more is written to a file than there is.
TypeOK ==
  /\ slot \in [completed : BOOLEAN, next : BOOLEAN, file : 0 .. Len(files),
               url : 0 .. Len(files),
               status : {"WAIT", "INPROGRESS", "DONE", "ABORTING", "FAILED"}]
  /\ listed \in BOOLEAN
  /\ event \in [signaled : BOOLEAN, waiting : BOOLEAN, woken : BOOLEAN]
  /\ event.waiting <=> thread.at = "asleep"
  /\ dlList \in 0 .. 2
  /\ update \in {"SENT", "READY", "DLING", "DONE"}
  /\ Len(files) <= MaxDownloads
  /\ slot.file > 0 /\ ~main.hasty => Len(files[slot.file].parts) <= Size

(***************************************************************************)
(* When the box has ended, and the file is read, copied and closed, the    *)
(* thread has said its last word and is done with the slot and its file.   *)
(* Not so if the client connects under the box (Clear), or no box was      *)
(* shown.                                                                  *)
(***************************************************************************)
ThreadIsDone ==
  At("ended") /\ ~main.hasty =>
    /\ ~listed
    /\ ~Busy
    /\ slot.status \in {"DONE", "FAILED"}
         \cup (IF main.cancelled = "late" THEN {"ABORTING"} ELSE {})

(***************************************************************************)
(* A download that the client takes for done is there from end to end, and *)
(* nothing else with it: whatever the order in which the two threads write *)
(* to the slot.  The same exceptions.                                      *)
(***************************************************************************)
DoneIsWhole ==
  At("ended") /\ ~main.hasty /\ slot.status = "DONE" =>
    files[slot.file].parts = Download(slot.url)

(***************************************************************************)
(* A cancel that comes while curl runs is not overwritten before curl has  *)
(* seen it, or has ended by itself.  One that comes before is: the         *)
(* thread's DL_INPROGRESS replaces the DL_ABORTING (FileSystem.h:86 says   *)
(* that it "will force the next progress callback to abort").              *)
(***************************************************************************)
CancelStands ==
  ~main.hasty /\ main.cancelled = "during" /\ thread.at = "perform" =>
    slot.status = "ABORTING"

\* When the box ends, so has the download, in both threads, and it is whole; until
\* then a cancel stands.
EndsWhole == ThreadIsDone /\ DoneIsWhole /\ CancelStands

(***************************************************************************)
(* "wait till final stop" (Session_menu.cpp:1469): no box stays for ever   *)
(* while the download goes on.  The thread does not miss the event that    *)
(* tells it of the download, sent between its look at the list and its     *)
(* wait.                                                                   *)
(***************************************************************************)
Boxed == main.at \in {"box", "check", "abort"}
BoxesEnd == Boxed ~> (~Boxed \/ thread.stalled)

(***************************************************************************)
(* "tell the downloader and wait till final stop" (Session_menu.cpp:1469): *)
(* the player gets out of a box whose download will never end, by a cancel *)
(* while curl runs, whatever the connection does before and after it, and  *)
(* whatever the thread writes to the status at the time.                   *)
(***************************************************************************)
CancelsEnd == Boxed /\ main.cancelled = "during" ~> ~Boxed
=============================================================================
