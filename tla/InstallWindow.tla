---------------------------- MODULE InstallWindow ----------------------------
(***************************************************************************)
(* The installation screen of the MIUI interface: three threads around the *)
(* key queue of miui_input.c.                                              *)
(*                                                                         *)
(*   - the installer thread (miui_install_package) runs the installation   *)
(*     and posts its outcome: the message goes into atouch_winmsg and a    *)
(*     notification, key code 889, into the key queue;                     *)
(*   - the input thread puts key and touch events into the same queue;     *)
(*   - the UI thread (miui_start_install) dispatches what it finds there   *)
(*     until it sees the outcome, joins the other threads, and then either *)
(*     leaves or shows the log with a "Next" button and dispatches again.  *)
(*                                                                         *)
(* The queue is guarded by key_queue_mutex, and an action below is one     *)
(* critical section; atouch_winmsg and its length are not guarded.  Only   *)
(* the installer posts messages, one per installation, so that only the    *)
(* first cell of atouch_winmsg is ever used.                               *)
(***************************************************************************)
EXTENDS Naturals, Sequences

CONSTANTS
  QueueMax,  (* capacity of key_queue                                       *)
  MaxKeys    (* bound: key and touch events during an installation          *)

ASSUME QueueAssumption == QueueMax \in Nat \ {0} /\ MaxKeys \in Nat

VARIABLES
  queue,     (* key_queue                                                   *)
  slot,      (* atouch_winmsg[0], "none" when it is 0                       *)
  n,         (* atouch_winmsg_n                                             *)
  ui,        (* where the UI thread is                                      *)
  screen,    (* which dispatch loop it is in                                *)
  inst,      (* where the installer thread is                               *)
  outcome,   (* what the installation came to, for the installer            *)
  result,    (* the same as the UI thread has been told                     *)
  keys,      (* bound                                                       *)
  lost       (* history: how the notification of this outcome was lost      *)

vars == <<queue, slot, n, ui, screen, inst, outcome, result, keys, lost>>

Outcomes == {"ok", "failed"}     \* messages 15 and 16
Keys == {"back",                 \* aw_dispatch returns message 5 for it
         "next",                 \* message 6, if the button is there
         "other"}                \* nothing comes of it
Note == "note"                   \* atouch_message_code

TypeOK ==
  /\ queue \in Seq(Keys \cup {Note}) /\ Len(queue) <= QueueMax
  /\ slot \in Outcomes \cup {"none"}
  /\ n \in 0..1
  /\ ui \in {"idle", "clear", "repost", "wait", "join"}
  /\ screen \in {"install", "buttons"}
  /\ inst \in {"none", "running", "push", "push_n", "push_slot", "post", "ended"}
  /\ outcome \in Outcomes \cup {"none"}
  /\ result \in Outcomes \cup {"none"}
  /\ keys \in 0..MaxKeys
  /\ lost \subseteq {"full", "torn"}

Init ==
  /\ queue = <<>> /\ slot = "none" /\ n = 0
  /\ ui = "idle" /\ screen = "install" /\ inst = "none"
  /\ outcome = "none" /\ result = "none"
  /\ keys = 0 /\ lost = {}

-----------------------------------------------------------------------------

\* Mutation: the length is not looked at.
PostEventAlways(e) == queue' = Append(queue, e) /\ lost' = lost

\* ev_post_message: an event is dropped without a word when the queue is full.
PostEvent(e) ==
  \/ /\ Len(queue) < QueueMax
     /\ queue' = Append(queue, e) /\ lost' = lost
  \/ /\ Len(queue) = QueueMax
     /\ queue' = queue
     /\ lost' = IF e = Note THEN lost \cup {"full"} ELSE lost

\* The input thread.
InputEvent(k) ==
  /\ keys < MaxKeys /\ keys' = keys + 1
  /\ PostEvent(k)
  /\ UNCHANGED <<slot, n, ui, screen, inst, outcome, result>>

-----------------------------------------------------------------------------
(* The installer thread                                                    *)

\* The installation, and INTENT_WIPE if it asked for that, is over.
Finish ==
  /\ inst = "running" /\ inst' = "push"
  /\ outcome' \in Outcomes
  /\ UNCHANGED <<queue, slot, n, ui, screen, result, keys, lost>>

\* atouch_winmsg_push: atouch_winmsg[atouch_winmsg_n++] = msg.  Nothing orders
\* the two stores.
PushFirst ==
  /\ inst = "push"
  /\ \/ slot' = outcome /\ n' = n /\ inst' = "push_n"
     \/ slot' = slot /\ n' = n + 1 /\ inst' = "push_slot"
  /\ UNCHANGED <<queue, ui, screen, outcome, result, keys, lost>>

PushSecond ==
  /\ \/ inst = "push_n" /\ slot' = slot /\ n' = n + 1
     \/ inst = "push_slot" /\ slot' = outcome /\ n' = n
  /\ inst' = "post"
  /\ UNCHANGED <<queue, ui, screen, outcome, result, keys, lost>>

\* atouch_send_message: the notification.
PostNote ==
  /\ inst = "post" /\ inst' = "ended"
  /\ PostEvent(Note)
  /\ UNCHANGED <<slot, n, ui, screen, outcome, result, keys>>

-----------------------------------------------------------------------------
(* The UI thread                                                           *)

\* miui_start_install creates the window and the threads.
StartInstall ==
  /\ ui = "idle" /\ ui' = "clear" /\ screen' = "install"
  /\ inst' = "running"
  /\ outcome' = "none" /\ result' = "none" /\ keys' = 0 /\ lost' = {}
  /\ UNCHANGED <<queue, slot, n>>

\* Mutation: ui_clear_key_queue_ex, which forgets the messages too.
ClearQueueEx ==
  /\ ui = "clear" /\ ui' = "repost"
  /\ queue' = <<>> /\ n' = 0
  /\ UNCHANGED <<slot, screen, inst, outcome, result, keys, lost>>

\* aw_dispatch starts with ui_clear_key_queue: empty the queue, then ask again
\* for a message that is still there.
ClearQueue ==
  /\ ui = "clear" /\ ui' = "repost"
  /\ queue' = <<>>
  /\ UNCHANGED <<slot, n, screen, inst, outcome, result, keys, lost>>

\* Mutation: it does not.
RepostNothing ==
  /\ ui = "repost" /\ ui' = "wait"
  /\ UNCHANGED <<queue, slot, n, screen, inst, outcome, result, keys, lost>>

RepostNote ==
  /\ ui = "repost" /\ ui' = "wait"
  /\ IF n > 0 THEN PostEvent(Note) ELSE UNCHANGED <<queue, lost>>
  /\ UNCHANGED <<slot, n, screen, inst, outcome, result, keys>>

\* ui_wait_key: the UI thread sleeps until there is an event, and takes it.
WaitKey(e) == ui = "wait" /\ queue # <<>> /\ Head(queue) = e /\ queue' = Tail(queue)

\* Mutation: atouch_winmsg_get(0) leaves the message where it is.
WinmsgPeek == slot' = slot /\ n' = n

\* atouch_winmsg_get(1) returns the first cell and moves the others down.
WinmsgGet == slot' = "none" /\ n' = n - 1

\* A notification: aw_dispatch returns the message, unless it is 0.
DispatchMessage ==
  /\ WaitKey(Note)
  /\ \/ n = 0 /\ UNCHANGED <<slot, n, ui, result, lost>>
     \/ /\ n > 0 /\ slot = "none"
        /\ WinmsgGet
        /\ lost' = lost \cup {"torn"}
        /\ UNCHANGED <<ui, result>>
     \/ /\ n > 0 /\ slot # "none"
        /\ WinmsgGet
        /\ IF screen = "install" THEN ui' = "join" /\ result' = slot
           ELSE ui' = "clear" /\ result' = result
        /\ UNCHANGED lost
  /\ UNCHANGED <<screen, inst, outcome, keys>>

\* A key or touch event.
DispatchKey ==
  /\ \E k \in Keys :
       /\ WaitKey(k)
       /\ ui' = IF k = "back" THEN "clear"
                ELSE IF k = "next" /\ screen = "buttons" THEN "idle" ELSE ui
  /\ UNCHANGED <<slot, n, screen, inst, outcome, result, keys, lost>>

\* Both threads are joined.  The log and the buttons are shown after a failure,
\* and after a success if the caller wanted that (echo).
Join ==
  /\ ui = "join" /\ inst = "ended" /\ inst' = "none"
  /\ \/ result = "ok" /\ ui' = "idle" /\ screen' = screen
     \/ ui' = "clear" /\ screen' = "buttons"
  /\ UNCHANGED <<queue, slot, n, outcome, result, keys, lost>>

-----------------------------------------------------------------------------

PostOutcome == PushFirst \/ PushSecond \/ PostNote
UiStep == ClearQueue \/ RepostNote \/ DispatchMessage \/ DispatchKey \/ Join

Next ==
  \/ \E k \in Keys : InputEvent(k)
  \/ Finish \/ PostOutcome
  \/ StartInstall \/ UiStep

Spec == Init /\ [][Next]_vars

\* The UI thread sleeps only on an empty queue; the installer, once the
\* installation is over, never waits.  Nothing says that it ends.
FairSpec == Spec /\ WF_vars(UiStep) /\ WF_vars(PostOutcome)

-----------------------------------------------------------------------------

InstallLoop == screen = "install" /\ ui \in {"clear", "repost", "wait"}

\* The outcome is never forgotten, however its posting and the clearing of the
\* queue at the start of every aw_dispatch interleave: when the installer
\* thread is gone and the UI thread still waits for it, the message is in
\* atouch_winmsg, and a notification is in the queue or about to be reposted.
\* (Unless the queue was full, or the UI thread took the message between the
\* two stores of the push.)
CompletionPending ==
  inst = "ended" /\ InstallLoop /\ lost = {} =>
    /\ n = 1 /\ slot = outcome
    /\ ui = "wait" => \E i \in 1..Len(queue) : queue[i] = Note

\* The UI thread leaves the loop with the outcome of this very installation,
\* neither early nor with that of the previous one.
ResultIsOwn == ui = "join" => result = outcome /\ outcome # "none"

\* So it does leave, if the notification is not lost and the user lets go of
\* the keys some time.
InstallReported ==
  inst = "ended" ~> (inst = "none" \/ lost # {})

=============================================================================
