---------------------------- MODULE WindowThreads ----------------------------
(***************************************************************************)
(* The life of a window of the MIUI interface (miui_controls.c) and of the *)
(* helper threads its controls start for scrolling, flinging, bouncing and *)
(* long presses (miui_control_threads.c).                                  *)
(*                                                                         *)
(* A helper is a detached thread.  It first looks at isActived and counts  *)
(* itself in win->threadnum, then works in a loop until isActived is       *)
(* cleared or it is done, and counts itself out.  aw_destroy clears        *)
(* isActived, waits for the count to reach zero, half a second at most,    *)
(* and frees the window.  Nothing guards threadnum: an increment or a      *)
(* decrement is a load and a store.                                        *)
(***************************************************************************)
EXTENDS Integers, FiniteSets

CONSTANTS Helpers   (* the helper threads a window ever has                  *)

ASSUME HelpersAssumption == IsFiniteSet(Helpers)

VARIABLES
  ui,         (* where the UI thread is with this window                    *)
  isActived,  (* the window's flag                                          *)
  threadnum,  (* the window's count of threads                              *)
  pc,         (* where each helper is                                       *)
  loaded,     (* what each helper has loaded from threadnum                 *)
  mishaps     (* history: what has come between the count and the threads   *)

vars == <<ui, isActived, threadnum, pc, loaded, mishaps>>

Idle == {"none", "ended"}
\* Between the store of its increment and that of its decrement.
Counted == {"work", "leave", "storing_dec"}
\* Started, and not counted yet.
Arriving == {"created", "enter", "storing_inc"}
Labels == Idle \cup Counted \cup Arriving

InLabels(L) == {h \in Helpers : pc[h] \in L}

TypeOK ==
  /\ ui \in {"new", "shown", "muted", "hidden", "waiting", "freed"}
  /\ isActived \in {0, 1}
  /\ threadnum \in Int
  /\ pc \in [Helpers -> Labels]
  /\ loaded \in [Helpers -> Int]
  /\ mishaps \subseteq {"late", "torn", "reset", "timeout"}

Init ==
  /\ ui = "new" /\ isActived = 0 /\ threadnum = 0
  /\ pc = [h \in Helpers |-> "none"]
  /\ loaded = [h \in Helpers |-> 0]
  /\ mishaps = {}

-----------------------------------------------------------------------------
(* The UI thread                                                           *)

Note(m, happened) == mishaps' = IF happened THEN mishaps \cup {m} ELSE mishaps

\* aw_show, of a new window, and once more in miui_start_install of one that
\* has been shown before.
Show ==
  /\ ui \in {"new", "hidden"} /\ ui' = "shown"
  /\ threadnum' = 0 /\ isActived' = 1
  /\ Note("reset", InLabels(Counted) # {})
  /\ UNCHANGED <<pc, loaded>>

\* A control starts a helper in answer to a touch.
StartHelper(h) ==
  /\ ui = "shown"
  /\ pc[h] = "none" /\ pc' = [pc EXCEPT ![h] = "created"]
  /\ UNCHANGED <<ui, isActived, threadnum, loaded, mishaps>>

\* aw_muteparent and aw_unmuteparent, around a dialog.
Mute ==
  /\ ui = "shown" /\ ui' = "muted" /\ isActived' = 0
  /\ UNCHANGED <<threadnum, pc, loaded, mishaps>>

Unmute ==
  /\ ui = "muted" /\ ui' = "shown" /\ isActived' = 1
  /\ UNCHANGED <<threadnum, pc, loaded, mishaps>>

\* miui_start_install, when the installation is over.
Hide ==
  /\ ui = "shown" /\ ui' = "hidden" /\ isActived' = 0
  /\ UNCHANGED <<threadnum, pc, loaded, mishaps>>

\* Mutation: isActived counts.
DestroyCountsDown ==
  /\ ui \in {"shown", "hidden"} /\ ui' = "waiting"
  /\ isActived' = isActived - 1
  /\ UNCHANGED <<threadnum, pc, loaded, mishaps>>

\* Mutation: isActived stays set.
DestroyStaysActive ==
  /\ ui \in {"shown", "hidden"} /\ ui' = "waiting"
  /\ UNCHANGED <<isActived, threadnum, pc, loaded, mishaps>>

\* aw_destroy.
Destroy ==
  /\ ui \in {"shown", "hidden"} /\ ui' = "waiting"
  /\ isActived' = 0
  /\ UNCHANGED <<threadnum, pc, loaded, mishaps>>

\* Mutation: it does not wait for the last one.
WaitIsOverEarly == threadnum <= 1

\* Its wait: until the count is zero, or for some thousand turns of 500us.
WaitIsOver == threadnum <= 0

Free ==
  /\ ui = "waiting" /\ ui' = "freed"
  /\ \/ WaitIsOver /\ Note("late", InLabels(Arriving) # {})
     \/ ~WaitIsOver /\ mishaps' = mishaps \cup {"timeout"}
  /\ UNCHANGED <<isActived, threadnum, pc, loaded>>

-----------------------------------------------------------------------------
(* The helper threads                                                      *)

\* if (win->isActived) ...
Check(h) ==
  /\ pc[h] = "created"
  /\ pc' = [pc EXCEPT ![h] = IF isActived = 1 THEN "enter" ELSE "ended"]
  /\ UNCHANGED <<ui, isActived, threadnum, loaded, mishaps>>

\* win->threadnum++: the load, and the store if nobody has stored meanwhile ...
LoadCount(h, from, to) ==
  /\ pc[h] = from /\ pc' = [pc EXCEPT ![h] = to]
  /\ loaded' = [loaded EXCEPT ![h] = threadnum]
  /\ UNCHANGED <<ui, isActived, threadnum, mishaps>>

\* ... or an update is lost.
StoreCount(h, by, from, to) ==
  /\ pc[h] = from /\ pc' = [pc EXCEPT ![h] = to]
  /\ threadnum' = loaded[h] + by
  /\ Note("torn", threadnum # loaded[h])
  /\ UNCHANGED <<ui, isActived, loaded>>

\* Mutation: the thread does not count itself.
EnteredUncounted(h) ==
  /\ pc[h] = "storing_inc" /\ pc' = [pc EXCEPT ![h] = "work"]
  /\ UNCHANGED <<ui, isActived, threadnum, loaded, mishaps>>

Enter(h) == LoadCount(h, "enter", "storing_inc")
Entered(h) == StoreCount(h, 1, "storing_inc", "work")

\* The loop ends when the window is not active any more, ...
Stop(h) ==
  /\ pc[h] = "work" /\ isActived = 0
  /\ pc' = [pc EXCEPT ![h] = "leave"]
  /\ UNCHANGED <<ui, isActived, threadnum, loaded, mishaps>>

\* ... or because there is nothing left to scroll; a fling that has gone past
\* the end then starts a bounce, if the window is (still, or again) active.
Finish(h) ==
  /\ pc[h] = "work"
  /\ \/ pc' = [pc EXCEPT ![h] = "leave"]
     \/ \E k \in InLabels({"none"}) :
          isActived = 1 /\ pc' = [pc EXCEPT ![h] = "leave", ![k] = "created"]
  /\ UNCHANGED <<ui, isActived, threadnum, loaded, mishaps>>

Leave(h) == LoadCount(h, "leave", "storing_dec")
Left(h) == StoreCount(h, -1, "storing_dec", "ended")

-----------------------------------------------------------------------------

\* What a helper does of itself.
HelperStep(h) ==
  Check(h) \/ Enter(h) \/ Entered(h) \/ Stop(h) \/ Leave(h) \/ Left(h)

UiStep ==
  \/ Show \/ Mute \/ Unmute \/ Hide \/ Destroy \/ Free
  \/ \E h \in Helpers : StartHelper(h)

Next == UiStep \/ \E h \in Helpers : HelperStep(h) \/ Finish(h)

Spec == Init /\ [][Next]_vars

\* The scheduler runs every helper; a helper need not come to the end of its
\* scrolling while the window is active.
FairSpec == Spec /\ \A h \in Helpers : WF_vars(HelperStep(h))

-----------------------------------------------------------------------------

\* "Wait Thread To Closed": when aw_destroy frees the window no helper thread
\* will touch it any more.
ThreadsClosed == ui = "freed" => InLabels(Labels \ Idle) = {}

\* What the wait does give: a thread outlives its window only if it had not
\* counted itself yet, if updates of the count collided, if the window was
\* shown twice while the thread ran, or if the wait timed out.
ThreadsClosedOrMishap == mishaps = {} => ThreadsClosed

\* The count is what aw_destroy takes it for.
CountIsExact ==
  mishaps = {} => threadnum = Cardinality(InLabels(Counted))

\* The wait of aw_destroy comes to its end because the helpers see that the
\* window is not active any more, and not only because it gives up.
WaitEnds == (ui = "waiting") ~> (WaitIsOver \/ mishaps # {})

=============================================================================
