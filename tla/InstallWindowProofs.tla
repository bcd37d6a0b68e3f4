------------------------- MODULE InstallWindowProofs -------------------------
(***************************************************************************)
(* Proofs about InstallWindow, for any capacity of the key queue and any   *)
(* number of key events.                                                   *)
(***************************************************************************)
EXTENDS InstallWindow, TLAPS

Noted == \E i \in 1..Len(queue) : queue[i] = Note

\* Where the message is, given where the installer thread is.
Posting ==
  /\ inst \in {"none", "running", "push"} => n = 0 /\ slot = "none"
  /\ inst = "push_n" => n = 0 /\ slot = outcome
  /\ inst = "push_slot" =>
       \/ n = 1 /\ slot = "none"
       \/ n = 0 /\ "torn" \in lost
  /\ inst \in {"post", "ended"} /\ InstallLoop =>
       \/ n = 1 /\ slot = outcome
       \/ n = 0 /\ "torn" \in lost
  /\ inst \notin {"none", "running"} => outcome \in Outcomes

\* Where the installer thread is, given where the UI thread is.
Waiting ==
  /\ ui = "idle" \/ screen = "buttons" => inst = "none"
  /\ ui = "join" => /\ screen = "install" /\ inst \in {"post", "ended"}
                    /\ n = 0 /\ slot = "none" /\ result = outcome

\* A notification is in the queue once it has been posted.
Notified ==
  inst = "ended" /\ InstallLoop /\ lost = {} /\ ui = "wait" => Noted

IInv == TypeOK /\ Posting /\ Waiting /\ Notified

USE QueueAssumption DEF Keys, Outcomes, Note

\* What an event does to the queue: it stays well-formed, a notification that
\* is there stays there, and one that is posted is there or counted as lost.
LEMMA Posted ==
  ASSUME TypeOK, NEW e \in Keys \cup {Note}, PostEvent(e)
  PROVE  /\ queue' \in Seq(Keys \cup {Note}) /\ Len(queue') <= QueueMax
         /\ lost' \in {lost, lost \cup {"full"}}
         /\ Noted => Noted'
         /\ e = Note /\ lost' = {} => Noted'
<1> USE DEF TypeOK
<1>1. CASE queue' = Append(queue, e) /\ Len(queue) < QueueMax /\ lost' = lost
  <2>1. /\ Len(queue') = Len(queue) + 1
        /\ queue'[Len(queue) + 1] = e
        /\ \A i \in 1..Len(queue) : queue'[i] = queue[i]
    BY <1>1
  <2>2. queue' \in Seq(Keys \cup {Note})
    BY <1>1
  <2>3. Noted => Noted'
    BY <2>1, <2>2 DEF Noted
  <2>4. e = Note => Noted'
    BY <2>1, <2>2 DEF Noted
  <2> QED
    BY <1>1, <2>1, <2>2, <2>3, <2>4
<1>2. CASE /\ Len(queue) = QueueMax /\ queue' = queue
           /\ lost' = IF e = Note THEN lost \cup {"full"} ELSE lost
  BY <1>2 DEF Noted
<1> QED
  BY <1>1, <1>2 DEF PostEvent

\* What taking an event does to it.
LEMMA Taken ==
  ASSUME TypeOK, NEW e, WaitKey(e)
  PROVE  /\ queue' \in Seq(Keys \cup {Note}) /\ Len(queue') <= QueueMax
         /\ e # Note /\ Noted => Noted'
<1> USE DEF TypeOK, WaitKey
<1>1. /\ Len(queue') = Len(queue) - 1 /\ queue' \in Seq(Keys \cup {Note})
      /\ \A i \in 1..Len(queue') : queue'[i] = queue[i + 1]
  OBVIOUS
<1>2. ASSUME e # Note, NEW i \in 1..Len(queue), queue[i] = Note
      PROVE  Noted'
  <2>1. i # 1 /\ i - 1 \in 1..Len(queue')
    BY <1>1, <1>2
  <2>2. queue'[i - 1] = Note
    BY <1>1, <1>2, <2>1
  <2> QED
    BY <2>1, <2>2 DEF Noted
<1> QED
  BY <1>1, <1>2 DEF Noted

\* IInv is inductive.
THEOREM InstallInductive == Spec => []IInv
<1>1. Init => IInv
  BY DEF Init, IInv, TypeOK, Posting, Waiting, Notified, InstallLoop
<1>2. IInv /\ [Next]_vars => IInv'
  <2> SUFFICES ASSUME IInv, [Next]_vars PROVE IInv'
    OBVIOUS
  <2> USE DEF IInv
  <2>1. ASSUME NEW k \in Keys, InputEvent(k) PROVE IInv'
    <3>1. PostEvent(k) /\ UNCHANGED <<slot, n, ui, screen, inst, outcome, result>>
      BY <2>1 DEF InputEvent
    <3>2. TypeOK'
      <4>1. /\ queue' \in Seq(Keys \cup {Note}) /\ Len(queue') <= QueueMax
            /\ lost' \in {lost, lost \cup {"full"}}
        BY <3>1, Posted
      <4>2. keys' \in 0..MaxKeys
        BY <2>1 DEF InputEvent, TypeOK
      <4> QED
        BY <3>1, <4>1, <4>2 DEF TypeOK
    <3>3. lost' = {} => lost = {}
      BY <3>1, Posted
    <3>4. Posting' /\ Waiting'
      BY <3>1, Posted DEF Posting, Waiting, InstallLoop
    <3>5. Notified'
      BY <3>1, <3>3, Posted DEF Notified, InstallLoop
    <3> QED
      BY <3>2, <3>4, <3>5
  <2>2. CASE Finish
    BY <2>2 DEF Finish, TypeOK, Posting, Waiting, Notified, InstallLoop
  <2>3. CASE PushFirst
    BY <2>3 DEF PushFirst, TypeOK, Posting, Waiting, Notified, InstallLoop
  <2>4. CASE PushSecond
    BY <2>4 DEF PushSecond, TypeOK, Posting, Waiting, Notified, InstallLoop
  <2>5. CASE PostNote
    <3>1. PostEvent(Note) /\ UNCHANGED <<slot, n, ui, screen, outcome, result, keys>>
      BY <2>5 DEF PostNote
    <3>2. TypeOK'
      <4>1. /\ queue' \in Seq(Keys \cup {Note}) /\ Len(queue') <= QueueMax
            /\ lost' \in {lost, lost \cup {"full"}}
        BY <3>1, Posted
      <4>2. inst' = "ended"
        BY <2>5 DEF PostNote
      <4> QED
        BY <3>1, <4>1, <4>2 DEF TypeOK
    <3>3. Posting' /\ Waiting'
      BY <2>5, <3>1, Posted DEF PostNote, Posting, Waiting, InstallLoop
    <3>4. Notified'
      BY <3>1, Posted DEF Notified
    <3> QED
      BY <3>2, <3>3, <3>4
  <2>6. CASE StartInstall
    BY <2>6 DEF StartInstall, TypeOK, Posting, Waiting, Notified, InstallLoop
  <2>7. CASE ClearQueue
    BY <2>7 DEF ClearQueue, TypeOK, Posting, Waiting, Notified, InstallLoop
  <2>8. CASE RepostNote
    <3> USE <2>8 DEF RepostNote
    <3>1. CASE n > 0
      <4>1. TypeOK'
        BY <3>1, Posted DEF TypeOK
      <4>2. Posting' /\ Waiting'
        BY <3>1, Posted DEF Posting, Waiting, InstallLoop
      <4>3. Notified'
        BY <3>1, Posted DEF Notified
      <4> QED
        BY <4>1, <4>2, <4>3
    <3>2. CASE ~(n > 0)
      <4>1. TypeOK'
        BY <3>2 DEF TypeOK
      <4>2. Posting' /\ Waiting'
        BY <3>2 DEF Posting, Waiting, InstallLoop
      <4>3. ~(inst = "ended" /\ InstallLoop /\ lost = {})
        BY <3>2 DEF Posting
      <4>4. Notified'
        BY <3>2, <4>3 DEF Notified, InstallLoop
      <4> QED
        BY <4>1, <4>2, <4>4
    <3> QED
      BY <3>1, <3>2
  <2>9. CASE DispatchMessage
    <3> USE <2>9 DEF DispatchMessage
    <3>1. queue' \in Seq(Keys \cup {Note}) /\ Len(queue') <= QueueMax
      BY Taken
    <3>2. ui = "wait"
      BY DEF WaitKey
    <3>3. CASE n = 0 /\ UNCHANGED <<slot, n, ui, result, lost>>
      <4>1. TypeOK'
        BY <3>1, <3>3 DEF TypeOK
      <4>2. Posting' /\ Waiting'
        BY <3>3 DEF Posting, Waiting, InstallLoop
      <4>3. ~(inst = "ended" /\ InstallLoop /\ lost = {})
        BY <3>3 DEF Posting
      <4>4. Notified'
        BY <3>3, <4>3 DEF Notified, InstallLoop
      <4> QED
        BY <4>1, <4>2, <4>4
    <3>4. CASE /\ n > 0 /\ slot = "none" /\ WinmsgGet
               /\ lost' = lost \cup {"torn"} /\ UNCHANGED <<ui, result>>
      <4>1. TypeOK'
        BY <3>1, <3>4 DEF WinmsgGet, TypeOK
      <4>2. Posting' /\ Waiting'
        BY <3>2, <3>4 DEF WinmsgGet, TypeOK, Posting, Waiting, InstallLoop
      <4>3. Notified'
        BY <3>4 DEF Notified
      <4> QED
        BY <4>1, <4>2, <4>3
    <3>5. CASE n > 0 /\ slot # "none" /\ WinmsgGet /\ UNCHANGED lost
      <4>1. screen = "install" /\ inst \in {"post", "ended"} /\ slot = outcome
        BY <3>2, <3>5 DEF TypeOK, Posting, Waiting, InstallLoop
      <4>2. ui' = "join" /\ result' = slot
        BY <3>5, <4>1
      <4> QED
        BY <3>1, <3>2, <3>5, <4>1, <4>2
           DEF WinmsgGet, TypeOK, Posting, Waiting, Notified, InstallLoop
    <3> QED
      BY <3>3, <3>4, <3>5
  <2>10. CASE DispatchKey
    <3>1. PICK k \in Keys :
            /\ WaitKey(k)
            /\ ui' = IF k = "back" THEN "clear"
                     ELSE IF k = "next" /\ screen = "buttons" THEN "idle" ELSE ui
      BY <2>10 DEF DispatchKey
    <3>2. UNCHANGED <<slot, n, screen, inst, outcome, result, keys, lost>>
      BY <2>10 DEF DispatchKey
    <3>3. ui = "wait"
      BY <3>1 DEF WaitKey
    <3>4. TypeOK'
      BY <3>1, <3>2, <3>3, Taken DEF TypeOK
    <3>5. Posting' /\ Waiting'
      BY <3>1, <3>2, <3>3 DEF Posting, Waiting, InstallLoop
    <3>6. Notified'
      BY <3>1, <3>2, <3>3, Taken DEF Notified, InstallLoop
    <3> QED
      BY <3>4, <3>5, <3>6
  <2>11. CASE Join
    BY <2>11 DEF Join, TypeOK, Posting, Waiting, Notified, InstallLoop
  <2>12. CASE UNCHANGED vars
    BY <2>12 DEF vars, TypeOK, Posting, Waiting, Notified, Noted, InstallLoop
  <2> QED
    BY <2>1, <2>2, <2>3, <2>4, <2>5, <2>6, <2>7, <2>8, <2>9, <2>10, <2>11,
       <2>12 DEF Next, PostOutcome, UiStep
<1> QED
  BY <1>1, <1>2, PTL DEF Spec

\* Every variable keeps its type.
THEOREM InstallTypes == Spec => []TypeOK
<1>1. IInv => TypeOK
  BY DEF IInv
<1> QED
  BY <1>1, InstallInductive, PTL

\* The outcome of an installation is never forgotten.
THEOREM CompletionStays == Spec => []CompletionPending
<1>1. IInv => CompletionPending
  BY DEF IInv, Posting, Notified, Noted, CompletionPending
<1> QED
  BY <1>1, InstallInductive, PTL

\* The UI thread is told the outcome of this installation.
THEOREM OwnResult == Spec => []ResultIsOwn
<1>1. IInv => ResultIsOwn
  BY DEF IInv, TypeOK, Posting, Waiting, ResultIsOwn
<1> QED
  BY <1>1, InstallInductive, PTL

=============================================================================
