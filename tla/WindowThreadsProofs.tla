------------------------- MODULE WindowThreadsProofs -------------------------
(***************************************************************************)
(* Proofs about WindowThreads, for any finite set of helper threads.       *)
(***************************************************************************)
EXTENDS WindowThreads, FiniteSetTheorems, TLAPS

USE DEF Idle, Counted, Arriving, Labels

\* Every variable has its type.
THEOREM WindowTypes == Spec => []TypeOK
<1>1. Init => TypeOK
  BY DEF Init, TypeOK
<1>2. TypeOK /\ [Next]_vars => TypeOK'
  <2> SUFFICES ASSUME TypeOK, [Next]_vars PROVE TypeOK'
    OBVIOUS
  <2> USE DEF TypeOK, Note
  <2>1. CASE UiStep
    <3>1. CASE Show \/ Free
      <4>1. mishaps' \subseteq {"late", "torn", "reset", "timeout"}
        BY <3>1 DEF Show, Free
      <4>2. threadnum' \in Int
        BY <3>1 DEF Show, Free
      <4> QED
        BY <3>1, <4>1, <4>2 DEF Show, Free
    <3>2. CASE Mute \/ Unmute \/ Hide \/ Destroy
      BY <3>2 DEF Mute, Unmute, Hide, Destroy
    <3>3. ASSUME NEW h \in Helpers, StartHelper(h) PROVE TypeOK'
      BY <3>3 DEF StartHelper
    <3> QED
      BY <2>1, <3>1, <3>2, <3>3 DEF UiStep
  <2>2. ASSUME NEW h \in Helpers, HelperStep(h) PROVE TypeOK'
    <3>1. CASE Check(h)
      BY <3>1 DEF Check
    <3>2. CASE Enter(h) \/ Leave(h)
      BY <3>2 DEF Enter, Leave, LoadCount
    <3>3. CASE Entered(h) \/ Left(h)
      <4>1. /\ loaded[h] \in Int
            /\ threadnum' \in {loaded[h] + 1, loaded[h] - 1}
        BY <3>3 DEF Entered, Left, StoreCount
      <4>2. threadnum' \in Int
        BY <4>1
      <4>3. pc' \in [Helpers -> Labels]
        BY <3>3 DEF Entered, Left, StoreCount
      <4> QED
        BY <3>3, <4>2, <4>3 DEF Entered, Left, StoreCount
    <3>4. CASE Stop(h)
      BY <3>4 DEF Stop
    <3> QED
      BY <2>2, <3>1, <3>2, <3>3, <3>4 DEF HelperStep
  <2>3. ASSUME NEW h \in Helpers, Finish(h) PROVE TypeOK'
    BY <2>3 DEF Finish, InLabels
  <2>4. CASE UNCHANGED vars
    BY <2>4 DEF vars
  <2> QED
    BY <2>1, <2>2, <2>3, <2>4 DEF Next
<1> QED
  BY <1>1, <1>2, PTL DEF Spec

\* The threads that are counted are finitely many.
LEMMA CountedFinite == IsFiniteSet(InLabels(Counted))
  BY HelpersAssumption, FS_Subset DEF InLabels

\* A thread that starts or ends being counted changes their number by one.
LEMMA OneMore ==
  ASSUME NEW h \in Helpers,
         h \notin InLabels(Counted),
         InLabels(Counted)' = InLabels(Counted) \cup {h}
  PROVE  Cardinality(InLabels(Counted))' = Cardinality(InLabels(Counted)) + 1
  BY CountedFinite, FS_AddElement

LEMMA OneLess ==
  ASSUME NEW h \in Helpers,
         h \in InLabels(Counted),
         InLabels(Counted)' = InLabels(Counted) \ {h}
  PROVE  Cardinality(InLabels(Counted))' = Cardinality(InLabels(Counted)) - 1
  BY CountedFinite, FS_RemoveElement

\* As long as nothing comes in between, threadnum is the number of threads
\* between their increment and their decrement.
THEOREM CountExact == Spec => []CountIsExact
<1>1. Init => CountIsExact
  <2> SUFFICES ASSUME Init PROVE Cardinality(InLabels(Counted)) = 0
    BY DEF Init, CountIsExact
  <2>1. InLabels(Counted) = {}
    BY DEF Init, InLabels
  <2> QED
    BY <2>1, FS_EmptySet
<1>2. CountIsExact /\ TypeOK /\ [Next]_vars => CountIsExact'
  <2> SUFFICES ASSUME CountIsExact, TypeOK, [Next]_vars, mishaps' = {}
               PROVE  threadnum' = Cardinality(InLabels(Counted))'
    BY DEF CountIsExact
  <2> USE DEF TypeOK, Note
  <2>1. mishaps = {}
    BY DEF Next, UiStep, Show, Mute, Unmute, Hide, Destroy, Free, StartHelper,
           HelperStep, Check, Enter, Leave, LoadCount, Entered, Left, StoreCount,
           Stop, Finish, vars
  <2>2. threadnum = Cardinality(InLabels(Counted))
    BY <2>1 DEF CountIsExact
  <2>3. CASE /\ threadnum' = threadnum
             /\ InLabels(Counted)' = InLabels(Counted)
    BY <2>2, <2>3
  <2>4. CASE Show
    <3>1. InLabels(Counted) = {} /\ InLabels(Counted)' = {}
      BY <2>1, <2>4 DEF Show, InLabels
    <3> QED
      BY <2>4, <3>1, FS_EmptySet DEF Show
  <2>5. CASE UiStep /\ ~Show
    <3>1. threadnum' = threadnum
      BY <2>5 DEF UiStep, Mute, Unmute, Hide, Destroy, Free, StartHelper
    <3>2. InLabels(Counted)' = InLabels(Counted)
      BY <2>5 DEF UiStep, Mute, Unmute, Hide, Destroy, Free, StartHelper,
                  InLabels
    <3> QED
      BY <2>3, <3>1, <3>2
  <2>6. ASSUME NEW h \in Helpers, HelperStep(h)
        PROVE  threadnum' = Cardinality(InLabels(Counted))'
    <3>1. CASE Check(h) \/ Enter(h) \/ Stop(h) \/ Leave(h)
      <4>1. threadnum' = threadnum
        BY <3>1 DEF Check, Enter, Stop, Leave, LoadCount
      <4>2. InLabels(Counted)' = InLabels(Counted)
        BY <3>1 DEF Check, Enter, Stop, Leave, LoadCount, InLabels
      <4> QED
        BY <2>3, <4>1, <4>2
    <3>2. CASE Entered(h)
      <4>1. threadnum' = threadnum + 1
        BY <2>1, <3>2 DEF Entered, StoreCount
      <4>2. /\ h \notin InLabels(Counted)
            /\ InLabels(Counted)' = InLabels(Counted) \cup {h}
        BY <3>2 DEF Entered, StoreCount, InLabels
      <4> QED
        BY <2>2, <4>1, <4>2, OneMore
    <3>3. CASE Left(h)
      <4>1. threadnum' = threadnum - 1
        BY <2>1, <3>3 DEF Left, StoreCount
      <4>2. /\ h \in InLabels(Counted)
            /\ InLabels(Counted)' = InLabels(Counted) \ {h}
        BY <3>3 DEF Left, StoreCount, InLabels
      <4> QED
        BY <2>2, <4>1, <4>2, OneLess
    <3> QED
      BY <2>6, <3>1, <3>2, <3>3 DEF HelperStep
  <2>7. ASSUME NEW h \in Helpers, Finish(h)
        PROVE  threadnum' = Cardinality(InLabels(Counted))'
    <3>1. threadnum' = threadnum
      BY <2>7 DEF Finish
    <3>2. InLabels(Counted)' = InLabels(Counted)
      BY <2>7 DEF Finish, InLabels
    <3> QED
      BY <2>3, <3>1, <3>2
  <2>8. CASE UNCHANGED vars
    BY <2>3, <2>8 DEF vars, InLabels
  <2> QED
    BY <2>4, <2>5, <2>6, <2>7, <2>8 DEF Next
<1> QED
  BY <1>1, <1>2, WindowTypes, PTL DEF Spec

\* No helper touches a freed window, unless one of the four mishaps happened.
THEOREM ClosedOrMishap == Spec => []ThreadsClosedOrMishap
<1> DEFINE Safe == ThreadsClosedOrMishap
<1>1. Init => Safe
  BY DEF Init, ThreadsClosedOrMishap, ThreadsClosed
<1>2. Safe /\ CountIsExact /\ TypeOK /\ [Next]_vars => Safe'
  <2> SUFFICES ASSUME Safe, CountIsExact, TypeOK, [Next]_vars,
                      mishaps' = {}, ui' = "freed"
               PROVE  InLabels(Labels \ Idle)' = {}
    BY DEF ThreadsClosedOrMishap, ThreadsClosed
  <2> USE DEF TypeOK, Note
  <2>1. mishaps = {}
    BY DEF Next, UiStep, Show, Mute, Unmute, Hide, Destroy, Free, StartHelper,
           HelperStep, Check, Enter, Leave, LoadCount, Entered, Left, StoreCount,
           Stop, Finish, vars
  <2>2. CASE Free
    <3>1. threadnum <= 0 /\ InLabels(Arriving) = {} /\ pc' = pc
      BY <2>1, <2>2 DEF Free, WaitIsOver
    <3>2. threadnum = Cardinality(InLabels(Counted))
      BY <2>1 DEF CountIsExact
    <3>3. Cardinality(InLabels(Counted)) = 0
      BY <3>1, <3>2, CountedFinite, FS_CardinalityType
    <3>4. InLabels(Counted) = {}
      BY <3>3, CountedFinite, FS_EmptySet
    <3> QED
      BY <3>1, <3>4 DEF InLabels
  <2>3. CASE ui = "freed"
    <3>1. \A h \in Helpers : pc[h] \in Idle
      BY <2>1, <2>3 DEF ThreadsClosedOrMishap, ThreadsClosed, InLabels
    <3>2. pc' = pc
      BY <2>3, <3>1 DEF Next, UiStep, Show, Mute, Unmute, Hide, Destroy, Free,
         StartHelper, HelperStep, Check, Enter, Leave, LoadCount, Entered, Left,
         StoreCount, Stop, Finish, vars
    <3> QED
      BY <3>1, <3>2 DEF InLabels
  <2>4. Free \/ ui = "freed"
    BY DEF Next, UiStep, Show, Mute, Unmute, Hide, Destroy, StartHelper,
       HelperStep, Check, Enter, Leave, LoadCount, Entered, Left, StoreCount,
       Stop, Finish, vars
  <2> QED
    BY <2>2, <2>3, <2>4
<1> QED
  BY <1>1, <1>2, WindowTypes, CountExact, PTL DEF Spec

=============================================================================
