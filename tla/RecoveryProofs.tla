--------------------------- MODULE RecoveryProofs ---------------------------
(***************************************************************************)
(* The safety properties of recovery.cpp, for every value of the constants *)
(* of its two models: the life of a command (RecoveryBoot) and the log     *)
(* files (RecoveryLogs).                                                   *)
(***************************************************************************)
EXTENDS RecoveryBoot, RecoveryLogs, TLAPS

-----------------------------------------------------------------------------
(* RecoveryBoot, for every set of commands and every bound on requests,    *)
(* power losses, failures and script length.                               *)
(*                                                                         *)
(* None of the properties is inductive: what holds when recovery reboots   *)
(* depends on how the subroutines were entered (Returns), on what main()   *)
(* has read (Reading, Fresh) and on what each label says about status      *)
(* (Telling).                                                              *)

FinishLabels == {"finish_intent", "finish_bcb", "finish_unlink"}
RebootLabels == {"reboot", "reboot_recovery"}

\* A subroutine runs with a place to return to that its callers use.
Returns ==
  /\ pc = "erasing_data" => ret \in {"wiped_data", "script", "menu"}
  /\ pc = "erasing_cache" => ret \in EraseReturns \ {"wiped_data"}
  /\ pc \in FinishLabels => ret \in FinishReturns

\* A half-formatted /cache holds no command.
BrokenIsEmpty ==
  cacheFs = "broken" => "cache" \in made /\ cmdFile = Absent /\ files = {}

\* The main system never runs while the BCB names recovery.
AndroidIsFree ==
  pc = "android" => bcb = Absent

\* While a request is owed and its erase of /cache has not begun it is on record,
\* and whoever has read arguments has read it.
Reading ==
  faults = 0 /\ owed # NoCommand /\ ~wiping =>
    /\ cmdFile = owed
    /\ owed.pkg = "cache" => "package" \in files
    /\ bcb \in {Absent, NoCommand, owed}
    /\ \/ pc \in {"off", "android", "start"}
       \/ pc \in {"got_args", "dispatch", "install", "wiped_data"} /\ args = owed
       \/ pc = "erasing_data" /\ ret = "wiped_data" /\ args = owed

\* With a working misc partition the BCB names recovery only from get_args
\* to the next statement of main(), or after a power loss between the two.
EarlyClear ==
  faults = 0 =>
    /\ bcb # Absent => pc \in {"got_args", "off", "start"}
    /\ pc \in RebootLabels => cmdFile = Absent

\* What status and args are at the labels where they matter.
Telling ==
  /\ pc \in {"menu", "script_found", "script", "reboot_recovery"} => status =
     "error"
  /\ pc \in SubLabels /\ ret \in {"menu", "script", "reboot_recovery"} =>
     status = "error"
  /\ pc \in {"script_found", "script"} \/ (pc \in SubLabels /\ ret = "script")
     => ~WipesCache(args)
  /\ pc = "install" => args.pkg # "none"
  /\ pc = "decide" => args.pkg # "none" \/ ~WipesCache(args)
  /\ pc = "erasing_cache" /\ ret \in {"install", "decide"} => args.pkg #
     "none"
  /\ "data" \in made
     /\ status = "success" /\ args.pkg = "none" /\ args.wipe_data
     /\ pc \in {"wiped_data", "erasing_cache", "wiped", "reboot"} \cup
        FinishLabels
     => data = "erased"
  /\ "cache" \in made
     /\ status = "success" /\ args.pkg = "none" /\ WipesCache(args)
     /\ pc \in {"wiped", "reboot"} \cup FinishLabels
     => cacheFs = "ok" /\ cmdFile = Absent /\ files \subseteq {"intent"}

\* As long as nothing went wrong, a command that can be read is owed.
Fresh ==
  crashes = 0 /\ faults = 0 =>
    /\ pc \in {"off", "android", "start"} => cmdFile \in {Absent, owed} /\ bcb
       = Absent
    /\ pc \in {"got_args", "dispatch"} => args \in {NoCommand, owed}
    /\ pc = "erasing_data" /\ ret = "wiped_data" => args = owed /\
       args.wipe_data

IInv ==
  /\ TypeOK
  /\ Returns
  /\ BrokenIsEmpty
  /\ AndroidIsFree
  /\ Reading
  /\ EarlyClear
  /\ Telling
  /\ Fresh

-----------------------------------------------------------------------------

\* Where subroutines return to: the labels only.
TypeInv == TypeOK /\ Returns

LEMMA InitTypes == Init => TypeOK /\ Returns
<1> SUFFICES ASSUME Init PROVE TypeOK /\ Returns
  OBVIOUS
<1>1. made \subseteq Volumes /\ wiping \in BOOLEAN
  BY DEF Init
<1>2. /\ bcb \in Commands \cup {NoCommand, Absent} /\ cmdFile \in Commands \cup {Absent}
      /\ files \subseteq CacheFiles
      /\ args \in Commands \cup {NoCommand} /\ owed \in Commands \cup {NoCommand}
  BY DEF Init
<1>3. /\ cacheFs \in {"ok", "broken"} /\ data \in {"user", "broken", "erased"}
      /\ pc \in Labels /\ reason \in {"none", "recovery"}
      /\ status \in {"success", "error"}
      /\ ret \in EraseReturns \cup FinishReturns \cup {"none"}
  BY DEF Init, Labels
<1>4. /\ lines \in 0..MaxLines /\ requests \in 0..MaxRequests
      /\ crashes \in 0..MaxCrashes /\ faults \in 0..MaxFaults
  BY BoundAssumption DEF Init
<1>5. Returns
  BY DEF Init, Returns, FinishLabels
<1> QED
  BY <1>1, <1>2, <1>3, <1>4, <1>5 DEF TypeOK

\* Every variable keeps its type, and a subroutine returns to a label its
\* callers know.
THEOREM TypeCorrect == Spec => []TypeInv
<1>1. Init => TypeInv
  BY InitTypes DEF TypeInv
<1>2. TypeInv /\ [Next]_vars => TypeInv'
  <2> SUFFICES ASSUME TypeInv, [Next]_vars PROVE TypeInv'
    OBVIOUS
  <2> USE BoundAssumption DEF Volumes, TypeInv, TypeOK, Returns, Goto, Labels,
     MainLabels,
        SubLabels, EraseReturns, FinishReturns, FinishLabels, persistent,
        volatile, history
  <2>1. CASE GetArgs
    BY <2>1 DEF GetArgs, SetBootloaderMessage, Fault, ArgsFrom
  <2>2. CASE ClearBootMessage
    BY <2>2 DEF ClearBootMessage, SetBootloaderMessage, Fault
  <2>3. CASE EndErase
    BY <2>3 DEF EndErase, StatusAfter
  <2>4. CASE WipeBeforeInstall
    BY <2>4 DEF WipeBeforeInstall, BeginWipe, BeginErase, Erasing
  <2>5. CASE DispatchInstall
    BY <2>5 DEF DispatchInstall
  <2>6. CASE Install
    <3>1. owed' \in Commands \cup {NoCommand}
      BY <2>6 DEF Install, SettleRequest
    <3>2. CASE Goto("install", "decide") /\ UNCHANGED <<persistent, ret>>
      BY <2>6, <3>1, <3>2 DEF Install
    <3>3. CASE BeginErase("cache", "install", "decide")
      BY <2>6, <3>1, <3>3 DEF Install, BeginErase, Erasing
    <3> QED
      BY <2>6, <3>2, <3>3 DEF Install
  <2>7. CASE DispatchWipeData
    BY <2>7 DEF DispatchWipeData, BeginErase, Erasing
  <2>8. CASE WipeCacheToo
    BY <2>8 DEF WipeCacheToo, BeginWipe, BeginErase, Erasing
  <2>9. CASE DispatchWipeCache
    BY <2>9 DEF DispatchWipeCache, BeginWipe, BeginErase, Erasing
  <2>10. CASE DispatchNone
    BY <2>10 DEF DispatchNone, SettleRequest, MountCache, Fault
  <2>11. CASE RemoveScript
    BY <2>11 DEF RemoveScript
  <2>12. CASE RunScriptLine
    <3>1. lines' \in 0..MaxLines
      BY <2>12 DEF RunScriptLine
    <3>2. CASE \E v \in Volumes : BeginErase(v, "script", "script")
      <4>1. PICK v \in Volumes : BeginErase(v, "script", "script")
        BY <3>2
      <4>2. QED
        BY <2>12, <3>1, <4>1 DEF RunScriptLine, BeginErase, Erasing
    <3>3. CASE \E r \in {"reboot", "reboot_recovery"} :
                 Goto("script", "finish_bcb") /\ ret' = r /\ UNCHANGED
                    persistent
      BY <2>12, <3>1, <3>3 DEF RunScriptLine
    <3>4. CASE pc = "script" /\ UNCHANGED <<pc, ret, persistent>>
      BY <2>12, <3>1, <3>4 DEF RunScriptLine
    <3>5. QED
      BY <2>12, <3>2, <3>3, <3>4 DEF RunScriptLine
  <2>13. CASE ScriptDone
    BY <2>13 DEF ScriptDone
  <2>14. CASE ShowMenu
    BY <2>14 DEF ShowMenu, SettleRequest
  <2>15. CASE BeginFinish
    BY <2>15 DEF BeginFinish, SettleRequest
  <2>16. CASE WriteIntent
    BY <2>16 DEF WriteIntent, MountCache, Fault, CacheFiles
  <2>17. CASE FinishBcb
    BY <2>17 DEF FinishBcb, SetBootloaderMessage, Fault
  <2>18. CASE FinishUnlink
    BY <2>18 DEF FinishUnlink, MountCache, Fault
  <2>19. CASE Reboot
    BY <2>19 DEF Reboot, LoseMemory
  <2>20. CASE AndroidScript
    BY <2>20 DEF AndroidScript, CacheFiles
  <2>21. CASE AndroidOff
    BY <2>21 DEF AndroidOff
  <2>22. CASE AndroidSetup
    BY <2>22 DEF AndroidSetup
  <2>23. CASE MenuFinish
    BY <2>23 DEF MenuFinish
  <2>24. CASE BootRecovery
    BY <2>24 DEF BootRecovery
  <2>25. CASE BootAndroid
    BY <2>25 DEF BootAndroid
  <2>26. CASE PowerLoss
    BY <2>26 DEF PowerLoss, LoseMemory
  <2>27. ASSUME NEW cmd \in Commands, AndroidRequest(cmd) PROVE TypeInv'
    <3>1. made' \subseteq Volumes /\ files' \subseteq CacheFiles /\ wiping' \in BOOLEAN
          /\ bcb' = bcb
      BY <2>27 DEF AndroidRequest, CacheFiles
    <3>2. pc' = "off" /\ ret' = ret /\ requests' \in 0..MaxRequests
      BY <2>27 DEF AndroidRequest
    <3> QED
      BY <2>27, <3>1, <3>2 DEF AndroidRequest
  <2>28. ASSUME NEW v \in Volumes, MenuErase(v) PROVE TypeInv'
    BY <2>28 DEF MenuErase, BeginErase, Erasing
  <2>29. CASE UNCHANGED vars
    BY <2>29 DEF vars
  <2>30. QED
    BY <2>1, <2>2, <2>3, <2>4, <2>5, <2>6, <2>7, <2>8, <2>9, <2>10, <2>11,
       <2>12, <2>13, <2>14, <2>15, <2>16, <2>17, <2>18, <2>19, <2>20, <2>21,
       <2>22, <2>23, <2>24, <2>25, <2>26, <2>27, <2>28, <2>29 DEF Next,
       RecoveryStep,
       EnvironmentStep, Boot
<1>3. QED
  BY <1>1, <1>2, PTL DEF Spec

-----------------------------------------------------------------------------

\* Every variable keeps its type.
THEOREM BootTypes == Spec => []TypeOK
<1>1. TypeInv => TypeOK
  BY DEF TypeInv
<1> QED
  BY <1>1, TypeCorrect, PTL

\* The strengthening is inductive: it gives every safety property below.
THEOREM Inductive == Spec => []IInv
<1>1. Init => IInv
  <2> SUFFICES ASSUME Init PROVE IInv
    OBVIOUS
  <2>1. TypeOK /\ Returns
    BY InitTypes
  <2>2. BrokenIsEmpty /\ AndroidIsFree /\ Reading /\ EarlyClear /\ Fresh
    BY DEF Init, BrokenIsEmpty, AndroidIsFree, Reading, EarlyClear, Fresh,
       RebootLabels
  <2>3. Telling
    BY DEF Init, Telling, SubLabels, FinishLabels
  <2>4. QED
    BY <2>1, <2>2, <2>3 DEF IInv
<1>2. TypeInv /\ TypeInv' /\ IInv /\ [Next]_vars => IInv'
  <2> SUFFICES ASSUME TypeInv, TypeInv', IInv, [Next]_vars PROVE IInv'
    OBVIOUS
  <2> USE BoundAssumption DEF Volumes, IInv, BrokenIsEmpty, AndroidIsFree, Reading,
     EarlyClear, Telling, Fresh, WipesCache, FinishLabels,
     RebootLabels, TypeInv, TypeOK, Returns, Goto, EraseReturns,
     FinishReturns, SubLabels, persistent, volatile, history
  <2>1. CASE GetArgs
    BY <2>1 DEF GetArgs, SetBootloaderMessage, Fault, ArgsFrom
  <2>2. CASE ClearBootMessage
    BY <2>2 DEF ClearBootMessage, SetBootloaderMessage, Fault
  <2>3. CASE EndErase
    BY <2>3 DEF EndErase, StatusAfter
  <2>4. CASE WipeBeforeInstall
    BY <2>4 DEF WipeBeforeInstall, BeginWipe, BeginErase, Erasing
  <2>5. CASE DispatchInstall
    BY <2>5 DEF DispatchInstall
  <2>6. CASE Install
    BY <2>6 DEF Install, SettleRequest, BeginErase, Erasing
  <2>7. CASE DispatchWipeData
    BY <2>7 DEF DispatchWipeData, BeginErase, Erasing, NoCommand
  <2>8. CASE WipeCacheToo
    BY <2>8 DEF WipeCacheToo, BeginWipe, BeginErase, Erasing
  <2>9. CASE DispatchWipeCache
    BY <2>9 DEF DispatchWipeCache, BeginWipe, BeginErase, Erasing
  <2>10. CASE DispatchNone
    <3>1. /\ pc = "dispatch" /\ pc' \in {"script_found", "decide"}
          /\ args.pkg = "none" /\ ~WipesCache(args)
          /\ status' = "error" /\ SettleRequest
          /\ UNCHANGED <<persistent, reason, args, ret, wiping, requests, crashes>>
      BY <2>10 DEF DispatchNone
    <3>2. faults' >= faults /\ (faults' = 0 => faults = 0)
      BY <2>10 DEF DispatchNone, MountCache, Fault
    <3>3. BrokenIsEmpty' /\ AndroidIsFree' /\ EarlyClear' /\ Telling' /\ Fresh'
      BY <3>1, <3>2
    <3>4. Reading'
      BY <3>1, <3>2 DEF SettleRequest
    <3> QED
      BY <3>3, <3>4
  <2>11. CASE RemoveScript
    BY <2>11 DEF RemoveScript
  <2>12. CASE RunScriptLine
    BY <2>12 DEF RunScriptLine, BeginErase, Erasing
  <2>13. CASE ScriptDone
    BY <2>13 DEF ScriptDone
  <2>14. CASE ShowMenu
    BY <2>14 DEF ShowMenu, SettleRequest
  <2>15. CASE BeginFinish
    BY <2>15 DEF BeginFinish, SettleRequest
  <2>16. CASE WriteIntent
    BY <2>16 DEF WriteIntent, MountCache, Fault
  <2>17. CASE FinishBcb
    BY <2>17 DEF FinishBcb, SetBootloaderMessage, Fault
  <2>18. CASE FinishUnlink
    BY <2>18 DEF FinishUnlink, MountCache, Fault
  <2>19. CASE Reboot
    BY <2>19 DEF Reboot, LoseMemory
  <2>20. CASE AndroidScript
    BY <2>20 DEF AndroidScript
  <2>21. CASE AndroidOff
    BY <2>21 DEF AndroidOff
  <2>22. CASE AndroidSetup
    BY <2>22 DEF AndroidSetup
  <2>23. CASE MenuFinish
    BY <2>23 DEF MenuFinish
  <2>24. CASE BootRecovery
    BY <2>24 DEF BootRecovery
  <2>25. CASE BootAndroid
    BY <2>25 DEF BootAndroid
  <2>26. CASE PowerLoss
    BY <2>26 DEF PowerLoss, LoseMemory
  <2>27. ASSUME NEW cmd \in Commands, AndroidRequest(cmd) PROVE IInv'
    BY <2>27 DEF AndroidRequest
  <2>28. ASSUME NEW v \in Volumes, MenuErase(v) PROVE IInv'
    BY <2>28 DEF MenuErase, BeginErase, Erasing
  <2>29. CASE UNCHANGED vars
    BY <2>29 DEF vars
  <2>30. QED
    BY <2>1, <2>2, <2>3, <2>4, <2>5, <2>6, <2>7, <2>8, <2>9, <2>10, <2>11,
       <2>12, <2>13, <2>14, <2>15, <2>16, <2>17, <2>18, <2>19, <2>20, <2>21,
       <2>22, <2>23, <2>24, <2>25, <2>26, <2>27, <2>28, <2>29 DEF Next,
       RecoveryStep, EnvironmentStep, Boot
<1>3. QED
  BY TypeCorrect, <1>1, <1>2, PTL DEF Spec

\* A request stays on record, with its package, through any number of power
\* losses until main() has carried it out, has shown that it could not, or has
\* begun its own erase of /cache for it, as long as no access fails.
THEOREM CommandIsKept == Spec => []CommandKept
<1>1. IInv => CommandKept
  BY DEF IInv, Reading, OnRecord, CommandKept
<1>2. QED
  BY Inductive, <1>1, PTL

\* A wipe that main() reports as a success has erased all it had to erase, on
\* the volumes that are made anew.
THEOREM SuccessIsErased == Spec => []SuccessMeansErased
<1>1. IInv => SuccessMeansErased
  BY DEF IInv, Telling, FinishLabels, WipesCache, SuccessMeansErased, Succeeded
<1>2. QED
  BY Inductive, <1>1, PTL

\* finish_recovery leaves neither a boot message nor a command behind.
THEOREM FinishClears == Spec => []NothingRepeats
<1>1. IInv => NothingRepeats
  BY DEF IInv, EarlyClear, RebootLabels, NothingRepeats
<1>2. QED
  BY Inductive, <1>1, PTL

\* Undisturbed, main() erases /data for the latest request and only once.
THEOREM ErasesAreRequested == Spec => []ErasesOnRequest
<1>1. IInv => ErasesOnRequest
  BY DEF IInv, Fresh, ErasesOnRequest
<1>2. QED
  BY Inductive, <1>1, PTL

-----------------------------------------------------------------------------
(* RecoveryLogs, for any number of kept logs, sessions and lines.          *)

\* Only LAST_LOG_FILE can be of the running session, and not before it has
\* been rotated.
Older ==
  \A s \in Slots : slots[s] # None =>
    /\ slots[s] <= session
    /\ s > 0 \/ phase = "rotating" => slots[s] < session

\* The loop of rotate_last_logs has just moved the file it writes to next.
Vacated == phase = "rotating" /\ i < MaxLog - 1 => slots[i + 1] = None

\* After the rotation LAST_LOG_FILE is free for this session.
Rotated ==
  phase \notin {"off", "rotating"} /\ "unmounted" \notin mishaps =>
    slots[0] \in {None, session}

\* LOG_FILE has what tmplog_offset says has been copied, unless a write has
\* failed; and it is the offset of the log that recovery writes.
Copied ==
  "unlinked" \notin mishaps =>
    /\ offset <= written
    /\ mishaps \cap Gaps = {} => 1..offset \subseteq logged

LogInv ==
  /\ LogTypeOK
  /\ NewestFirst
  /\ Older
  /\ Vacated
  /\ Rotated
  /\ Copied
  /\ LogComplete

USE LogAssumption DEF Slots, Mishaps, Gaps

LEMMA Appended ==
  ASSUME LogTypeOK, AppendLog
  PROVE  /\ mishaps' \in {mishaps, mishaps \cup {"short"}}
         /\ logged' \subseteq 1..written
         /\ phase = "append" /\ phase' = "copy" /\ offset' \in 0..MaxLogLines
         /\ UNCHANGED <<session, i, written, slots>>
<1> USE DEF LogTypeOK
<1>1. CASE "unlinked" \in mishaps
  <2>1. /\ mishaps' = mishaps /\ logged' = logged /\ offset' \in offset..MaxLogLines
        /\ phase = "append" /\ phase' = "copy"
        /\ UNCHANGED <<session, i, written, slots>>
    BY <1>1 DEF AppendLog
  <2>2. offset' \in 0..MaxLogLines
    BY <2>1
  <2> QED
    BY <2>1, <2>2
<1>2. CASE "unlinked" \notin mishaps
  <2>1. Writes /\ offset' = written
    BY <1>2 DEF AppendLog
  <2>2. PICK got \in SUBSET ((offset + 1)..written) :
          /\ logged' = logged \cup got
          /\ mishaps' = IF got = (offset + 1)..written THEN mishaps
                        ELSE mishaps \cup {"short"}
    BY <2>1 DEF Writes
  <2>3. got \subseteq 1..written
    BY <2>2
  <2> QED
    BY <2>1, <2>2, <2>3 DEF AppendLog
<1> QED
  BY <1>1, <1>2

\* Every variable has its type.
THEOREM LogTypes == LogSpec => []LogTypeOK
<1>1. LogInit => LogTypeOK
  BY DEF LogInit, LogTypeOK
<1>2. LogTypeOK /\ [LogNext]_logVars => LogTypeOK'
  <2> SUFFICES ASSUME LogTypeOK, [LogNext]_logVars PROVE LogTypeOK'
    OBVIOUS
  <2> USE DEF LogTypeOK
  <2>1. CASE StartSession
    BY <2>1 DEF StartSession
  <2>2. CASE RotateOne
    BY <2>2 DEF RotateOne, Renamed, LoopEnds
  <2>3. CASE RotateNothing
    BY <2>3 DEF RotateNothing
  <2>4. CASE WriteLine
    BY <2>4 DEF WriteLine
  <2>5. CASE EraseVolume
    <3>1. CASE CacheIsEmpty
      BY <2>5, <3>1 DEF EraseVolume, CacheIsEmpty
    <3>2. CASE UNCHANGED <<logged, slots>>
      BY <2>5, <3>2 DEF EraseVolume
    <3> QED
      BY <2>5, <3>1, <3>2 DEF EraseVolume
  <2>6. CASE FormatVolume
    BY <2>6 DEF FormatVolume, CacheIsEmpty
  <2>7. CASE BeginCopies
    BY <2>7 DEF BeginCopies
  <2>8. CASE AppendLog
    BY <2>8, Appended
  <2>9. CASE AppendFails
    BY <2>9 DEF AppendFails
  <2>10. CASE CopyLastLog
    BY <2>10 DEF CopyLastLog
  <2>11. CASE EndSession
    <3>1. logged' \subseteq 1..written
      <4>1. \/ logged' = logged
            \/ \E n \in offset..written : logged' = logged \cup (offset + 1)..n
        BY <2>11 DEF EndSession
      <4>2. \A n \in offset..written : (offset + 1)..n \subseteq 1..written
        OBVIOUS
      <4> QED
        BY <4>1, <4>2
    <3>2. phase' = "off" /\ UNCHANGED <<session, i, written, offset, slots, mishaps>>
      BY <2>11 DEF EndSession
    <3> HIDE <2>11
    <3> QED
      BY <3>1, <3>2
  <2>12. CASE UNCHANGED logVars
    BY <2>12 DEF logVars
  <2>13. CASE OtherProcess
    BY <2>13 DEF OtherProcess
  <2> QED
    BY <2>1, <2>2, <2>3, <2>4, <2>5, <2>6, <2>7, <2>8, <2>9, <2>10, <2>11,
       <2>12, <2>13 DEF LogNext
<1> QED
  BY <1>1, <1>2, PTL DEF LogSpec

\* LogInv is inductive.
THEOREM LogsInductive == LogSpec => []LogInv
<1>1. LogInit => LogInv
  BY DEF LogInit, LogInv, LogTypeOK, NewestFirst, Older, Vacated, Rotated,
         Copied, LogComplete
<1>2. LogInv /\ LogTypeOK' /\ [LogNext]_logVars => LogInv'
  <2> SUFFICES ASSUME LogInv, LogTypeOK', [LogNext]_logVars PROVE LogInv'
    OBVIOUS
  <2> USE DEF LogInv, LogTypeOK
  <2>1. CASE StartSession
    BY <2>1 DEF StartSession, NewestFirst, Older, Vacated, Rotated, Copied,
                LogComplete
  <2>2. CASE RotateOne
    <3> USE <2>2 DEF RotateOne, Renamed, LoopEnds
    <3>1. NewestFirst' /\ Older'
      BY DEF NewestFirst, Older
    <3>2. Vacated' /\ Rotated'
      <4>1. i \in Slots /\ i + 1 \in Slots /\ i + 1 # i
        OBVIOUS
      <4>2. slots'[i] = None
        <5>1. CASE slots[i] = None
          BY <5>1
        <5>2. CASE slots[i] # None
          BY <5>2, <4>1
        <5> QED
          BY <5>1, <5>2
      <4>3. CASE i = 0
        BY <4>2, <4>3 DEF Vacated, Rotated
      <4>4. CASE i # 0
        <5>1. i' + 1 = i /\ phase' = "rotating"
          BY <4>4
        <5> QED
          BY <4>2, <5>1 DEF Vacated, Rotated
      <4> QED
        BY <4>3, <4>4
    <3>3. Copied' /\ LogComplete'
      BY DEF Copied, LogComplete
    <3> QED
      BY <3>1, <3>2, <3>3
  <2>3. CASE RotateNothing
    BY <2>3 DEF RotateNothing, NewestFirst, Older, Vacated, Rotated, Copied,
                LogComplete
  <2>4. CASE WriteLine
    BY <2>4 DEF WriteLine, NewestFirst, Older, Vacated, Rotated, Copied,
                LogComplete
  <2>5. CASE EraseVolume
    BY <2>5 DEF EraseVolume, CacheIsEmpty, NewestFirst, Older, Vacated,
                Rotated, Copied, LogComplete
  <2>6. CASE FormatVolume
    BY <2>6 DEF FormatVolume, CacheIsEmpty, NewestFirst, Older, Vacated,
                Rotated, Copied, LogComplete
  <2>7. CASE BeginCopies
    BY <2>7 DEF BeginCopies, NewestFirst, Older, Vacated, Rotated, Copied,
                LogComplete
  <2>8. CASE AppendLog
    <3> USE <2>8, Appended
    <3>1. NewestFirst' /\ Older' /\ Vacated' /\ Rotated'
      BY DEF NewestFirst, Older, Vacated, Rotated
    <3>2. ASSUME "unlinked" \in mishaps PROVE Copied' /\ LogComplete'
      BY <3>2 DEF Copied, LogComplete
    <3>3. ASSUME "unlinked" \notin mishaps PROVE Copied' /\ LogComplete'
      <4>1. offset <= written /\ 1..written = (1..offset) \cup ((offset + 1)..written)
        BY <3>3 DEF Copied
      <4>2. PICK got \in SUBSET ((offset + 1)..written) :
              /\ logged' = logged \cup got
              /\ mishaps' = IF got = (offset + 1)..written THEN mishaps
                            ELSE mishaps \cup {"short"}
        BY <3>3 DEF AppendLog, Writes
      <4>3. offset' = written /\ UNCHANGED written
        BY <3>3 DEF AppendLog
      <4>4. mishaps' \cap Gaps = {} => logged' = 1..written
        BY <4>1, <4>2 DEF Copied
      <4> QED
        BY <4>3, <4>4 DEF Copied, LogComplete
    <3>4. Copied' /\ LogComplete'
      BY <3>2, <3>3
    <3> QED
      BY <3>1, <3>4
  <2>9. CASE AppendFails
    BY <2>9 DEF AppendFails, NewestFirst, Older, Vacated, Rotated, Copied,
                LogComplete
  <2>10. CASE CopyLastLog
    <3> USE <2>10 DEF CopyLastLog
    <3>1. NewestFirst' /\ Older'
      BY DEF NewestFirst, Older
    <3>2. Vacated' /\ Rotated' /\ Copied' /\ LogComplete'
      BY DEF Vacated, Rotated, Copied, LogComplete
    <3> QED
      BY <3>1, <3>2
  <2>11. CASE EndSession
    BY <2>11 DEF EndSession, NewestFirst, Older, Vacated, Rotated, Copied,
                 LogComplete
  <2>12. CASE UNCHANGED logVars
    BY <2>12 DEF logVars, NewestFirst, Older, Vacated, Rotated, Copied,
                 LogComplete
  <2>13. CASE OtherProcess
    BY <2>13 DEF OtherProcess, NewestFirst, Older, Vacated, Rotated, Copied,
                 LogComplete
  <2> QED
    BY <2>1, <2>2, <2>3, <2>4, <2>5, <2>6, <2>7, <2>8, <2>9, <2>10, <2>11,
       <2>12, <2>13 DEF LogNext
<1> QED
  BY <1>1, <1>2, LogTypes, PTL DEF LogSpec

\* The kept logs are ordered, newest first.
THEOREM LogsOrdered == LogSpec => []NewestFirst
  BY LogsInductive, PTL DEF LogInv

\* An append by finish_recovery leaves every line of the session in LOG_FILE,
\* unless a write failed or /cache was formatted since the offset was last reset,
\* or another process has taken the temporary log's name.
THEOREM LogsComplete == LogSpec => []LogComplete
  BY LogsInductive, PTL DEF LogInv

\* A kept log that disappears was the oldest one of a full set.
THEOREM OnlyOldestDropped == LogSpec => DropsOnlyOldest
<1> DEFINE Drops ==
      slots' # [s \in Slots |-> None] /\ "unmounted" \notin mishaps =>
        \A old \in Kept \ {slots'[s] : s \in Slots} :
          /\ slots[MaxLog] = old
          /\ phase = "rotating" /\ i = MaxLog - 1 /\ slots[i] # None
<1>1. LogInv /\ [LogNext]_logVars => [Drops]_logVars
  <2> SUFFICES ASSUME LogInv, LogNext,
                      slots' # [s \in Slots |-> None],
                      "unmounted" \notin mishaps,
                      NEW old \in Kept, old \notin {slots'[s] : s \in Slots}
               PROVE  /\ slots[MaxLog] = old
                      /\ phase = "rotating" /\ i = MaxLog - 1 /\ slots[i] # None
    OBVIOUS
  <2> USE DEF LogInv, LogTypeOK, Kept
  <2>1. PICK s \in Slots : slots[s] = old /\ old # None
    OBVIOUS
  <2>2. slots' # slots
    BY <2>1
  <2>3. CASE RotateOne
    BY <2>1, <2>2, <2>3 DEF RotateOne, Renamed, LoopEnds, Vacated
  <2>4. CASE CopyLastLog
    BY <2>1, <2>2, <2>4 DEF CopyLastLog, Rotated
  <2>5. ~EraseVolume /\ ~FormatVolume
    BY <2>2 DEF EraseVolume, FormatVolume, CacheIsEmpty
  <2> QED
    BY <2>2, <2>3, <2>4, <2>5 DEF LogNext, StartSession, RotateNothing,
       WriteLine, OtherProcess, BeginCopies, AppendLog, AppendFails, EndSession
<1> QED
  BY <1>1, LogsInductive, PTL DEF LogSpec, DropsOnlyOldest

=============================================================================
