---------------------------- MODULE RecoveryBoot ----------------------------
(***************************************************************************)
(* The life of a recovery command: from the main system, which leaves it   *)
(* in /cache/recovery/command and reboots, through main() of recovery.cpp, *)
(* which copies it to the bootloader control block (BCB), carries it out   *)
(* and calls finish_recovery(), back to the main system.  Power may be     *)
(* lost between any two steps: what is in memory is lost, what is on the   *)
(* misc, cache and data partitions stays.                                  *)
(*                                                                         *)
(* A step of this module is one access to persistent storage.  erase_volume*)
(* takes two (the file system is destroyed, then made again) and is a      *)
(* subroutine of main(), of the menu and of the OpenRecoveryScript; so is  *)
(* finish_recovery, which takes three.  The variable ret says where the    *)
(* running subroutine returns to.                                          *)
(***************************************************************************)
EXTENDS Naturals

CONSTANTS
  Absent,      (* no file, or no line of arguments in the BCB               *)
  Commands,    (* the argument lists the main system may ask for            *)
  MaxRequests, (* bound: requests of the main system in a behaviour         *)
  MaxCrashes,  (* bound: power losses in a behaviour                        *)
  MaxFaults,   (* bound: failed accesses of misc, failed mounts of /cache   *)
  MaxLines     (* bound: commands of one OpenRecoveryScript                 *)

\* The options getopt_long knows that change what main() does.
Command == [pkg        : {"none", "cache", "sdcard"},   \* --update_package
            wipe_data  : BOOLEAN,                       \* --wipe_data
            wipe_cache : BOOLEAN,                       \* --wipe_cache
            send_intent: BOOLEAN]                       \* --send_intent

NoCommand == [pkg |-> "none", wipe_data |-> FALSE, wipe_cache |-> FALSE,
              send_intent |-> FALSE]

ASSUME BoundAssumption ==
  /\ Commands \subseteq Command \ {NoCommand}
  /\ Absent \notin Command
  /\ MaxRequests \in Nat /\ MaxCrashes \in Nat
  /\ MaxFaults \in Nat /\ MaxLines \in Nat \ {0}

VARIABLES
  \* persistent
  made,        (* of recovery.fstab, never changed: which of /data and      *)
               (* /cache format_volume makes anew (yaffs2, mtd, ext2, ext3, *)
               (* ext4, a raw partition); of another type, or with the      *)
               (* sdcard on /data, its files are to be removed              *)
  bcb,         (* the arguments in the BCB next to "boot-recovery", or      *)
               (* Absent when it is zeroed: both fields are written at once *)
  cmdFile,     (* COMMAND_FILE, or Absent                                   *)
  files,       (* which other files are on /cache: the OTA package, an      *)
               (* openrecoveryscript, INTENT_FILE of the last request       *)
  cacheFs,     (* the file system of /cache: "ok" or "broken"               *)
  data,        (* what is on /data: "user", "broken" or "erased"            *)
  \* volatile
  pc,          (* where the machine is                                      *)
  reason,      (* the reboot reason handed to the bootloader                *)
  args,        (* argv of main() after get_args()                           *)
  status,      (* status of main()                                          *)
  ret,         (* where erase_volume or finish_recovery returns to          *)
  lines,       (* commands of /tmp/openrecoveryscript still to run          *)
  \* history and bounds
  owed,        (* the request of the main system not yet dealt with         *)
  wiping,      (* main() has begun its own erase of /cache for it           *)
  requests, crashes, faults

persistent == <<made, bcb, cmdFile, files, cacheFs, data>>
vars == <<persistent, pc, reason, args, status, ret, lines, owed, wiping,
          requests, crashes, faults>>

CacheFiles == {"package", "script", "intent"}
Volumes == {"data", "cache"}

\* Labels, and what runs next.
MainLabels ==
  {"start",           \* next: GetArgs
   "got_args",        \* next: ClearBootMessage
   "dispatch",        \* next: DispatchInstall, DispatchWipe, DispatchNone
   "install",         \* next: Install
   "wiped_data",      \* next: WipeCacheToo, back from erasing /data
   "wiped",           \* next: ShowMenu, BeginFinish, back from the last erase
   "script_found",    \* next: RemoveScript
   "script",          \* next: RunScriptLine, ScriptDone
   "decide",          \* next: ShowMenu, BeginFinish
   "menu"}            \* next: MenuErase, MenuFinish
SubLabels ==
  {"erasing_data", "erasing_cache",        \* next: EndErase
   "finish_intent",                        \* next: WriteIntent
   "finish_bcb", "finish_unlink",          \* next: FinishBcb, FinishUnlink
   "reboot", "reboot_recovery"}            \* next: Reboot
Labels == {"off", "android"} \cup MainLabels \cup SubLabels
EraseReturns == {"install", "wiped_data", "wiped", "decide", "script", "menu"}
FinishReturns == {"reboot", "reboot_recovery", "menu"}

TypeOK ==
  /\ made \subseteq Volumes
  /\ bcb \in Commands \cup {NoCommand, Absent}
  /\ cmdFile \in Commands \cup {Absent}
  /\ files \subseteq CacheFiles
  /\ cacheFs \in {"ok", "broken"}
  /\ data \in {"user", "broken", "erased"}
  /\ pc \in Labels
  /\ reason \in {"none", "recovery"}
  /\ args \in Commands \cup {NoCommand}
  /\ status \in {"success", "error"}
  /\ ret \in EraseReturns \cup FinishReturns \cup {"none"}
  /\ lines \in 0..MaxLines
  /\ owed \in Commands \cup {NoCommand} /\ wiping \in BOOLEAN
  /\ requests \in 0..MaxRequests
  /\ crashes \in 0..MaxCrashes /\ faults \in 0..MaxFaults

Init ==
  /\ made \in SUBSET Volumes
  /\ bcb = Absent /\ cmdFile = Absent /\ files = {}
  /\ cacheFs = "ok" /\ data = "user"
  /\ pc = "android" /\ reason = "none" /\ args = NoCommand
  /\ status = "success" /\ ret = "none" /\ lines = 0
  /\ owed = NoCommand /\ wiping = FALSE
  /\ requests = 0 /\ crashes = 0 /\ faults = 0

-----------------------------------------------------------------------------
(* Helpers                                                                 *)

volatile == <<reason, args, status, ret, lines>>
history == <<owed, wiping, requests, crashes, faults>>

Goto(from, to) == pc = from /\ pc' = to

Fault == faults < MaxFaults /\ faults' = faults + 1

\* ensure_path_mounted on /cache: it fails if there is no file system, and may
\* fail at any time.
MountCache(mounted) ==
  \/ mounted = (cacheFs = "ok") /\ faults' = faults
  \/ ~mounted /\ Fault

\* The request in hand is dealt with.  (After a fault it may be another one.)
SettleRequest == owed' = IF args = owed THEN NoCommand ELSE owed

\* Mutation: a block of zeroes is never written.
SetBootloaderMessageOnlySets(msg) ==
  faults' = faults /\ bcb' = IF msg = Absent THEN bcb ELSE msg

\* set_bootloader_message: its result is ignored by every caller, so a
\* failed write leaves the old block behind.
SetBootloaderMessage(msg) ==
  \/ bcb' = msg /\ faults' = faults
  \/ Fault /\ bcb' = bcb

\* Mutation: a zeroed block is taken for arguments.
ArgsFromUnchecked(found, file) ==
  IF found # NoCommand THEN found
  ELSE IF file # Absent THEN file ELSE NoCommand

\* The arguments main() finds: the BCB first, then COMMAND_FILE.  found is
\* what get_bootloader_message returned, zeroed if it failed; file what could
\* be read of COMMAND_FILE.
ArgsFrom(found, file) ==
  IF found \notin {Absent, NoCommand} THEN found
  ELSE IF file # Absent THEN file ELSE NoCommand

\* getopt: 'w' sets both flags.
WipesCache(cmd) == cmd.wipe_data \/ cmd.wipe_cache

Erasing == [data |-> "erasing_data", cache |-> "erasing_cache"]

\* Everything in memory is gone.
LoseMemory ==
  /\ args' = NoCommand /\ status' = "success" /\ ret' = "none" /\ lines' = 0

-----------------------------------------------------------------------------
(* The environment: main system, bootloader, power                         *)

\* The main system writes COMMAND_FILE and reboots into recovery.
AndroidRequest(cmd) ==
  /\ Goto("android", "off")
  /\ requests < MaxRequests /\ requests' = requests + 1
  /\ cacheFs = "ok"
  /\ cmdFile' = cmd /\ owed' = cmd /\ wiping' = FALSE
  /\ files' = (files \ {"package", "intent"})
               \cup (IF cmd.pkg = "cache" THEN {"package"} ELSE {})
  /\ reason' = "recovery"
  /\ UNCHANGED <<made, bcb, cacheFs, data, args, status, ret, lines, crashes, faults>>

\* The main system leaves an OpenRecoveryScript and reboots into recovery.
AndroidScript ==
  /\ Goto("android", "off")
  /\ requests < MaxRequests /\ requests' = requests + 1
  /\ cacheFs = "ok"
  /\ files' = files \cup {"script"}
  /\ reason' = "recovery"
  /\ UNCHANGED <<made, bcb, cmdFile, cacheFs, data, args, status, ret, lines,
                 owed, wiping, crashes, faults>>

\* The user powers the phone off, or reboots it without a request.
AndroidOff ==
  /\ Goto("android", "off")
  /\ reason' = "none"
  /\ UNCHANGED <<persistent, args, status, ret, lines, history>>

\* The first boot after an erase sets /data up again.
AndroidSetup ==
  /\ pc = "android" /\ data = "erased" /\ data' = "user"
  /\ UNCHANGED <<made, bcb, cmdFile, files, cacheFs, pc, volatile, history>>

\* The bootloader starts recovery when the BCB or the reboot reason says so,
\* or when the user holds the keys down; else it starts the main system.
BootRecovery ==
  /\ Goto("off", "start")
  /\ reason' = "none"
  /\ UNCHANGED <<persistent, args, status, ret, lines, history>>

BootAndroid ==
  /\ Goto("off", "android")
  /\ bcb = Absent /\ reason = "none"
  /\ UNCHANGED <<persistent, volatile, history>>

PowerLoss ==
  /\ crashes < MaxCrashes /\ crashes' = crashes + 1
  /\ pc' = "off" /\ reason' = "none"
  /\ LoseMemory
  /\ UNCHANGED <<persistent, owed, wiping, requests, faults>>

-----------------------------------------------------------------------------
(* main(): arguments                                                       *)

\* get_args: read the BCB and COMMAND_FILE, then write the arguments back
\* into the BCB, to boot into recovery until it is cleared.
GetArgs ==
  /\ Goto("start", "got_args")
  /\ \/ /\ args' = ArgsFrom(bcb, cmdFile)
        /\ SetBootloaderMessage(args')
     \/ /\ Fault     \* of misc, or /cache cannot be mounted
        /\ \E found \in {bcb, Absent}, file \in {cmdFile, Absent} :
             args' = ArgsFrom(found, file)
        /\ bcb' \in {bcb, args'}
  /\ status' = "success"
  /\ UNCHANGED <<made, cmdFile, files, cacheFs, data, reason, ret, lines, owed,
                 wiping, requests, crashes>>

\* Mutation: COMMAND_FILE is removed with the BCB, before it is carried out.
ClearBootMessageAndFile ==
  /\ Goto("got_args", "dispatch")
  /\ SetBootloaderMessage(Absent)
  /\ cmdFile' = Absent
  /\ UNCHANGED <<made, files, cacheFs, data, volatile, owed, wiping, requests,
                 crashes>>

\* main() zeroes the BCB again, before it has done anything.
ClearBootMessage ==
  /\ Goto("got_args", "dispatch")
  /\ SetBootloaderMessage(Absent)
  /\ UNCHANGED <<made, cmdFile, files, cacheFs, data, volatile, owed, wiping,
                 requests, crashes>>

-----------------------------------------------------------------------------
(* erase_volume                                                            *)

\* Of a volume that is made anew the old contents are gone from here on, or it
\* could not be unmounted or found and nothing is touched.  Of another volume the
\* files are to be removed one by one (format_unknown_device): on /cache some may
\* stay; on /data all do, because the shell takes the bar of
\* "grep -v ^[media|share]$" for a pipe and the list of files is empty.
BeginErase(v, from, to) ==
  /\ pc = from /\ ret' = to
  /\ pc' = Erasing[v]
  /\ \/ UNCHANGED <<data, cmdFile, files, cacheFs>>
     \/ /\ v = "data" /\ v \in made /\ data' = "broken"
        /\ UNCHANGED <<cmdFile, files, cacheFs>>
     \/ /\ v = "cache" /\ v \in made /\ cacheFs' = "broken"
        /\ cmdFile' = Absent /\ files' = {}
        /\ UNCHANGED data
     \/ /\ v = "cache" /\ v \notin made
        /\ cmdFile' \in {cmdFile, Absent} /\ files' \in SUBSET files
        /\ UNCHANGED <<cacheFs, data>>
  /\ UNCHANGED <<made, bcb>>

\* Mutation: the last erase decides.
StatusOfLast(done) ==
  IF ret \in {"wiped_data", "wiped"} THEN IF done THEN "success" ELSE "error"
  ELSE status

\* Only main() looks at the result of erase_volume, and only for its own erases.
StatusAfter(done) ==
  IF ret \in {"wiped_data", "wiped"} /\ ~done THEN "error" ELSE status

\* format_volume returns: the new file system is there, or an error is
\* reported.  format_unknown_device reports success whatever was removed, also if
\* the volume cannot be mounted ("Skipping format..."); only before it comes to
\* that may there be an error.
EndErase ==
  /\ \/ pc = "erasing_data" /\ cacheFs' = cacheFs
        /\ \/ data = "broken" /\ data' = "erased" /\ status' = StatusAfter(TRUE)
           \/ data' = data /\ status' = StatusAfter(FALSE)
           \/ "data" \notin made /\ data' = data /\ status' = StatusAfter(TRUE)
     \/ pc = "erasing_cache" /\ data' = data
        /\ \/ cacheFs = "broken" /\ cacheFs' = "ok" /\ status' = StatusAfter(TRUE)
           \/ cacheFs' = cacheFs /\ status' = StatusAfter(FALSE)
           \/ "cache" \notin made /\ cacheFs' = cacheFs /\ status' = StatusAfter(TRUE)
  /\ pc' = ret /\ ret' = "none"
  /\ UNCHANGED <<made, bcb, cmdFile, files, reason, args, lines, history>>

-----------------------------------------------------------------------------
(* main(): carrying the command out                                        *)

\* An erase of /cache by main(), for the request it has in hand.
BeginWipe(from, to) ==
  /\ BeginErase("cache", from, to)
  /\ wiping' = (wiping \/ args = owed)
  /\ UNCHANGED <<reason, args, status, lines, owed, requests, crashes, faults>>

\* --update_package with a wipe erases /cache first; the result is ignored.
WipeBeforeInstall ==
  /\ args.pkg # "none" /\ WipesCache(args)
  /\ BeginWipe("dispatch", "install")

DispatchInstall ==
  /\ Goto("dispatch", "install")
  /\ args.pkg # "none" /\ ~WipesCache(args)
  /\ UNCHANGED <<persistent, volatile, history>>

\* INTENT_INSTALL: whatever becomes of the package, intent_install reports
\* RET_OK and status stays INSTALL_SUCCESS.  The package's script, or the
\* installer, may ask for /cache to be wiped.
Install ==
  /\ \/ Goto("install", "decide") /\ UNCHANGED <<persistent, ret>>
     \/ BeginErase("cache", "install", "decide")
  /\ SettleRequest
  /\ UNCHANGED <<reason, args, status, lines, wiping, requests, crashes, faults>>

DispatchWipeData ==
  /\ args.pkg = "none" /\ args.wipe_data
  /\ BeginErase("data", "dispatch", "wiped_data")
  /\ UNCHANGED <<reason, args, status, lines, history>>

WipeCacheToo == BeginWipe("wiped_data", "wiped")

DispatchWipeCache ==
  /\ args.pkg = "none" /\ ~args.wipe_data /\ args.wipe_cache
  /\ BeginWipe("dispatch", "wiped")

\* Nothing to do (--send_intent alone is nothing to do): look for an
\* OpenRecoveryScript and copy it to /tmp.
DispatchNone ==
  /\ pc = "dispatch"
  /\ args.pkg = "none" /\ ~WipesCache(args)
  /\ status' = "error"
  /\ \E mounted \in BOOLEAN :
       /\ MountCache(mounted)
       /\ IF mounted /\ "script" \in files
          THEN pc' = "script_found" /\ lines' \in 0..MaxLines
          ELSE pc' = "decide" /\ lines' = lines
  /\ SettleRequest
  /\ UNCHANGED <<persistent, reason, args, ret, wiping, requests, crashes>>

\* check_for_script_file deletes the script once it has tried to copy it.
RemoveScript ==
  /\ Goto("script_found", "script")
  /\ files' = files \ {"script"}
  /\ UNCHANGED <<made, bcb, cmdFile, cacheFs, data, volatile, history>>

\* run_ors_script, one command: it wipes, reboots, or does something that
\* does not matter here.
RunScriptLine ==
  /\ lines > 0 /\ lines' = lines - 1
  /\ \/ \E v \in Volumes : BeginErase(v, "script", "script")
     \/ \E r \in {"reboot", "reboot_recovery"} :
          Goto("script", "finish_bcb") /\ ret' = r /\ UNCHANGED persistent
     \/ pc = "script" /\ UNCHANGED <<pc, ret, persistent>>
  /\ UNCHANGED <<reason, args, status, history>>

\* It stops at a command it does not know, or at the end of the script.
ScriptDone ==
  /\ Goto("script", "decide")
  /\ status' \in {"error"} \cup (IF lines = 0 THEN {"success"} ELSE {})
  /\ lines' = 0
  /\ UNCHANGED <<persistent, reason, args, ret, history>>

-----------------------------------------------------------------------------
(* The menu, finish_recovery and the reboot                                *)

\* main_ui_show never returns: no menu item answers MENU_QUIT.
ShowMenu ==
  /\ pc \in {"wiped", "decide"} /\ status = "error" /\ pc' = "menu"
  /\ SettleRequest
  /\ UNCHANGED <<persistent, volatile, wiping, requests, crashes, faults>>

MenuErase(v) ==
  /\ BeginErase(v, "menu", "menu")
  /\ UNCHANGED <<reason, args, status, lines, history>>

\* finish_recovery(NULL): from the tools of the menu (intent_root,
\* intent_backup_format), which come back, and from intent_reboot.
MenuFinish ==
  /\ Goto("menu", "finish_bcb")
  /\ ret' \in FinishReturns
  /\ UNCHANGED <<persistent, reason, args, status, lines, history>>

BeginFinish ==
  /\ pc \in {"wiped", "decide"} /\ status = "success"
  /\ pc' = IF args.send_intent THEN "finish_intent" ELSE "finish_bcb"
  /\ ret' = "reboot"
  /\ SettleRequest
  /\ UNCHANGED <<persistent, reason, args, status, lines, wiping, requests,
                 crashes, faults>>

WriteIntent ==
  /\ Goto("finish_intent", "finish_bcb")
  /\ \E mounted \in BOOLEAN :
       /\ MountCache(mounted)
       /\ files' = IF mounted THEN files \cup {"intent"} ELSE files
  /\ UNCHANGED <<made, bcb, cmdFile, cacheFs, data, volatile, owed, wiping,
                 requests, crashes>>

FinishBcb ==
  /\ Goto("finish_bcb", "finish_unlink")
  /\ SetBootloaderMessage(Absent)
  /\ UNCHANGED <<made, cmdFile, files, cacheFs, data, volatile, owed, wiping,
                 requests, crashes>>

\* Mutation: COMMAND_FILE is left behind.
FinishKeepsFile ==
  /\ pc = "finish_unlink" /\ pc' = ret /\ ret' = "none"
  /\ UNCHANGED <<persistent, reason, args, status, lines, history>>

FinishUnlink ==
  /\ pc = "finish_unlink" /\ pc' = ret /\ ret' = "none"
  /\ \E mounted \in BOOLEAN :
       /\ MountCache(mounted)
       /\ cmdFile' = IF mounted THEN Absent ELSE cmdFile
  /\ UNCHANGED <<made, bcb, files, cacheFs, data, reason, args, status, lines,
                 owed, wiping, requests, crashes>>

Reboot ==
  /\ pc \in {"reboot", "reboot_recovery"} /\ pc' = "off"
  /\ reason' = IF pc = "reboot" THEN "none" ELSE "recovery"
  /\ LoseMemory
  /\ UNCHANGED <<persistent, history>>

-----------------------------------------------------------------------------

\* What the phone does by itself once it is in recovery.
RecoveryStep ==
  \/ GetArgs \/ ClearBootMessage \/ EndErase
  \/ WipeBeforeInstall \/ DispatchInstall \/ Install
  \/ DispatchWipeData \/ WipeCacheToo \/ DispatchWipeCache
  \/ DispatchNone \/ RemoveScript \/ RunScriptLine \/ ScriptDone
  \/ ShowMenu \/ BeginFinish \/ WriteIntent \/ FinishBcb \/ FinishUnlink
  \/ Reboot

\* What the user and the main system may do.
EnvironmentStep ==
  \/ \E cmd \in Commands : AndroidRequest(cmd)
  \/ AndroidScript \/ AndroidOff \/ AndroidSetup
  \/ \E v \in Volumes : MenuErase(v)
  \/ MenuFinish

Boot == BootRecovery \/ BootAndroid

Next == RecoveryStep \/ EnvironmentStep \/ Boot \/ PowerLoss

Spec == Init /\ [][Next]_vars

\* The program never waits except in the menu, and a phone that is off is
\* turned on again some time; neither the user in the menu nor the main
\* system has to do anything, and nothing forces a power loss.
FairSpec == Spec /\ WF_vars(RecoveryStep) /\ WF_vars(Boot)

-----------------------------------------------------------------------------
(* What makes it correct                                                   *)

\* A request of the main system stays on record, in COMMAND_FILE and with
\* its package, across any number of power losses until main() has carried
\* it out or shown that it could not; or until main() itself begins to erase
\* /cache for it, where COMMAND_FILE is.  A --wipe_data has dealt with /data by
\* then.  (get_args only reads the file; finish_recovery unlinks it, and an
\* erase of /cache removes it.)
OnRecord(cmd) == cmdFile = cmd /\ (cmd.pkg = "cache" => "package" \in files)

CommandKept == faults = 0 /\ owed # NoCommand => OnRecord(owed) \/ wiping

\* main() reboots without showing the menu only if everything --wipe_data
\* or --wipe_cache asked for is really gone: the error of an early erase is
\* not forgotten when a later one succeeds.  So it is for a volume that is made
\* anew, and not for one whose files are to be removed.
Succeeded ==
  /\ pc \in {"finish_intent", "finish_bcb", "finish_unlink", "reboot"}
  /\ status = "success" /\ args.pkg = "none"

SuccessMeansErased ==
  Succeeded =>
    /\ args.wipe_data /\ "data" \in made => data = "erased"
    /\ WipesCache(args) /\ "cache" \in made =>
         cacheFs = "ok" /\ cmdFile = Absent /\ files \subseteq {"intent"}

\* After finish_recovery nothing is left that would start recovery or repeat
\* the command ("so recovery won't repeat indefinitely"), whoever called it
\* and whatever happened before, if the misc partition can be written.
NothingRepeats ==
  faults = 0 /\ pc \in {"reboot", "reboot_recovery"} =>
    bcb = Absent /\ cmdFile = Absent

\* main() erases /data only for the latest request of the main system, and
\* once, as long as no session was cut short.  (After a power loss it may
\* erase again: the BCB is cleared early but COMMAND_FILE stays.)
ErasesOnRequest ==
  crashes = 0 /\ faults = 0 /\ pc = "erasing_data" /\ ret = "wiped_data" =>
    owed.wipe_data

\* Recovery does not cycle: once started it gives control back, to the main
\* system or to the user in the menu, even if it is interrupted or the misc
\* partition fails for a while.
ReturnsControl == (pc = "start") ~> (pc \in {"android", "menu"})

\* What the header of recovery.cpp and the comment of get_args say ("These
\* important scenarios must be safely restartable at any point", "after this,
\* rebooting will restart the erase", "until finish_recovery() is called"):
\* the main system never runs on a half-erased /data that recovery was to erase,
\* nor on a phone that has forgotten a request which was not carried out.
SafelyRestartable ==
  pc = "android" /\ owed # NoCommand => data # "broken" /\ owed = cmdFile

=============================================================================
