---------------------------- MODULE RecoveryLogs ----------------------------
(***************************************************************************)
(* The log files of recovery.cpp.  Each run of recovery (a session) writes *)
(* its log to /tmp, rotates the logs of earlier sessions when it starts    *)
(* (rotate_last_logs), and copies its own to /cache whenever               *)
(* finish_recovery is called: appended to LOG_FILE from where the last     *)
(* copy stopped (tmplog_offset), and as a whole to LAST_LOG_FILE.  /cache  *)
(* may be wiped or run full in between, and power lost at any point; and   *)
(* recovery starts other processes of its own binary, each of which begins *)
(* main() as recovery itself did: with a new temporary log.                *)
(***************************************************************************)
EXTENDS Naturals

CONSTANTS
  None,        (* an empty slot                                             *)
  MaxLog,      (* rotate_last_logs(max): last_log.1 to last_log.max         *)
  MaxSessions, (* bound: sessions of a behaviour                            *)
  MaxLogLines  (* bound: lines a session logs                               *)

ASSUME LogAssumption ==
  /\ MaxLog \in Nat \ {0}
  /\ MaxSessions \in Nat /\ MaxLogLines \in Nat
  /\ None \notin Nat

VARIABLES
  session,   (* number of the running session, or of the last one           *)
  phase,     (* where the session is                                        *)
  i,         (* the loop variable of rotate_last_logs                       *)
  written,   (* lines of the temporary log                                  *)
  offset,    (* tmplog_offset, counted in lines                             *)
  logged,    (* which lines of this session LOG_FILE has                    *)
  slots,     (* last_log, last_log.1, ...: which session's log each one is  *)
  mishaps    (* what else happened to the logs in this session              *)

logVars == <<session, phase, i, written, offset, logged, slots, mishaps>>

Slots == 0..MaxLog

\* /cache was formatted without erase_volume, or a write to LOG_FILE failed, since
\* the offset was last reset; another process has unlinked the temporary log, and
\* recovery goes on writing to the file that has lost its name; /cache could not
\* be mounted when the logs were to be rotated.
Mishaps == {"formatted", "short", "unlinked", "unmounted"}

LogTypeOK ==
  /\ session \in 0..MaxSessions
  /\ phase \in {"off", "rotating", "running", "append", "copy", "copy_only"}
  /\ i \in 0..(MaxLog - 1)
  /\ written \in 0..MaxLogLines
  /\ offset \in 0..MaxLogLines
  /\ logged \subseteq 1..written
  /\ slots \in [Slots -> 0..MaxSessions \cup {None}]
  /\ mishaps \subseteq Mishaps

LogInit ==
  /\ session = 0 /\ phase = "off" /\ i = MaxLog - 1
  /\ written = 0 /\ offset = 0 /\ logged = {}
  /\ slots = [s \in Slots |-> None]
  /\ mishaps = {}

-----------------------------------------------------------------------------

\* main() unlinks the temporary log and starts with tmplog_offset = 0.
StartSession ==
  /\ phase = "off" /\ phase' = "rotating"
  /\ session < MaxSessions /\ session' = session + 1
  /\ i' = MaxLog - 1
  /\ written' = 0 /\ offset' = 0 /\ logged' = {}
  /\ mishaps' = {}
  /\ UNCHANGED slots

\* Mutation: the old name stays.
RenamedCopies(from, to) ==
  IF slots[from] = None THEN slots ELSE [slots EXCEPT ![to] = slots[from]]

\* A rename of a file that is not there fails and changes nothing.
Renamed(from, to) ==
  IF slots[from] = None THEN slots
  ELSE [slots EXCEPT ![to] = slots[from], ![from] = None]

\* Mutation: last_log itself is forgotten.
LoopEndsAtOne == i <= 1

LoopEnds == i = 0

\* One turn of the loop of rotate_last_logs.
RotateOne ==
  /\ phase = "rotating"
  /\ slots' = Renamed(i, i + 1)
  /\ IF LoopEnds THEN phase' = "running" /\ i' = i
              ELSE phase' = phase /\ i' = i - 1
  /\ UNCHANGED <<session, written, offset, logged, mishaps>>

\* /cache cannot be mounted: every rename fails ("ignore errors").
RotateNothing ==
  /\ phase = "rotating" /\ i = MaxLog - 1
  /\ phase' = "running"
  /\ mishaps' = mishaps \cup {"unmounted"}
  /\ UNCHANGED <<session, i, written, offset, logged, slots>>

\* main() of another process: "recovery --adbd" for a sideload, or dedupe,
\* mkyaffs2image, unyaffs and the other links to the binary.
OtherProcess ==
  /\ phase = "running"
  /\ mishaps' = mishaps \cup {"unlinked"}
  /\ UNCHANGED <<session, phase, i, written, offset, logged, slots>>

\* Anything the session does logs something.
WriteLine ==
  /\ phase = "running" /\ written < MaxLogLines
  /\ written' = written + 1
  /\ UNCHANGED <<session, phase, i, offset, logged, slots, mishaps>>

\* Everything on /cache is gone.
CacheIsEmpty == logged' = {} /\ slots' = [s \in Slots |-> None]

\* Mutation: the offset is kept.
EraseVolumeKeepsOffset ==
  /\ phase = "running"
  /\ CacheIsEmpty \/ UNCHANGED <<logged, slots>>
  /\ mishaps' = mishaps \ {"formatted", "short"}
  /\ UNCHANGED <<session, phase, i, written, offset>>

\* erase_volume("/cache") resets the offset, and format_volume may then fail
\* before it has destroyed anything.
EraseVolume ==
  /\ phase = "running"
  /\ offset' = 0 /\ mishaps' = mishaps \ {"formatted", "short"}
  /\ CacheIsEmpty \/ UNCHANGED <<logged, slots>>
  /\ UNCHANGED <<session, phase, i, written>>

\* INTENT_FORMAT, and nandroid's restore of /cache, call format_volume.
FormatVolume ==
  /\ phase = "running"
  /\ CacheIsEmpty
  /\ mishaps' = mishaps \cup {"formatted"}
  /\ UNCHANGED <<session, phase, i, written, offset>>

\* finish_recovery starts with copy_log_file(TEMPORARY_LOG_FILE, LOG_FILE, true).
BeginCopies ==
  /\ phase = "running" /\ phase' = "append"
  /\ UNCHANGED <<session, i, written, offset, logged, slots, mishaps>>

\* What fputs gets to LOG_FILE: all that is new, or not all, which nobody notices.
Writes ==
  LET new == (offset + 1)..written IN
  \E got \in SUBSET new :
    /\ logged' = logged \cup got
    /\ mishaps' = IF got = new THEN mishaps ELSE mishaps \cup {"short"}

\* Mutation: the offset is one line past the end.
AppendLogPastEnd ==
  /\ phase = "append" /\ phase' = "copy"
  /\ IF "unlinked" \notin mishaps
     THEN Writes /\ offset' = written + 1
     ELSE offset' \in offset..MaxLogLines /\ UNCHANGED <<logged, mishaps>>
  /\ UNCHANGED <<session, i, written, slots>>

\* copy_log_file, appending: seek to the offset, copy what follows, remember
\* where it stopped.  A temporary log of another process has none of the lines
\* of this one, and may end before the offset or behind it.
AppendLog ==
  /\ phase = "append" /\ phase' = "copy"
  /\ IF "unlinked" \notin mishaps
     THEN Writes /\ offset' = written
     ELSE offset' \in offset..MaxLogLines /\ UNCHANGED <<logged, mishaps>>
  /\ UNCHANGED <<session, i, written, slots>>

\* /cache cannot be mounted: copy_log_file copies nothing.  Each copy of
\* finish_recovery mounts it anew, so a later one may succeed.
AppendFails ==
  /\ phase = "append" /\ phase' = "copy_only"
  /\ UNCHANGED <<session, i, written, offset, logged, slots, mishaps>>

\* copy_log_file, not appending: LAST_LOG_FILE becomes this session's log, or
\* what another process of this session has left in its place.
CopyLastLog ==
  /\ phase \in {"copy", "copy_only"} /\ phase' = "running"
  /\ slots' \in {slots, [slots EXCEPT ![0] = session]}
  /\ UNCHANGED <<session, i, written, offset, logged, mishaps>>

\* The reboot at the end, or a power loss at any point.  An append that is
\* cut short has written some of its lines.
EndSession ==
  /\ phase # "off" /\ phase' = "off"
  /\ logged' \in IF phase = "append" /\ "unlinked" \notin mishaps
                  THEN {logged \cup (offset + 1)..n : n \in offset..written}
                  ELSE {logged}
  /\ UNCHANGED <<session, i, written, offset, slots, mishaps>>

LogNext ==
  \/ StartSession \/ RotateOne \/ RotateNothing \/ WriteLine
  \/ OtherProcess
  \/ EraseVolume \/ FormatVolume
  \/ BeginCopies \/ AppendLog \/ AppendFails \/ CopyLastLog
  \/ EndSession

LogSpec == LogInit /\ [][LogNext]_logVars

-----------------------------------------------------------------------------

\* The kept logs are ordered, newest first, and no session has two, even in
\* the middle of a rotation that is cut short and started again ("Rename
\* last_log -> last_log.1 -> last_log.2 -> ... -> last_log.$max").
NewestFirst ==
  \A s, t \in Slots :
    s < t /\ slots[s] # None /\ slots[t] # None => slots[s] > slots[t]

\* A log that is still kept disappears in one way only, if /cache is neither
\* wiped nor unmountable when recovery starts: it is the oldest one, and every
\* slot was taken when this rotation began to use up the last one ("Overwrite
\* any existing last_log.$max").
Kept == {slots[s] : s \in Slots} \ {None}
DropsOnlyOldest ==
  [][slots' # [s \in Slots |-> None] /\ "unmounted" \notin mishaps =>
       \A old \in Kept \ {slots'[s] : s \in Slots} :
         /\ slots[MaxLog] = old
         /\ phase = "rotating" /\ i = MaxLog - 1 /\ slots[i] # None]_logVars

\* Once finish_recovery has appended the log, LOG_FILE has every line of the
\* session, whatever was copied or erased before ("Any part of the log we'd
\* copied to cache is now gone.  Reset the pointer ..."): an erase makes good
\* what an earlier format or a failed write had cost.  It takes that the temporary
\* log still is the one recovery writes.
Gaps == {"formatted", "short", "unlinked"}
LogComplete ==
  phase = "copy" /\ mishaps \cap Gaps = {} => logged = 1..written

=============================================================================
