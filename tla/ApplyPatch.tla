----------------------------- MODULE ApplyPatch ------------------------------
(***************************************************************************)
(* applypatch.c under the script of an update package: the script checks   *)
(* its files (apply_patch_check), or does not, and patches them one after  *)
(* the other (apply_patch).  A failed apply_patch returns an empty string  *)
(* and the script goes on with the next file, unless the call stands in an *)
(* assert(), which gives the script up.  A script that is given up, or cut *)
(* short by a power loss, is run again from the start.                     *)
(*                                                                         *)
(* A file is patched in place, or its source is another file, which stays  *)
(* (those in Elsewhere); it is a file of a file system or a partition.     *)
(* The new contents of a file are made beside it and renamed over it, but  *)
(* if there is no room the source is saved in /cache/saved.file and        *)
(* unlinked first.  A partition is written over in place, its source being *)
(* saved first too.                                                        *)
(*                                                                         *)
(* A step is one change to persistent storage, or one decision.  Contents  *)
(* are told apart as their hashes tell them apart: the source, the target, *)
(* or neither.  fsync, rename and unlink are durable when they return.     *)
(***************************************************************************)
EXTENDS Naturals

CONSTANTS
  N,          (* the files are 1 to N, in the order of the script           *)
  Partitions, (* those that are partitions, "MTD:..." or "EMMC:..."         *)
  Elsewhere,  (* those with source_filename # target_filename               *)
  Asserted,   (* those whose apply_patch stands in an assert()              *)
  MaxFaults   (* bound: power losses and failed operations                  *)

Files == 1..N

ASSUME FilesAssumption ==
  /\ N \in Nat \ {0}
  /\ Partitions \subseteq Files /\ Elsewhere \subseteq Files
  /\ Asserted \subseteq Files
  /\ MaxFaults \in Nat

VARIABLES
  \* persistent
  at,        (* what target_filename holds                                  *)
  kept,      (* files of Elsewhere whose source_filename is there           *)
  copyOf,    (* whose source CACHE_TEMP_SOURCE holds, 0 if nobody's         *)
  \* the running script
  pc, i,     (* where it is, and with which file                            *)
  use,       (* what is patched: "source" (source_patch_value is set) or    *)
             (* "copy"                                                      *)
  retry,     (* of GenerateTarget                                           *)
  madeCopy,  (* made_copy: the file it was made for, or 0                   *)
  result,    (* of the last run                                             *)
  \* history and bounds
  clobbered, (* partitions whose copy was overwritten when it was needed    *)
  skipped,   (* files that failed in a script that went on                  *)
  faults

vars == <<at, kept, copyOf, pc, i, use, retry, madeCopy, result, clobbered,
          skipped, faults>>
disk == <<at, kept, copyOf>>
run == <<i, use, retry, madeCopy>>

Working == {"load", "space", "truncate", "save", "unlink", "patch", "install",
            "writing", "cleanup"}

TypeOK ==
  /\ at \in [Files -> {"source", "target", "missing", "torn"}]
  /\ kept \subseteq Elsewhere
  /\ copyOf \in 0..N
  /\ pc \in {"off", "check"} \cup Working
  /\ i \in Files
  /\ use \in {"source", "copy"}
  /\ retry \in 0..1
  /\ madeCopy \in 0..N
  /\ result \in {"none", "ok", "failed"}
  /\ clobbered \subseteq Partitions \ Elsewhere
  /\ skipped \subseteq Files \ Asserted
  /\ faults \in 0..MaxFaults

Init ==
  /\ at = [f \in Files |-> IF f \in Elsewhere THEN "missing" ELSE "source"]
  /\ kept = Elsewhere /\ copyOf = 0
  /\ pc = "off" /\ i = 1 /\ use = "source" /\ retry = 1 /\ madeCopy = 0
  /\ result = "none" /\ clobbered = {} /\ skipped = {} /\ faults = 0

-----------------------------------------------------------------------------

SourceThere(f) == IF f \in Elsewhere THEN f \in kept ELSE at[f] = "source"

\* Can the target of f still be had?
Recoverable(f) == at[f] = "target" \/ SourceThere(f) \/ copyOf = f

\* The script went on although this file, or one before it, had failed.
Excused(f) == \E g \in skipped : g <= f

Goto(from, to) == pc = from /\ pc' = to

GiveUp == pc' = "off" /\ result' = "failed" /\ UNCHANGED <<run, skipped>>

\* Mutation: the end of the script is not seen.
ContinueAlways(label, f) ==
  /\ pc' = label /\ i' = f /\ result' = result
  /\ use' = "source" /\ retry' = 1 /\ madeCopy' = 0

\* On to file f, with GenerateTarget's variables as it initialises them; the
\* script succeeds after the last one.
Continue(label, f) ==
  /\ IF f \in Files
     THEN pc' = label /\ i' = f /\ result' = result
     ELSE pc' = "off" /\ i' = 1 /\ result' = "ok"
  /\ use' = "source" /\ retry' = 1 /\ madeCopy' = 0

\* apply_patch returns "": assert() aborts, a sequence takes no notice.
Failed ==
  IF i \in Asserted THEN GiveUp
  ELSE Continue("load", i + 1) /\ skipped' = skipped \cup {i}

-----------------------------------------------------------------------------
(* The script                                                              *)

StartRun ==
  /\ pc = "off" /\ result # "ok"
  /\ \E label \in {"check", "load"} : Continue(label, 1)
  /\ UNCHANGED <<disk, clobbered, skipped, faults>>

\* applypatch_check of a file patched in place, in an assert() or not.  The name
\* of a partition says which hashes it may have, and no others are given: the
\* copy never matches.
Checks(f) ==
  \/ f \in Elsewhere
  \/ at[f] \in {"source", "target"}
  \/ copyOf = f /\ f \notin Partitions

Check ==
  /\ pc = "check"
  /\ \/ Continue(IF i = N THEN "load" ELSE "check", IF i = N THEN 1 ELSE i + 1)
        /\ skipped' = skipped
     \/ ~Checks(i) /\ GiveUp
  /\ UNCHANGED <<disk, clobbered, faults>>

Fault == faults < MaxFaults /\ faults' = faults + 1

\* Mutation: a failing call removes the temporary copy, too.
FailRemovesCopy ==
  /\ pc \in Working \ {"cleanup"} /\ Fault
  /\ Failed
  /\ copyOf' = 0
  /\ UNCHANGED <<at, kept, clobbered>>

\* Any operation may fail: no room on /cache, a short write, a rename.
Fail ==
  /\ pc \in Working \ {"cleanup"} /\ Fault
  /\ Failed
  /\ UNCHANGED <<disk, clobbered>>

PowerLoss ==
  /\ pc # "off" /\ Fault
  /\ pc' = "off" /\ result' = "none"
  /\ i' = 1 /\ use' = "source" /\ retry' = 1 /\ madeCopy' = 0
  /\ UNCHANGED <<disk, clobbered, skipped>>

-----------------------------------------------------------------------------
(* applypatch                                                              *)

\* Mutation: without it, the target is a source that matches no patch.
AlreadyTargetFails ==
  /\ pc = "load" /\ at[i] = "target"
  /\ Failed
  /\ UNCHANGED <<disk, clobbered, faults>>

\* The early exit: the patch was already applied.
AlreadyTarget ==
  /\ pc = "load" /\ at[i] = "target"
  /\ Continue("load", i + 1)
  /\ UNCHANGED <<disk, clobbered, skipped, faults>>

\* Mutation: a file without a matching patch is passed over.
LoadOrSkip ==
  /\ pc = "load" /\ at[i] # "target"
  /\ IF SourceThere(i) \/ copyOf = i
     THEN /\ pc' = "space" /\ use' = IF SourceThere(i) THEN "source" ELSE "copy"
          /\ UNCHANGED <<i, retry, madeCopy, result, skipped>>
     ELSE Continue("load", i + 1) /\ skipped' = skipped
  /\ UNCHANGED <<disk, clobbered, faults>>

\* Otherwise the source, or else the copy.
Load ==
  /\ pc = "load" /\ at[i] # "target"
  /\ IF SourceThere(i) \/ copyOf = i
     THEN /\ pc' = "space" /\ use' = IF SourceThere(i) THEN "source" ELSE "copy"
          /\ UNCHANGED <<i, retry, madeCopy, result, skipped>>
     ELSE Failed
  /\ UNCHANGED <<disk, clobbered, faults>>

-----------------------------------------------------------------------------
(* GenerateTarget                                                          *)

\* A partition: save the source, whether that is what will be patched or not.
SpacePartition ==
  /\ i \in Partitions /\ Goto("space", "truncate")
  /\ UNCHANGED <<disk, run, result, clobbered, skipped, faults>>

SpaceEnough ==
  /\ i \notin Partitions /\ retry = 1 /\ Goto("space", "patch")
  /\ UNCHANGED <<disk, run, result, clobbered, skipped, faults>>

\* Mutation: the source is unlinked, but not saved.
SpaceShortUnsaved ==
  /\ i \notin Partitions
  /\ Goto("space", IF use = "source" THEN "unlink" ELSE "patch")
  /\ retry' = 0
  /\ UNCHANGED <<disk, i, use, madeCopy, result, clobbered, skipped, faults>>

\* Short of space, or the first try failed.
SpaceShort ==
  /\ i \notin Partitions
  /\ Goto("space", IF use = "source" THEN "truncate" ELSE "patch")
  /\ retry' = 0
  /\ UNCHANGED <<disk, i, use, madeCopy, result, clobbered, skipped, faults>>

\* SaveFileContents opens CACHE_TEMP_SOURCE with O_TRUNC.  If the source could
\* not be loaded, its data is NULL and the write fails.
Truncate ==
  /\ pc = "truncate"
  /\ copyOf' = 0
  /\ IF use = "source"
     THEN pc' = "save" /\ UNCHANGED <<run, result, clobbered, skipped>>
     ELSE Failed /\ clobbered' = clobbered \cup {i}
  /\ UNCHANGED <<at, kept, faults>>

SaveCopy ==
  /\ Goto("save", IF i \in Partitions THEN "patch" ELSE "unlink")
  /\ copyOf' = i /\ madeCopy' = i
  /\ retry' = 0
  /\ UNCHANGED <<at, kept, i, use, result, clobbered, skipped, faults>>

\* unlink(source_filename)
Unlink ==
  /\ Goto("unlink", "patch")
  /\ IF i \in Elsewhere THEN kept' = kept \ {i} /\ at' = at
     ELSE kept' = kept /\ at' = [at EXCEPT ![i] = "missing"]
  /\ UNCHANGED <<copyOf, run, result, clobbered, skipped, faults>>

\* The patch is applied, to memory or to the .patch file, and the hash is right.
PatchApplied ==
  /\ Goto("patch", "install")
  /\ UNCHANGED <<disk, run, result, clobbered, skipped, faults>>

\* It does not fit; after the first try there is another one.
PatchRetried ==
  /\ Goto("patch", "space") /\ retry = 1 /\ retry' = 0
  /\ UNCHANGED <<disk, i, use, madeCopy, result, clobbered, skipped, faults>>

\* rename of the .patch file
Rename ==
  /\ i \notin Partitions /\ Goto("install", "cleanup")
  /\ at' = [at EXCEPT ![i] = "target"]
  /\ UNCHANGED <<kept, copyOf, run, result, clobbered, skipped, faults>>

\* WriteToPartition, from its first write to its last.
BeginWrite ==
  /\ i \in Partitions /\ Goto("install", "writing")
  /\ at' = [at EXCEPT ![i] = "torn"]
  /\ UNCHANGED <<kept, copyOf, run, result, clobbered, skipped, faults>>

EndWrite ==
  /\ Goto("writing", "cleanup")
  /\ at' = [at EXCEPT ![i] = "target"]
  /\ UNCHANGED <<kept, copyOf, run, result, clobbered, skipped, faults>>

\* The copy goes if this very call made it.
Cleanup ==
  /\ pc = "cleanup"
  /\ copyOf' = IF madeCopy # 0 THEN 0 ELSE copyOf
  /\ Continue("load", i + 1)
  /\ UNCHANGED <<at, kept, clobbered, skipped, faults>>

-----------------------------------------------------------------------------

Step ==
  \/ StartRun \/ Check \/ AlreadyTarget \/ Load
  \/ SpacePartition \/ SpaceEnough \/ SpaceShort
  \/ Truncate \/ SaveCopy \/ Unlink
  \/ PatchApplied \/ PatchRetried
  \/ Rename \/ BeginWrite \/ EndWrite \/ Cleanup

Next == Step \/ Fail \/ PowerLoss

Spec == Init /\ [][Next]_vars

\* The program runs on, and the user has the update run again until it is
\* through.
FairSpec == Spec /\ WF_vars(Step)

-----------------------------------------------------------------------------

\* Wherever the update is interrupted, and however often, every file either is
\* the target or can still be made into it: its source is in place or whole in
\* CACHE_TEMP_SOURCE, although that file holds one source at a time ("If the
\* source file is missing or corrupted, it might be because we were killed in
\* the middle of patching it.  A copy of it should have been made").  Except
\* for the partitions whose copy GenerateTarget itself has overwritten, and if
\* the script goes on behind a file that has failed: the save of a later file
\* overwrites the copy.
SourceSurvives == \A f \in Files \ clobbered : Recoverable(f) \/ Excused(f)

\* The same without the exceptions: "We still write the original source to
\* cache, in case the partition write is interrupted."
NeverLost == \A f \in Files : Recoverable(f)

\* A script that succeeds has made every file the target, whatever earlier runs
\* had done, and they stay it; but for those it passed over, none of which
\* stood in an assert().
SuccessMeansTarget ==
  result = "ok" => \A f \in Files : at[f] = "target" \/ f \in skipped

\* Running the update again gets it done in the end, however it was interrupted
\* ("idempotent"), up to the first file that was passed over, unless a
\* partition was half written.
Completes ==
  <>((\A f \in Files : at[f] = "target" \/ Excused(f)) \/
     (\E f \in Partitions \ Elsewhere : at[f] = "torn"))

\* What is promised of every file, interrupted runs or not.
Promise == INSTANCE AtomicPatch WITH
  Losable <- Partitions \ Elsewhere, Passable <- Files \ Asserted,
  contents <- [f \in Files |-> IF at[f] = "target" THEN "target"
                               ELSE IF Recoverable(f) THEN "source" ELSE "lost"]
Atomic == Promise!Spec

=============================================================================
