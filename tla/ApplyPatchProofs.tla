-------------------------- MODULE ApplyPatchProofs ---------------------------
(***************************************************************************)
(* Proofs about ApplyPatch, for any number of files of any kind, any       *)
(* choice of assert()s and any number of interruptions.                    *)
(*                                                                         *)
(* The inductive invariant says why one CACHE_TEMP_SOURCE is enough: only  *)
(* one file at a time is without its source (Only), it is the first that   *)
(* is not the target yet, and so the next run does not touch the copy      *)
(* before it has come to that file again (Prefix, Others).  All of this is *)
(* so up to the first file that the script has passed over.                *)
(***************************************************************************)
EXTENDS ApplyPatch, TLAPS

Busy == Working \ {"load"}

Done(g) == at[g] = "target" \/ g \in skipped

\* The files before the current one are done, or were passed over.
Prefix == pc \in Working => \A g \in 1..(i - 1) : Done(g)

\* A file without its source is the first that is not done, and it is the one
\* the copy was made of.
Only ==
  \A f \in Files : at[f] # "target" /\ ~SourceThere(f) =>
    /\ \A g \in 1..(f - 1) : Done(g)
    /\ copyOf = f \/ f \in clobbered \/ Excused(f)

\* While a file is patched all others have their source, or do not need it.
Others ==
  pc \in Busy => \A f \in Files : f # i =>
    at[f] = "target" \/ SourceThere(f) \/ Excused(f)

\* What is known of the current file, and of its source, at each step.
Stages ==
  /\ pc \in {"space", "truncate", "save"} /\ use = "source" => SourceThere(i)
  /\ pc \in {"space", "truncate", "patch"} /\ use = "copy" =>
       copyOf = i /\ ~SourceThere(i)
  /\ pc = "truncate" /\ use = "copy" => i \in Partitions
  /\ pc = "save" => use = "source"
  /\ pc = "unlink" => i \notin Partitions /\ copyOf = i /\ use = "source" /\ retry = 0
  /\ pc = "patch" /\ retry = 1 => i \notin Partitions /\ (use = "source" => SourceThere(i))
  /\ pc \in {"patch", "install"} => SourceThere(i) \/ copyOf = i
  /\ pc \in {"patch", "install"} /\ i \in Partitions => copyOf = i
  /\ pc = "writing" => i \in Partitions /\ copyOf = i
  /\ pc \in Busy \ {"cleanup"} => at[i] # "target"
  /\ pc = "cleanup" => at[i] = "target"

\* The source of a partition is never unlinked.
PartitionsKept == Partitions \cap Elsewhere \subseteq kept

Result == result = "ok" => pc = "off" /\ \A f \in Files : Done(f)

IInv == TypeOK /\ Prefix /\ Only /\ Others /\ Stages /\ PartitionsKept /\ Result

USE DEF Files, Working, Busy

-----------------------------------------------------------------------------

LEMMA InvInit == Init => IInv
<1> SUFFICES ASSUME Init PROVE IInv
    OBVIOUS
<1>1. \A f \in Files : SourceThere(f)
    BY FilesAssumption DEF Init, SourceThere
<1>2. TypeOK
    BY FilesAssumption DEF Init, TypeOK
<1> QED BY <1>1, <1>2, FilesAssumption
    DEF Init, IInv, Prefix, Only, Others, Stages, PartitionsKept, Result

\* A failed call leaves the file's source, in place or as the copy, to the next
\* run; or the copy was overwritten.
LEMMA Fails ==
  ASSUME IInv, pc \in Working \ {"cleanup"}, Failed, UNCHANGED <<at, kept>>,
         faults' \in 0..MaxFaults,
         \/ UNCHANGED <<copyOf, clobbered>>
         \/ /\ copyOf' = 0 /\ clobbered' = clobbered \cup {i} /\ i \in Partitions \ Elsewhere
            /\ pc = "truncate" /\ use = "copy"
  PROVE  IInv'
<1> USE FilesAssumption DEF IInv
<1>1. skipped \subseteq skipped' /\ (i \notin Asserted => i \in skipped')
      /\ skipped' \subseteq Files \ Asserted
  BY DEF Failed, GiveUp, TypeOK
<1>2. \A f \in Files : /\ Excused(f) => Excused(f)'
                       /\ Done(f) => Done(f)'
                       /\ SourceThere(f)' = SourceThere(f)
  BY <1>1 DEF Excused, Done, SourceThere
<1>3. /\ i \in Files
      /\ \/ pc' = "off" /\ result' = "failed" /\ UNCHANGED run
         \/ /\ i \notin Asserted
            /\ \/ i + 1 \in Files /\ pc' = "load" /\ i' = i + 1 /\ result' = result
               \/ i + 1 \notin Files /\ pc' = "off" /\ i' = 1 /\ result' = "ok"
            /\ use' = "source" /\ retry' = 1 /\ madeCopy' = 0
  BY DEF Failed, GiveUp, Continue, TypeOK
<1>4. TypeOK'
  <2>0. TypeOK
    OBVIOUS
  <2>1. /\ clobbered' \subseteq Partitions \ Elsewhere /\ copyOf' \in 0..N
        /\ at' \in [Files -> {"source", "target", "missing", "torn"}]
        /\ kept' \subseteq Elsewhere
    <3>1. at' = at /\ kept' = kept
      OBVIOUS
    <3>2. \/ copyOf' = copyOf /\ clobbered' = clobbered
          \/ copyOf' = 0 /\ clobbered' = clobbered \cup {i} /\ i \in Partitions \ Elsewhere
      OBVIOUS
    <3>3. clobbered' \subseteq Partitions \ Elsewhere
      BY ONLY <2>0, <3>2 DEF TypeOK
    <3>4. copyOf' \in 0..N
      BY ONLY <2>0, <3>2, FilesAssumption DEF TypeOK
    <3> QED
      BY ONLY <2>0, <3>1, <3>3, <3>4 DEF TypeOK
  <2>2. /\ pc' \in {"off", "check"} \cup Working /\ i' \in Files
        /\ use' \in {"source", "copy"} /\ retry' \in 0..1 /\ madeCopy' \in 0..N
        /\ result' \in {"none", "ok", "failed"}
    BY <1>3 DEF TypeOK, run
  <2> QED
    BY ONLY <1>1, <2>1, <2>2, faults' \in 0..MaxFaults DEF TypeOK
<1>5. \A f \in Files : at[f] # "target" /\ ~SourceThere(f) =>
        /\ \A g \in 1..(f - 1) : Done(g)'
        /\ copyOf = f \/ f \in clobbered \/ Excused(f)
  BY <1>2 DEF Only
<1>6. Only'
  <2>1. \A f \in Files : copyOf = f => copyOf' = f \/ f \in clobbered'
    BY DEF Stages
  <2> QED
    BY <1>2, <1>5, <2>1 DEF Only
<1>7. Prefix'
  <2>1. CASE pc' = "load"
    <3>1. i' = i + 1 /\ i \in skipped'
      BY <1>1, <1>3, <2>1
    <3>2. \A g \in 1..(i - 1) : Done(g)'
      BY <1>2, <1>3 DEF Prefix
    <3> QED
      BY <1>3, <3>1, <3>2 DEF Prefix, Done
  <2>2. CASE pc' = "off"
    BY <2>2 DEF Prefix
  <2> QED
    BY <1>3, <2>1, <2>2
<1>8. Others' /\ Stages'
  BY <1>3 DEF Others, Stages
<1>9. Result'
  <2>1. CASE result' = "ok"
    <3>1. pc' = "off" /\ i + 1 \notin Files /\ i \notin Asserted
      BY <1>3, <2>1 DEF Result
    <3>2. i = N /\ \A g \in 1..(N - 1) : Done(g)'
      BY <1>2, <1>3, <3>1 DEF Prefix
    <3> QED
      BY <1>1, <3>1, <3>2 DEF Result, Done
  <2> QED
    BY <2>1 DEF Result
<1>10. PartitionsKept'
  BY DEF PartitionsKept
<1> QED
  BY <1>4, <1>6, <1>7, <1>8, <1>9, <1>10

LEMMA InvStep == IInv /\ [Next]_vars => IInv'
<1> SUFFICES ASSUME IInv, [Next]_vars PROVE IInv'
    OBVIOUS
<1> USE FilesAssumption DEF IInv, TypeOK, Prefix, Only, Others, Stages, PartitionsKept, Result, SourceThere, Done, Excused
<1>1. CASE StartRun
    BY <1>1 DEF StartRun, Continue, disk
<1>2. CASE Check
  <2>1. /\ UNCHANGED <<at, kept, copyOf, clobbered, skipped, faults>>
        /\ \/ pc' = "off" /\ result' = "failed" /\ UNCHANGED run
           \/ /\ pc' \in {"check", "load"} /\ i' \in Files /\ (pc' = "load" => i' = 1)
              /\ result' = result /\ use' = "source" /\ retry' = 1 /\ madeCopy' = 0
    BY <1>2 DEF Check, Continue, GiveUp, disk
  <2> QED
    BY <1>2, <2>1 DEF Check, run
<1>3. CASE AlreadyTarget
    BY <1>3 DEF AlreadyTarget, Continue, disk
<1>4. CASE Load
  <2>1. CASE SourceThere(i) \/ copyOf = i
    <3>1. /\ pc = "load" /\ pc' = "space" /\ at[i] # "target"
          /\ use' = IF SourceThere(i) THEN "source" ELSE "copy"
          /\ UNCHANGED <<at, kept, copyOf, i, retry, madeCopy, result, clobbered,
                        skipped, faults>>
      BY <1>4, <2>1 DEF Load, disk
    <3>2. Others'
      BY <2>1, <3>1
    <3>3. Stages'
      BY <2>1, <3>1
    <3>4. TypeOK' /\ Prefix' /\ Only' /\ PartitionsKept' /\ Result'
      BY <3>1
    <3> QED
      BY <3>2, <3>3, <3>4
  <2>2. CASE ~(SourceThere(i) \/ copyOf = i)
    <3> HIDE DEF IInv, TypeOK, SourceThere
    <3>1. pc = "load" /\ Failed /\ UNCHANGED <<at, kept, copyOf, clobbered, faults>>
      BY <1>4, <2>2 DEF Load, disk
    <3>2. faults' \in 0..MaxFaults
      BY <3>1 DEF IInv, TypeOK
    <3> QED
      BY <3>1, <3>2, Fails
  <2> QED
    BY <2>1, <2>2
<1>5. CASE SpacePartition
    BY <1>5 DEF SpacePartition, Goto, disk, run
<1>6. CASE SpaceEnough
    BY <1>6 DEF SpaceEnough, Goto, disk, run
<1>7. CASE SpaceShort
    BY <1>7 DEF SpaceShort, Goto, disk
<1>8. CASE Truncate
  <2>1. CASE use = "source"
    <3>1. /\ pc = "truncate" /\ pc' = "save" /\ copyOf' = 0
          /\ UNCHANGED <<at, kept, i, use, retry, madeCopy, result, clobbered, skipped, faults>>
        BY <1>8, <2>1 DEF Truncate, run
    <3>2. \A f \in Files : at[f] = "target" \/ SourceThere(f) \/ Excused(f)
        BY <2>1, <3>1
    <3>3. TypeOK' /\ Prefix' /\ Others' /\ Stages' /\ PartitionsKept' /\ Result'
        BY <2>1, <3>1
    <3>4. Only'
        BY <3>1, <3>2
    <3> QED BY <3>3, <3>4
  <2>2. CASE use = "copy"
    <3>1. i \in Partitions \ Elsewhere
        BY <1>8, <2>2 DEF Truncate
    <3> HIDE DEF IInv, TypeOK
    <3>2. /\ pc = "truncate" /\ Failed /\ clobbered' = clobbered \cup {i}
          /\ copyOf' = 0 /\ UNCHANGED <<at, kept, faults>>
        BY <1>8, <2>2 DEF Truncate
    <3>3. faults' \in 0..MaxFaults
        BY <3>2 DEF IInv, TypeOK
    <3> QED BY <2>2, <3>1, <3>2, <3>3, Fails
  <2> QED BY <2>1, <2>2
<1>9. CASE SaveCopy
    BY <1>9 DEF SaveCopy, Goto
<1>10. CASE Unlink
  <2>1. /\ pc = "unlink" /\ pc' = "patch" /\ copyOf = i
        /\ UNCHANGED <<copyOf, i, use, retry, madeCopy, result, clobbered, skipped, faults>>
    BY <1>10 DEF Unlink, Goto, run
  <2>2. TypeOK'
    BY <1>10, <2>1 DEF Unlink
  <2>3. \A f \in Files \ {i} : at'[f] = at[f] /\ SourceThere(f)' = SourceThere(f)
    BY <1>10, <2>1 DEF Unlink
  <2>4. at'[i] # "target"
    BY <1>10, <2>1 DEF Unlink
  <2>5. PartitionsKept'
    BY <1>10, <2>1 DEF Unlink
  <2>6. Only'
    BY <2>1, <2>3, <2>4
  <2>7. Prefix' /\ Others'
    BY <2>1, <2>3, <2>4
  <2>8. Stages' /\ Result'
    BY <2>1, <2>3, <2>4
  <2> QED BY <2>2, <2>5, <2>6, <2>7, <2>8
<1>11. CASE PatchApplied
    BY <1>11 DEF PatchApplied, Goto, disk, run
<1>12. CASE PatchRetried
    BY <1>12 DEF PatchRetried, Goto, disk
<1>13. CASE Rename
    BY <1>13 DEF Rename, Goto, run
<1>14. CASE BeginWrite
    BY <1>14 DEF BeginWrite, Goto, run
<1>15. CASE EndWrite
    BY <1>15 DEF EndWrite, Goto, run
<1>16. CASE Cleanup
    BY <1>16 DEF Cleanup, Continue
<1>17. CASE Fail
  <2> HIDE DEF IInv, TypeOK
  <2>1. /\ pc \in Working \ {"cleanup"} /\ Failed
        /\ UNCHANGED <<at, kept, copyOf, clobbered>>
        /\ faults < MaxFaults /\ faults' = faults + 1
    BY <1>17 DEF Fail, Fault, disk
  <2>2. faults' \in 0..MaxFaults
    BY <2>1 DEF IInv, TypeOK
  <2> QED
    BY <2>1, <2>2, Fails
<1>18. CASE PowerLoss
    BY <1>18 DEF PowerLoss, Fault, disk
<1>19. CASE UNCHANGED vars
    BY <1>19 DEF vars
<1> QED BY <1>1, <1>2, <1>3, <1>4, <1>5, <1>6, <1>7, <1>8, <1>9, <1>10, <1>11, <1>12, <1>13, <1>14, <1>15, <1>16, <1>17, <1>18, <1>19 DEF Next, Step

\* The invariant holds throughout.
THEOREM PatchInductive == Spec => []IInv
  BY InvInit, InvStep, PTL DEF Spec

\* The variables keep their types; what is overwritten when it was needed is the
\* copy of a partition patched in place, and nothing else.
THEOREM PatchTypes == Spec => []TypeOK
<1>1. IInv => TypeOK
    BY DEF IInv
<1> QED BY <1>1, PatchInductive, PTL

\* The source of every file survives any number of interruptions of
\* GenerateTarget, in place or in CACHE_TEMP_SOURCE, until the file is the
\* target; but for the copies GenerateTarget overwrites, and from the first file
\* on that the script has passed over.
THEOREM SourcesSurvive == Spec => []SourceSurvives
<1>1. IInv => SourceSurvives
    BY DEF IInv, Only, SourceSurvives, Recoverable
<1> QED BY <1>1, PatchInductive, PTL

\* When the script succeeds every file is the target, or was passed over.
THEOREM SuccessIsTarget == Spec => []SuccessMeansTarget
<1>1. IInv => SuccessMeansTarget
    BY DEF IInv, Result, SuccessMeansTarget, Done
<1> QED BY <1>1, PatchInductive, PTL

-----------------------------------------------------------------------------
(* Every file is patched atomically                                        *)

Contents == [f \in Files |-> IF at[f] = "target" THEN "target"
                             ELSE IF Recoverable(f) THEN "source" ELSE "lost"]

LEMMA PromiseInit == Init => Promise!Init
<1> SUFFICES ASSUME Init PROVE Promise!Init
    OBVIOUS
<1>1. \A f \in Files : at[f] # "target" /\ Recoverable(f)
    BY FilesAssumption DEF Init, Recoverable, SourceThere
<1> QED BY <1>1 DEF Promise!Init, Promise!Files

\* A step that leaves the files alone, or changes only what nobody needs.
LEMMA Stutters ==
  ASSUME \A f \in Files : /\ at'[f] = "target" <=> at[f] = "target"
                          /\ at[f] # "target" => (Recoverable(f)' <=> Recoverable(f))
  PROVE Contents' = Contents
  BY DEF Contents

\* Rename and EndWrite make the current file the target.
LEMMA Applies ==
  ASSUME TypeOK, Prefix, pc \in Working, at[i] # "target", Recoverable(i),
         at' = [at EXCEPT ![i] = "target"], UNCHANGED <<kept, copyOf>>
  PROVE Promise!Next
<1> USE FilesAssumption DEF TypeOK
<1>1. Contents' = [Contents EXCEPT ![i] = "target"]
    BY DEF Contents, Recoverable, SourceThere
<1>2. /\ Contents[i] = "source"
      /\ \A g \in 1..(i - 1) : Contents[g] = "target" \/ g \in Files \ Asserted
    BY DEF Contents, Prefix, Done
<1> QED BY <1>1, <1>2 DEF Promise!Next, Promise!Apply, Promise!Files, Contents

\* The copy goes, or becomes one nobody needs; its file may be lost with it.
LEMMA CopyGone ==
  ASSUME IInv, UNCHANGED <<at, kept>>,
         \/ copyOf' = copyOf
         \/ copyOf' = 0
         \/ copyOf' \in Files /\ SourceThere(copyOf'),
         copyOf # 0 => \/ at[copyOf] = "target"
                       \/ SourceThere(copyOf)
                       \/ copyOf \in Partitions \ Elsewhere
                       \/ Excused(copyOf)
  PROVE  [Promise!Next]_Contents
<1> USE FilesAssumption DEF IInv
<1> PICK c \in 0..N : c = copyOf
  BY DEF TypeOK
<1>1. \A f \in Files : SourceThere(f)' = SourceThere(f)
  BY DEF SourceThere
<1>2. 0 \notin Files /\ 0..N = Files \cup {0}
  OBVIOUS
<1>3. \A f \in Files \ {c} : Recoverable(f)' = Recoverable(f)
  <2> TAKE f \in Files \ {c}
  <2>1. copyOf' = f => SourceThere(f)
    BY <1>2
  <2> QED
    BY <1>1, <2>1 DEF Recoverable
<1>4. CASE c = 0 \/ Recoverable(c)' = Recoverable(c)
  <2>1. \A f \in Files : Recoverable(f)' = Recoverable(f)
    BY <1>2, <1>3, <1>4
  <2> QED
    BY <2>1, Stutters
<1>5. CASE c # 0 /\ Recoverable(c)' # Recoverable(c)
  <2>1. c \in Files /\ Recoverable(c)
    BY <1>2, <1>5 DEF Recoverable
  <2>2. ~Recoverable(c)' /\ at[c] # "target" /\ ~SourceThere(c)
    BY <1>1, <1>5, <2>1 DEF Recoverable
  <2>3. Contents[c] = "source" /\ Contents' = [Contents EXCEPT ![c] = "lost"]
    BY <1>3, <2>1, <2>2 DEF Contents
  <2>4. c \in Partitions \ Elsewhere \/ \E g \in Files \ Asserted : g <= c
    BY <2>1, <2>2 DEF Excused, TypeOK
  <2> QED
    BY <2>1, <2>3, <2>4 DEF Promise!Next, Promise!Lose, Promise!Files, Contents
<1> QED
  BY <1>4, <1>5

LEMMA PromiseStep == IInv /\ [Next]_vars => [Promise!Next]_Contents
<1> SUFFICES ASSUME IInv, [Next]_vars PROVE [Promise!Next]_Contents
    OBVIOUS
<1> USE FilesAssumption DEF IInv
<1>1. CASE UNCHANGED disk
    BY <1>1, Stutters DEF disk, Recoverable, SourceThere
<1>2. CASE Truncate \/ SaveCopy \/ Cleanup
    <2>1. /\ pc \in Busy /\ UNCHANGED <<at, kept>>
          /\ \/ copyOf' = copyOf
             \/ copyOf' = 0
             \/ copyOf' = i /\ SourceThere(i)
        BY <1>2 DEF Truncate, SaveCopy, Cleanup, Goto, Stages
    <2>2. \A f \in Files \ {i} : at[f] = "target" \/ SourceThere(f) \/ Excused(f)
        BY <2>1 DEF Others
    <2>3. at[i] = "target" \/ SourceThere(i) \/ i \in Partitions \ Elsewhere
        BY <1>2 DEF Truncate, SaveCopy, Cleanup, Goto, Stages, PartitionsKept,
          SourceThere, TypeOK
    <2>4. i \in Files /\ copyOf \in 0..N
        BY DEF TypeOK
    <2>5. copyOf # 0 => \/ at[copyOf] = "target"
                       \/ SourceThere(copyOf)
                       \/ copyOf \in Partitions \ Elsewhere
                       \/ Excused(copyOf)
        BY <2>2, <2>3, <2>4
    <2> QED BY <2>1, <2>4, <2>5, CopyGone
<1>4. CASE Unlink
    <2>1. /\ copyOf = i /\ copyOf' = i /\ at[i] # "target" /\ at'[i] # "target"
          /\ \A f \in Files \ {i} : at'[f] = at[f] /\ SourceThere(f)' = SourceThere(f)
        BY <1>4 DEF Unlink, Goto, Stages, TypeOK, SourceThere
    <2> QED BY <2>1, Stutters DEF Recoverable
<1>5. CASE Rename
    <2>1. /\ pc = "install" /\ at' = [at EXCEPT ![i] = "target"] /\ UNCHANGED <<kept, copyOf>>
        BY <1>5 DEF Rename, Goto
    <2>2. at[i] # "target" /\ Recoverable(i)
        BY <2>1 DEF Stages, Recoverable
    <2> QED BY <2>1, <2>2, Applies
<1>6. CASE BeginWrite
    <2>1. /\ copyOf = i /\ copyOf' = i /\ at[i] # "target" /\ at'[i] # "target"
          /\ \A f \in Files \ {i} : at'[f] = at[f] /\ SourceThere(f)' = SourceThere(f)
        BY <1>6 DEF BeginWrite, Goto, Stages, TypeOK, SourceThere
    <2> QED BY <2>1, Stutters DEF Recoverable
<1>7. CASE EndWrite
    <2>1. /\ pc = "writing" /\ at' = [at EXCEPT ![i] = "target"] /\ UNCHANGED <<kept, copyOf>>
        BY <1>7 DEF EndWrite, Goto
    <2>2. at[i] # "target" /\ Recoverable(i)
        BY <2>1 DEF Stages, Recoverable
    <2> QED BY <2>1, <2>2, Applies
<1>9. UNCHANGED disk \/ Truncate \/ SaveCopy \/ Cleanup \/ Unlink \/ Rename
      \/ BeginWrite \/ EndWrite
    BY DEF Next, Step, vars, disk, StartRun, Check, AlreadyTarget, Load,
      SpacePartition, SpaceEnough, SpaceShort, PatchApplied, PatchRetried,
      Fail, PowerLoss
<1> QED BY <1>1, <1>2, <1>4, <1>5, <1>6, <1>7, <1>9

\* applypatch implements its promise: the files of an update change one at a
\* time, in order and at once, from the source to the target, through all
\* interruptions; only a partition patched in place may be lost, or a file that
\* is not before the first call without an assert().
THEOREM PatchIsAtomic == Spec => Atomic
<1>1. Init => Promise!Init
    BY PromiseInit
<1>2. IInv /\ [Next]_vars => [Promise!Next]_Contents
    BY PromiseStep
<1> QED BY <1>1, <1>2, PatchInductive, PTL DEF Spec, Atomic, Promise!Spec, Contents

=============================================================================
