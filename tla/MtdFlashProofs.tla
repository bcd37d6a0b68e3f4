--------------------------- MODULE MtdFlashProofs ---------------------------
(* Proofs about MtdFlash, for any partition, erase block, image and number  *)
(* of failures.                                                             *)
(*                                                                          *)
(* WrittenInOrder is not inductive.  What it rests on is that write_block   *)
(* works above everything it has placed (Above), that it has dealt with     *)
(* every block below (Behind), and that its callers hand it the units that  *)
(* come next (Calls).                                                       *)
EXTENDS MtdFlash, FiniteSetTheorems, TLAPS

InBlock  == pc \in {"check", "erase", "program", "verify", "abandon"}
Dealt(b) == b \in placed \cup marked \cup skipped

\* Who calls write_block with what.
Calls ==
    /\ InBlock /\ caller = "direct" => stored = 0 /\ taken + Units <= got
    /\ InBlock /\ caller # "direct" => stored > 0
    /\ pc \in {"erase", "program", "verify", "abandon"} => pos \in Blocks

\* The blocks of the image are below the device's offset and below the block
\* that is worked on, and hold no unit that has not gone down.
Above ==
    /\ \A b \in placed : b < offset
    /\ \A b \in placed : flash[b].first >= 1 /\ flash[b].first + flash[b].n <= Down + 1
    /\ InBlock \/ pc = "tail" => \A b \in placed : b < pos

\* No block was passed over without a reason.
Behind ==
    /\ pc = "more" => \A b \in Blocks : b < offset => Dealt(b)
    /\ InBlock => \A b \in Blocks : b < pos => Dealt(b)

AllDown == \A u \in 1 .. Down : \E b \in placed : Carries(b, u)
Ascend == \A b, c \in placed : b < c => flash[b].first + flash[b].n <= flash[c].first
NoGap  == \A c \in placed : \A b \in Blocks : b < c => Dealt(b)

IInv == TypeOK /\ Calls /\ Above /\ Behind /\ AllDown /\ Ascend /\ NoGap

USE MtdAssumption

\* What a type-correct state gives the solver.
LEMMA Facts ==
    ASSUME TypeOK
    PROVE  /\ Last \in Nat /\ Units \in Nat \ {0} /\ pos \in Nat /\ offset \in Nat
           /\ taken \in Nat /\ stored \in Nat /\ got \in Nat /\ size \in Nat
           /\ stored <= taken /\ taken <= got /\ got <= size /\ size <= MaxUnits
           /\ \A b \in Blocks : flash[b].first \in Nat /\ flash[b].n \in Nat
           /\ placed \subseteq Blocks /\ skipped \subseteq Blocks /\ Blocks \subseteq Nat
BY DEF TypeOK, Blocks, Content

LEMMA Constants == Erased \in Content /\ Other \in Content
BY DEF Erased, Other, Content

LEMMA DataIsContent ==
    ASSUME TypeOK, caller = "direct" => taken + Units <= got
    PROVE  Data \in Content
BY DEF TypeOK, Data, Content

\* A step that leaves the flash and the image's place on it alone.
LEMMA Frame ==
    ASSUME TypeOK, AllDown, Ascend, NoGap, UNCHANGED <<flash, marked, placed>>,
           Down' = Down, skipped \subseteq skipped'
    PROVE  AllDown' /\ Ascend' /\ NoGap'
<1>1. AllDown'
  BY DEF AllDown, Carries
<1>2. Ascend'
  BY DEF Ascend
<1>3. NoGap'
  BY DEF NoGap, Dealt
<1> QED
  BY <1>1, <1>2, <1>3

\* A step that changes a block above the image.
LEMMA Elsewhere ==
    ASSUME TypeOK, AllDown, Ascend, NoGap, NEW c \in Content, pos \in Blocks,
           \A b \in placed : b < pos,
           flash' = [flash EXCEPT ![pos] = c], placed' \in {placed, placed \ {pos}},
           marked' = marked, Down' = Down, skipped \subseteq skipped'
    PROVE  /\ placed' = placed
           /\ \A b \in placed : flash'[b] = flash[b]
           /\ flash' \in [Blocks -> Content]
           /\ AllDown' /\ Ascend' /\ NoGap'
<1>1. placed' = placed
  <2>1. pos \notin placed
    BY Facts
  <2> QED
    BY <2>1
<1>2. \A b \in placed : flash'[b] = flash[b]
  BY Facts DEF TypeOK
<1>3. flash' \in [Blocks -> Content]
  BY DEF TypeOK
<1>4. AllDown'
  <2> SUFFICES ASSUME NEW u \in 1 .. Down PROVE \E b \in placed : Carries(b, u)'
    BY <1>1 DEF AllDown
  <2>1. PICK b \in placed : Carries(b, u)
    BY DEF AllDown
  <2> QED
    BY <1>2, <2>1 DEF Carries
<1>5. Ascend'
  BY <1>1, <1>2 DEF Ascend
<1>6. NoGap'
  BY <1>1 DEF NoGap, Dealt
<1> QED
  BY <1>1, <1>2, <1>3, <1>4, <1>5, <1>6


\* The actions that move units about and call write_block.
LEMMA StreamStep == IInv /\ (StartRestore \/ Restore) => IInv'
<1> SUFFICES ASSUME IInv, StartRestore \/ Restore PROVE IInv'
  OBVIOUS
<1> USE Facts DEF IInv
<1>1. CASE StartRestore
  <2>1. TypeOK'
    <3>1. /\ size' \in 0 .. MaxUnits /\ got' \in 0 .. size' /\ taken' \in 0 .. got'
          /\ stored' \in 0 .. Units /\ stored' <= taken' /\ offset' \in 0 .. Last + 1
      BY <1>1 DEF StartRestore
    <3>2. out' \in Seq(Content)
      BY <1>1 DEF StartRestore
    <3> QED
      BY <1>1, <3>1, <3>2 DEF StartRestore, TypeOK, device
  <2>2. Calls' /\ Above' /\ Behind'
    BY <1>1 DEF StartRestore, Calls, Above, Behind, InBlock, Blocks
  <2>3. AllDown' /\ Ascend' /\ NoGap'
    BY <1>1 DEF StartRestore, AllDown, Ascend, NoGap, Down
  <2> QED
    BY <2>1, <2>2, <2>3
<1>2. CASE Fread
  <2>1. TypeOK'
    BY <1>2 DEF Fread, TypeOK, device, history, reader
  <2>2. Calls' /\ Above' /\ Behind'
    BY <1>2 DEF Fread, Calls, Above, Behind, InBlock, Down, Dealt, device, history
  <2>3. AllDown' /\ Ascend' /\ NoGap'
    BY <1>2, Frame DEF Fread, Down, device, history
  <2> QED
    BY <2>1, <2>2, <2>3
<1>3. CASE Coalesce
  <2>1. PICK copy \in Nat : /\ taken' = taken + copy /\ stored' = stored + copy
                            /\ taken + copy <= got /\ stored + copy <= Units
    <3>1. CopyUpTo(Units - stored) \in Nat /\ CopyUpTo(Units - stored) <= Units - stored
          /\ CopyUpTo(Units - stored) <= got - taken
      BY <1>3 DEF Coalesce, CopyUpTo, TypeOK
    <3> QED
      BY <1>3, <3>1 DEF Coalesce
  <2>2. TypeOK'
    BY <1>3, <2>1 DEF Coalesce, TypeOK, device, history, reader
  <2>3. Down' = Down
    BY <2>1 DEF Down
  <2>4. Calls' /\ Above' /\ Behind'
    BY <1>3, <2>3 DEF Coalesce, Calls, Above, Behind, InBlock, Dealt, device, history
  <2>5. AllDown' /\ Ascend' /\ NoGap'
    BY <1>3, <2>3, Frame DEF Coalesce, device, history
  <2> QED
    BY <2>2, <2>4, <2>5
<1>4. CASE WriteBuffered \/ WriteDirect \/ EndPad
  <2>1. PICK who \in {"buffer", "direct", "pad"} :
            /\ WriteBlock(who) /\ pc = "more"
            /\ who = "direct" => stored = 0 /\ got - taken >= Units
            /\ who # "direct" => stored > 0
    BY <1>4 DEF WriteBuffered, WriteDirect, EndPad, AtEnd
  <2>2. TypeOK'
    BY <2>1 DEF WriteBlock, TypeOK, device, stream, history, reader
  <2>3. Calls' /\ Above' /\ Behind'
    BY <2>1 DEF WriteBlock, Calls, Above, Behind, InBlock, Dealt, Down, device, stream, history
  <2>4. AllDown' /\ Ascend' /\ NoGap'
    BY <2>1, Frame DEF WriteBlock, Down, device, stream, history
  <2> QED
    BY <2>2, <2>3, <2>4
<1>5. CASE EndTail
  <2>1. TypeOK'
    BY <1>5 DEF EndTail, TypeOK, device, stream, history, reader
  <2>2. Calls' /\ Above' /\ Behind'
    BY <1>5 DEF EndTail, Calls, Above, Behind, InBlock, Down, device, stream, history
  <2>3. AllDown' /\ Ascend' /\ NoGap'
    BY <1>5, Frame DEF EndTail, Down, device, stream, history
  <2> QED
    BY <2>1, <2>2, <2>3
<1> QED
  BY <1>1, <1>2, <1>3, <1>4, <1>5 DEF Restore

\* write_block, but for its success.
LEMMA BlockStep == IInv /\ Block /\ ~VerifySucceeds => IInv'
<1> SUFFICES ASSUME IInv, Block, ~VerifySucceeds PROVE IInv'
  OBVIOUS
<1> USE Facts DEF IInv
<1>1. CASE SkipMarked
  <2>1. TypeOK'
    BY <1>1 DEF SkipMarked, TypeOK, device, stream, history, reader
  <2>2. Calls' /\ Above' /\ Behind'
    BY <1>1 DEF SkipMarked, Calls, Above, Behind, InBlock, Dealt, Down, device, stream, history
  <2>3. AllDown' /\ Ascend' /\ NoGap'
    BY <1>1, Frame DEF SkipMarked, Down, device, stream, history
  <2> QED
    BY <2>1, <2>2, <2>3
<1>2. CASE Attempt
  <2>1. TypeOK'
    BY <1>2 DEF Attempt, TypeOK, device, stream, history, reader
  <2>2. Calls' /\ Above' /\ Behind'
    BY <1>2 DEF Attempt, Calls, Above, Behind, InBlock, Dealt, Down, Blocks, device, stream, history
  <2>3. AllDown' /\ Ascend' /\ NoGap'
    BY <1>2, Frame DEF Attempt, Down, device, stream, history
  <2> QED
    BY <2>1, <2>2, <2>3
<1>3. CASE EraseBlock
  <2>1. /\ pc = "erase" /\ pc' \in {"erase", "program", "abandon"} /\ try' \in 0 .. 1
        /\ \E c \in Content : flash' = [flash EXCEPT ![pos] = c]
        /\ placed' = placed \ {pos} /\ faults' \in 0 .. MaxFaults
        /\ UNCHANGED <<marked, size, got, taken, stored, skipped, padFailed, restored, out, unread,
                       caller, pos, offset, result>>
    BY <1>3, Constants DEF EraseBlock, Put, Again, Fine, Fault, TypeOK, stream, reader
  <2>2. PICK c \in Content : flash' = [flash EXCEPT ![pos] = c]
    BY <2>1
  <2>3. pos \in Blocks /\ (\A b \in placed : b < pos) /\ Down' = Down
    BY <2>1 DEF Calls, Above, InBlock, Down
  <2>4. /\ placed' = placed /\ (\A b \in placed : flash'[b] = flash[b])
        /\ flash' \in [Blocks -> Content] /\ AllDown' /\ Ascend' /\ NoGap'
    BY <2>1, <2>2, <2>3, Elsewhere
  <2>5. TypeOK'
    BY <2>1, <2>4 DEF TypeOK
  <2>6. Calls' /\ Above' /\ Behind'
    BY <2>1, <2>3, <2>4 DEF Calls, Above, Behind, InBlock, Dealt
  <2> QED
    BY <2>4, <2>5, <2>6
<1>4. CASE Program
  <2>1. /\ pc = "program" /\ pc' = "verify" /\ faults' \in 0 .. MaxFaults
        /\ UNCHANGED <<marked, size, got, taken, stored, placed, skipped, padFailed, restored, out,
                       unread, caller, pos, offset, try, result>>
    BY <1>4 DEF Program, Fine, Fault, TypeOK, stream, reader, history
  <2>2. Data \in Content
    BY <2>1, DataIsContent DEF Calls, InBlock
  <2>3. PICK c \in Content : flash' = [flash EXCEPT ![pos] = c]
    BY <1>4, <2>2, Constants DEF Program, Put
  <2>4. pos \in Blocks /\ (\A b \in placed : b < pos) /\ Down' = Down
    BY <2>1 DEF Calls, Above, InBlock, Down
  <2>5. /\ (\A b \in placed : flash'[b] = flash[b])
        /\ flash' \in [Blocks -> Content] /\ AllDown' /\ Ascend' /\ NoGap'
    BY <2>1, <2>3, <2>4, Elsewhere
  <2>6. TypeOK'
    BY <2>1, <2>5 DEF TypeOK
  <2>7. Calls' /\ Above' /\ Behind'
    BY <2>1, <2>4, <2>5 DEF Calls, Above, Behind, InBlock, Dealt
  <2> QED
    BY <2>5, <2>6, <2>7
<1>5. CASE VerifyFails
  <2>1. /\ pc = "verify" /\ pc' \in {"erase", "abandon"} /\ try' \in 0 .. 1
        /\ offset' \in {pos, pos + 1} /\ faults' \in 0 .. MaxFaults
        /\ UNCHANGED <<flash, marked, stream, history, reader, caller, pos, result>>
    BY <1>5 DEF VerifyFails, Again, Fine, Fault, TypeOK
  <2>2. pos \in Blocks /\ (\A b \in placed : b < pos)
    BY <2>1 DEF Calls, Above, InBlock
  <2>3. TypeOK'
    BY <2>1, <2>2 DEF TypeOK, stream, history, reader, Blocks
  <2>4. Calls' /\ Above' /\ Behind'
    BY <2>1, <2>2 DEF Calls, Above, Behind, InBlock, Dealt, Down, stream, history
  <2>5. AllDown' /\ Ascend' /\ NoGap'
    BY <2>1, Frame DEF Down, stream, history
  <2> QED
    BY <2>3, <2>4, <2>5
<1>6. CASE Abandon
  <2>1. /\ pc = "abandon" /\ pc' = "check" /\ pos' = pos + 1 /\ skipped' = skipped \cup {pos}
        /\ \E c \in Content : flash' = [flash EXCEPT ![pos] = c]
        /\ faults' \in 0 .. MaxFaults
        /\ UNCHANGED <<marked, stream, placed, padFailed, restored, reader, caller, offset, try, result>>
    BY <1>6, Constants DEF Abandon, Put, Fine, Fault, TypeOK
  <2>2. PICK c \in Content : flash' = [flash EXCEPT ![pos] = c]
    BY <2>1
  <2>3. pos \in Blocks /\ (\A b \in placed : b < pos) /\ Down' = Down
    BY <2>1 DEF Calls, Above, InBlock, Down, stream
  <2>4. /\ (\A b \in placed : flash'[b] = flash[b])
        /\ flash' \in [Blocks -> Content] /\ AllDown' /\ Ascend' /\ NoGap'
    BY <2>1, <2>2, <2>3, Elsewhere
  <2>5. TypeOK'
    BY <2>1, <2>3, <2>4 DEF TypeOK, stream, reader, Blocks
  <2>6. Calls' /\ Above' /\ Behind'
    BY <2>1, <2>3, <2>4 DEF Calls, Above, Behind, InBlock, Dealt, stream
  <2> QED
    BY <2>4, <2>5, <2>6
<1>7. CASE NoSpace
  <2>1. /\ pc = "check" /\ pos > Last /\ UNCHANGED <<device, stream, placed, skipped, reader, offset, try>>
        /\ \/ pc' = "idle" /\ pos' = pos /\ caller' = caller
           \/ pc' = "check" /\ pos' = offset /\ caller = "pad" /\ caller' = "close"
        /\ padFailed' \in BOOLEAN /\ restored' \in BOOLEAN /\ result' \in {"none", "ok", "failed"}
    BY <1>7 DEF NoSpace, End, Done, TypeOK
  <2>2. TypeOK'
    BY <2>1 DEF TypeOK, device, stream, reader
  <2>3. Calls' /\ Above'
    BY <2>1 DEF Calls, Above, InBlock, Down, device, stream
  <2>4. Behind'
    BY <2>1 DEF Behind, InBlock, Dealt, Blocks, device
  <2>5. AllDown' /\ Ascend' /\ NoGap'
    BY <2>1, Frame DEF Down, device, stream
  <2> QED
    BY <2>2, <2>3, <2>4, <2>5
<1> QED
  BY <1>1, <1>2, <1>3, <1>4, <1>5, <1>6, <1>7 DEF Block


\* write_block succeeds: the units that have gone down are on one more block,
\* above all the others.
LEMMA WrittenStep == IInv /\ VerifySucceeds => IInv'
<1> SUFFICES ASSUME IInv, VerifySucceeds PROVE IInv'
  OBVIOUS
<1> USE Facts DEF IInv
<1>1. /\ pc = "verify" /\ flash[pos] = Data /\ offset' = pos + 1
      /\ UNCHANGED <<flash, marked, out, unread, faults, size, got, padFailed, caller, try>>
      /\ placed' = placed \cup {pos} /\ skipped' = skipped \ {pos}
      /\ pc' \in {"more", "tail", "idle"} /\ pos' \in {pos, pos + 1} /\ (pc' = "tail" => pos' = pos + 1)
      /\ result' \in {"none", "ok", "failed"} /\ restored' \in BOOLEAN
  BY DEF VerifySucceeds, Written, Fine, End, Done, TypeOK, reader
<1>2. /\ stored' = (IF caller = "direct" THEN stored ELSE 0)
      /\ taken' = (IF caller = "direct" THEN taken + Units ELSE taken)
  BY DEF VerifySucceeds, Written
<1>3. pos \in Blocks /\ (\A b \in placed : b < pos)
  BY <1>1 DEF Calls, Above, InBlock
<1>4. /\ flash[pos].first = Down + 1 /\ flash[pos].first + flash[pos].n = Down' + 1
      /\ Down \in Nat /\ Down' \in Nat /\ Down <= Down'
      /\ taken' \in 0 .. got /\ stored' \in 0 .. Units /\ stored' <= taken'
  <2>1. CASE caller = "direct"
    BY <1>1, <1>2, <2>1 DEF Data, Down, Calls, InBlock, TypeOK
  <2>2. CASE caller # "direct"
    BY <1>1, <1>2, <2>2 DEF Data, Down, Calls, InBlock, TypeOK
  <2> QED
    BY <2>1, <2>2
<1>5. TypeOK'
  <2>1. pos' \in 0 .. Last + 1 /\ offset' \in 0 .. Last + 1
    BY <1>1, <1>3 DEF Blocks
  <2> QED
    BY <1>1, <1>3, <1>4, <2>1 DEF TypeOK
<1>6. Calls' /\ Above'
  BY <1>1, <1>3, <1>4 DEF Calls, Above, InBlock
<1>7. \A b \in Blocks : b < pos + 1 => Dealt(b)'
  <2>1. \A b \in Blocks : b < pos => Dealt(b)
    BY <1>1 DEF Behind, InBlock
  <2> QED
    BY <1>1, <1>3, <2>1 DEF Dealt
<1>8. Behind'
  BY <1>1, <1>7 DEF Behind, InBlock
<1>9. AllDown'
  <2> SUFFICES ASSUME NEW u \in 1 .. Down' PROVE \E b \in placed' : Carries(b, u)'
    BY DEF AllDown
  <2>1. CASE u <= Down
    <3>1. PICK b \in placed : Carries(b, u)
      BY <1>4, <2>1 DEF AllDown
    <3> QED
      BY <1>1, <3>1 DEF Carries
  <2>2. CASE u > Down
    <3>1. pos \in placed' /\ flash'[pos].first <= u /\ u < flash'[pos].first + flash'[pos].n
      BY <1>1, <1>4, <2>2
    <3> QED
      BY <3>1 DEF Carries
  <2> QED
    BY <1>4, <2>1, <2>2
<1>10. Ascend'
  <2> SUFFICES ASSUME NEW b \in placed', NEW c \in placed', b < c
               PROVE  flash[b].first + flash[b].n <= flash[c].first
    BY <1>1 DEF Ascend
  <2>1. b \in placed
    BY <1>1, <1>3
  <2>2. CASE c \in placed
    BY <2>1, <2>2 DEF Ascend
  <2>3. CASE c = pos
    BY <1>4, <2>1, <2>3 DEF Above
  <2> QED
    BY <1>1, <2>2, <2>3
<1>11. NoGap'
  <2> SUFFICES ASSUME NEW c \in placed', NEW b \in Blocks, b < c PROVE Dealt(b)'
    BY DEF NoGap
  <2>1. b < pos + 1
    BY <1>1, <1>3
  <2> QED
    BY <1>7, <2>1
<1> QED
  BY <1>5, <1>6, <1>8, <1>9, <1>10, <1>11

\* The erase of the rest of the partition, and of all of it.
LEMMA EraseStep == IInv /\ (EraseTail \/ TailErased \/ StartErase) => IInv'
<1> SUFFICES ASSUME IInv, EraseTail \/ TailErased \/ StartErase PROVE IInv'
  OBVIOUS
<1> USE Facts DEF IInv
<1>1. CASE EraseTail
  <2>1. /\ pc = "tail" /\ pos <= Last /\ pos' = pos + 1 /\ placed' = placed \ {pos}
        /\ skipped' \in {skipped, skipped \cup {pos}} /\ faults' \in 0 .. MaxFaults
        /\ UNCHANGED <<marked, stream, padFailed, restored, reader, pc, caller, offset, try, result>>
    BY <1>1 DEF EraseTail, Fine, Fault, TypeOK
  <2>2. pos \in Blocks /\ (\A b \in placed : b < pos) /\ Down' = Down
    BY <2>1 DEF Above, Blocks, Down, stream
  <2>3. \E c \in Content : flash' = [flash EXCEPT ![pos] = c]
    BY <1>1, <2>2, Constants DEF EraseTail, Put, TypeOK
  <2>4. PICK c \in Content : flash' = [flash EXCEPT ![pos] = c]
    BY <2>3
  <2>5. /\ placed' = placed /\ (\A b \in placed : flash'[b] = flash[b])
        /\ flash' \in [Blocks -> Content] /\ AllDown' /\ Ascend' /\ NoGap'
    BY <2>1, <2>2, <2>4, Elsewhere
  <2>6. TypeOK'
    BY <2>1, <2>2, <2>5 DEF TypeOK, stream, reader, Blocks
  <2>7. Calls' /\ Above' /\ Behind'
    BY <2>1, <2>2, <2>5 DEF Calls, Above, Behind, InBlock, stream
  <2> QED
    BY <2>5, <2>6, <2>7
<1>2. CASE TailErased
  <2>1. TypeOK'
    BY <1>2 DEF TailErased, End, Done, TypeOK, device, stream, reader
  <2>2. Calls' /\ Above' /\ Behind'
    BY <1>2 DEF TailErased, End, Done, Calls, Above, Behind, InBlock, Down, device, stream
  <2>3. AllDown' /\ Ascend' /\ NoGap'
    BY <1>2, Frame DEF TailErased, Down, device, stream
  <2> QED
    BY <2>1, <2>2, <2>3
<1>3. CASE StartErase
  <2>1. TypeOK'
    <3>1. out' \in Seq(Content)
      BY <1>3 DEF StartErase
    <3>2. /\ size' \in 0 .. MaxUnits /\ got' \in 0 .. size' /\ taken' \in 0 .. got'
          /\ stored' \in 0 .. Units /\ stored' <= taken'
          /\ pos' \in 0 .. Last + 1 /\ offset' \in 0 .. Last + 1
      BY <1>3 DEF StartErase
    <3> QED
      BY <1>3, <3>1, <3>2 DEF StartErase, TypeOK, device
  <2>2. Calls' /\ Above' /\ Behind'
    BY <1>3 DEF StartErase, Calls, Above, Behind, InBlock
  <2>3. AllDown' /\ Ascend' /\ NoGap'
    BY <1>3 DEF StartErase, AllDown, Ascend, NoGap, Down
  <2> QED
    BY <2>1, <2>2, <2>3
<1> QED
  BY <1>1, <1>2, <1>3

\* A backup changes nothing on the flash.
LEMMA BackupStep == IInv /\ (StartBackup \/ Backup) => IInv'
<1> SUFFICES ASSUME IInv, StartBackup \/ Backup PROVE IInv'
  OBVIOUS
<1> USE Facts DEF IInv
<1>1. /\ UNCHANGED <<flash, marked, stream, history, caller, offset, try>>
      /\ pc' \in {"read", "idle"} /\ result' \in {"none", "ok", "failed"}
      /\ faults' \in 0 .. MaxFaults
  BY DEF StartBackup, Backup, SkipBlock, ReadBlock, ReadBlockWhole, EndBackup, BackupFails, End,
         Fine, Fault, TypeOK, device
<1>2. pos' \in 0 .. Last + 1
  BY DEF StartBackup, Backup, SkipBlock, ReadBlock, ReadBlockWhole, EndBackup, BackupFails, TypeOK
<1>3. unread' \subseteq Blocks
  <2>1. pos .. Last \subseteq Blocks
    BY DEF Blocks
  <2>2. unread' \subseteq unread \cup {pos} \cup (pos .. Last) /\ (pos \in unread' => pos \in unread \/ pos <= Last)
    BY DEF StartBackup, Backup, SkipBlock, ReadBlock, ReadBlockWhole, EndBackup, BackupFails
  <2>3. pos <= Last => pos \in Blocks
    BY DEF Blocks
  <2> QED
    BY <2>1, <2>2, <2>3 DEF TypeOK
<1>4. out' \in Seq(Content)
  <2>1. CASE ReadBlock
    <3>1. pos \in Blocks
      BY <2>1 DEF ReadBlock, ReadBlockWhole, Blocks
    <3> QED
      BY <2>1, <3>1 DEF ReadBlock, ReadBlockWhole, TypeOK
  <2>2. CASE ~ReadBlock
    <3>1. out' \in {<<>>, out}
      BY <2>2 DEF StartBackup, Backup, SkipBlock, EndBackup, BackupFails
    <3>2. <<>> \in Seq(Content)
      OBVIOUS
    <3>3. out \in Seq(Content)
      BY DEF TypeOK
    <3> QED
      BY <3>1, <3>2, <3>3
  <2> QED
    BY <2>1, <2>2
<1>5. TypeOK'
  BY <1>1, <1>2, <1>3, <1>4 DEF TypeOK, stream, history
<1>6. Calls' /\ Above' /\ Behind'
  BY <1>1 DEF Calls, Above, Behind, InBlock, Down, stream, history
<1>7. AllDown' /\ Ascend' /\ NoGap'
  BY <1>1, Frame DEF Down, stream, history
<1> QED
  BY <1>5, <1>6, <1>7

\* A power loss spoils at most the block that was worked on.
LEMMA PowerStep == IInv /\ PowerLoss => IInv'
<1> SUFFICES ASSUME IInv, PowerLoss PROVE IInv'
  OBVIOUS
<1> USE Facts DEF IInv
<1>1. /\ pc' = "idle" /\ result' = "none" /\ out' = <<>> /\ faults' \in 0 .. MaxFaults
      /\ UNCHANGED <<marked, stream, history, caller, pos, offset, try, unread>>
  BY DEF PowerLoss, Fault, End, TypeOK
<1>2. out' \in Seq(Content) /\ Down' = Down
  BY <1>1 DEF Down, stream
<1>3. CASE flash' = flash
  <2>1. TypeOK'
    BY <1>1, <1>2, <1>3 DEF TypeOK, stream, history
  <2>2. Calls' /\ Above' /\ Behind'
    BY <1>1, <1>2, <1>3 DEF Calls, Above, Behind, InBlock, stream, history
  <2>3. AllDown' /\ Ascend' /\ NoGap'
    BY <1>1, <1>2, <1>3, Frame DEF history
  <2> QED
    BY <2>1, <2>2, <2>3
<1>4. CASE flash' # flash
  <2>1. /\ pos \in Blocks /\ (InBlock \/ pc = "tail")
        /\ flash' = [flash EXCEPT ![pos] = Other]
    BY <1>4 DEF PowerLoss, Put, Calls, InBlock
  <2>2. /\ (\A b \in placed : flash'[b] = flash[b])
        /\ flash' \in [Blocks -> Content] /\ AllDown' /\ Ascend' /\ NoGap'
    BY <1>1, <1>2, <2>1, Constants, Elsewhere DEF Above, history
  <2>3. TypeOK'
    BY <1>1, <1>2, <2>2 DEF TypeOK, stream, history
  <2>4. Calls' /\ Above' /\ Behind'
    BY <1>1, <1>2, <2>2 DEF Calls, Above, Behind, InBlock, stream, history
  <2> QED
    BY <2>2, <2>3, <2>4
<1> QED
  BY <1>3, <1>4

\* IInv is inductive.
THEOREM MtdInductive == Spec => []IInv
<1>1. Init => IInv
  <2> SUFFICES ASSUME Init PROVE IInv
    OBVIOUS
  <2>1. TypeOK
    <3>1. flash \in [Blocks -> Content] /\ out \in Seq(Content)
      BY Constants DEF Init
    <3>2. /\ size \in 0 .. MaxUnits /\ got \in 0 .. size /\ taken \in 0 .. got
          /\ stored \in 0 .. Units /\ stored <= taken /\ faults \in 0 .. MaxFaults
          /\ pos \in 0 .. Last + 1 /\ offset \in 0 .. Last + 1 /\ try \in 0 .. 1
      BY DEF Init
    <3> QED
      BY <3>1, <3>2 DEF Init, TypeOK
  <2>2. Calls /\ Above /\ Behind /\ AllDown /\ Ascend /\ NoGap
    BY DEF Init, Calls, Above, Behind, AllDown, Ascend, NoGap, InBlock, Down
  <2> QED
    BY <2>1, <2>2 DEF IInv
<1>2. IInv /\ [Next]_vars => IInv'
  <2> SUFFICES ASSUME IInv, [Next]_vars PROVE IInv'
    OBVIOUS
  <2>1. CASE UNCHANGED vars
    <3>1. TypeOK'
      BY <2>1 DEF vars, device, stream, history, reader, IInv, TypeOK
    <3>2. Calls' /\ Above' /\ Behind'
      BY <2>1 DEF vars, device, stream, history, IInv, Calls, Above, Behind, InBlock, Dealt, Down
    <3>3. AllDown' /\ Ascend' /\ NoGap'
      BY <2>1, Frame DEF vars, device, stream, history, IInv, Down
    <3> QED
      BY <3>1, <3>2, <3>3 DEF IInv
  <2>2. CASE Next
    BY <2>2, StreamStep, BlockStep, WrittenStep, EraseStep, BackupStep, PowerStep DEF Next
  <2> QED
    BY <2>1, <2>2
<1> QED
  BY <1>1, <1>2, PTL DEF Spec

\* Every variable keeps its type.
THEOREM MtdTypes == Spec => []TypeOK
<1>1. IInv => TypeOK
  BY DEF IInv
<1> QED
  BY <1>1, MtdInductive, PTL

\* Whatever fails, and whenever the phone goes off, the image on the flash is
\* whole and in order up to what has gone down.
THEOREM ImageInOrder == Spec => []WrittenInOrder
<1>1. IInv => WrittenInOrder
  <2> SUFFICES ASSUME IInv PROVE WrittenInOrder
    OBVIOUS
  <2>1. \A c \in placed : \A b \in 0 .. c - 1 : b \in Blocks /\ b < c
    BY DEF IInv, TypeOK, Blocks
  <2> QED
    BY <2>1 DEF IInv, AllDown, Ascend, NoGap, Dealt, WrittenInOrder
<1> QED
  BY <1>1, MtdInductive, PTL
----------------------------------------------------------------------------
(* A clean restore, and what a backup makes of it.  SavedIsWritten needs    *)
(* how many blocks without a mark lie below the one that is worked on       *)
(* (Rank): with nothing passed over, that many blocks' worth of units have  *)
(* gone down (Laid), and that many blocks have been read back (Copied).     *)
Rank  == [b \in 0 .. Last + 1 |-> Cardinality((0 .. b - 1) \ marked)]
Start == [k \in Nat |-> k * Units]

\* What the block with k unmarked blocks below it ought to hold.
Want == [k \in Nat |->
           IF Start[k] >= size THEN Erased
           ELSE [first |-> Start[k] + 1, n |-> IF Start[k + 1] <= size THEN Units ELSE size - Start[k]]]
Exact(end) == \A b \in Blocks \ marked : b < end => flash[b] = Want[Rank[b]]
Clean == skipped = {} /\ ~padFailed

\* How much each caller hands over, and where write_block gets to work.
Handed ==
    /\ InBlock /\ caller = "buffer" => stored = Units
    /\ InBlock /\ caller = "pad" => taken = size /\ stored < Units
    /\ InBlock /\ caller = "close" => padFailed
    /\ pc \in {"erase", "program", "verify", "abandon"} => pos \notin marked

\* A command that writes never comes back to a block it has left behind, and
\* starts with nothing of a former one.
Forward ==
    /\ InBlock \/ pc \in {"more", "tail"} => ~restored /\ out = <<>>
    /\ ~padFailed => /\ InBlock => \A b \in skipped : b < pos
                     /\ pc = "more" => \A b \in skipped : b < offset

Laid ==
    Clean => /\ pc = "more" => Exact(offset) /\ Down = Start[Rank[offset]]
             /\ InBlock => Exact(pos) /\ Down = Start[Rank[pos]]
             /\ pc = "tail" => Exact(pos) /\ Start[Rank[pos]] >= size
             /\ restored => Exact(Last + 1)

CopiedTo(end) == Len(out) = Rank[end] /\ \A i \in 1 .. Len(out) : out[i] = Want[i - 1]
Copied ==
    restored /\ Clean /\ unread = {} =>
        /\ pc = "read" => CopiedTo(pos)
        /\ Saved => CopiedTo(Last + 1)

Clear == Handed /\ Forward /\ Laid /\ Copied

\* Counting: no unmarked block below the first, one more after each.
LEMMA Counting ==
           /\ Rank \in [0 .. Last + 1 -> Nat]
           /\ Rank[0] = 0
           /\ \A b \in Blocks : Rank[b + 1] = IF b \in marked THEN Rank[b] ELSE Rank[b] + 1
           /\ Rank[Last + 1] = Cardinality(Blocks \ marked)
<1>1. \A b \in 0 .. Last + 1 : IsFiniteSet((0 .. b - 1) \ marked)
  <2> SUFFICES ASSUME NEW b \in 0 .. Last + 1 PROVE IsFiniteSet((0 .. b - 1) \ marked)
    OBVIOUS
  <2>1. IsFiniteSet(0 .. b - 1)
    BY FS_Interval
  <2>2. (0 .. b - 1) \ marked \subseteq 0 .. b - 1
    OBVIOUS
  <2> QED
    BY <2>1, <2>2, FS_Subset
<1>2. Rank \in [0 .. Last + 1 -> Nat]
  BY <1>1, FS_CardinalityType DEF Rank
<1>3. Rank[0] = 0
  <2>1. (0 .. 0 - 1) \ marked = {}
    OBVIOUS
  <2> QED
    BY <2>1, FS_EmptySet DEF Rank
<1>4. ASSUME NEW b \in Blocks
      PROVE  Rank[b + 1] = IF b \in marked THEN Rank[b] ELSE Rank[b] + 1
  <2>1. b \in 0 .. Last + 1 /\ b + 1 \in 0 .. Last + 1 /\ (b + 1) - 1 = b /\ b \in Nat
    BY <1>4 DEF Blocks
  <2>2. (0 .. b) = (0 .. b - 1) \cup {b}
    BY <2>1
  <2>3. Rank[b + 1] = Cardinality((0 .. b) \ marked) /\ Rank[b] = Cardinality((0 .. b - 1) \ marked)
    BY <2>1 DEF Rank
  <2>4. CASE b \in marked
    <3>1. (0 .. b) \ marked = (0 .. b - 1) \ marked
      BY <2>2, <2>4
    <3> QED
      BY <2>3, <2>4, <3>1
  <2>5. CASE b \notin marked
    <3>1. (0 .. b) \ marked = ((0 .. b - 1) \ marked) \cup {b} /\ b \notin (0 .. b - 1) \ marked
      BY <2>1, <2>2, <2>5
    <3>2. IsFiniteSet((0 .. b - 1) \ marked)
      BY <1>1, <2>1
    <3>3. Cardinality(((0 .. b - 1) \ marked) \cup {b}) = Cardinality((0 .. b - 1) \ marked) + 1
      BY <3>1, <3>2, FS_AddElement
    <3> QED
      BY <2>3, <2>5, <3>1, <3>3
  <2> QED
    BY <2>4, <2>5
<1>5. Rank[Last + 1] = Cardinality(Blocks \ marked)
  <2>1. (Last + 1) - 1 = Last /\ Last + 1 \in 0 .. Last + 1
    OBVIOUS
  <2> QED
    BY <2>1 DEF Rank, Blocks
<1> QED
  BY <1>2, <1>3, <1>4, <1>5

LEMMA Starts ==
           /\ Start \in [Nat -> Nat] /\ Start[0] = 0
           /\ \A k \in Nat : Start[k + 1] = Start[k] + Units
<1>1. \A k \in Nat : k * Units \in Nat
  BY MtdAssumption
<1>2. \A k \in Nat : (k + 1) * Units = k * Units + Units
  BY MtdAssumption
<1> QED
  BY <1>1, <1>2 DEF Start

\* What depends on the marks and the length of the image only.
LEMMA Same ==
    ASSUME UNCHANGED <<marked, size>>
    PROVE  Rank' = Rank /\ Want' = Want
BY DEF Rank, Want

\* Both, at the blocks a command has to do with.
LEMMA AtPos ==
    ASSUME TypeOK
    PROVE  /\ Rank[0] = 0 /\ Start[0] = 0
           /\ Rank[pos] \in Nat /\ Start[Rank[pos]] \in Nat
           /\ Start[Rank[pos] + 1] = Start[Rank[pos]] + Units
           /\ pos \in Blocks => Rank[pos + 1] = IF pos \in marked THEN Rank[pos] ELSE Rank[pos] + 1
<1>1. pos \in 0 .. Last + 1
  BY DEF TypeOK
<1> QED
  BY <1>1, Counting, Starts

\* The actions of the stream; a command begins.
LEMMA StreamClear == IInv /\ Clear /\ (StartRestore \/ StartErase \/ Restore) => Clear'
<1> SUFFICES ASSUME IInv, Clear, StartRestore \/ StartErase \/ Restore PROVE Clear'
  OBVIOUS
<1> USE Facts, AtPos DEF IInv, Clear
<1>1. CASE StartRestore \/ StartErase
  <2>1. /\ pc' \in {"more", "tail"} /\ restored' = FALSE /\ out' = <<>> /\ skipped' = {}
        /\ offset' = 0 /\ (pc' = "tail" => pos' = 0 /\ size' = 0)
        /\ taken' = 0 /\ stored' = 0 /\ marked' = marked
    BY <1>1 DEF StartRestore, StartErase, device
  <2>2. Rank' = Rank
    BY <2>1 DEF Rank
  <2>3. Handed' /\ Forward' /\ Copied'
    BY <2>1 DEF Handed, Forward, Copied, InBlock
  <2>4. Laid'
    BY <2>1, <2>2 DEF Laid, InBlock, Down, Exact, Blocks
  <2> QED
    BY <2>3, <2>4
<1>2. CASE Fread \/ Coalesce
  <2>1. /\ pc = "more" /\ UNCHANGED <<flash, marked, size, pc, skipped, padFailed, restored, out, unread, offset>>
        /\ Down' = Down
    <3>1. CASE Fread
      BY <3>1 DEF Fread, device, history, reader, Down
    <3>2. CASE Coalesce
      <4>1. CopyUpTo(Units - stored) \in Int
        BY DEF CopyUpTo
      <4>2. /\ pc = "more" /\ UNCHANGED <<flash, marked, size, pc, skipped, padFailed, restored, out, unread, offset>>
            /\ taken' = taken + CopyUpTo(Units - stored) /\ stored' = stored + CopyUpTo(Units - stored)
        BY <3>2 DEF Coalesce, device, history, reader
      <4> QED
        BY <4>1, <4>2 DEF Down
    <3> QED
      BY <1>2, <3>1, <3>2
  <2>2. Rank' = Rank /\ Want' = Want
    BY <2>1, Same
  <2>3. Handed' /\ Forward' /\ Copied'
    BY <2>1 DEF Handed, Forward, Copied, InBlock, Saved
  <2>4. Laid'
    BY <2>1, <2>2 DEF Laid, InBlock, Exact, Clean, Forward
  <2> QED
    BY <2>3, <2>4
<1>3. CASE WriteBuffered \/ WriteDirect \/ EndPad
  <2>1. /\ pc = "more" /\ pc' = "check" /\ pos' = offset
        /\ UNCHANGED <<flash, marked, size, got, taken, stored, skipped, padFailed, restored, out, unread, offset>>
        /\ caller' = "buffer" => stored = Units
        /\ caller' = "pad" => taken = size /\ stored < Units
        /\ caller' # "close"
    BY <1>3 DEF WriteBuffered, WriteDirect, EndPad, AtEnd, WriteBlock, device, stream, history, reader
  <2>2. Rank' = Rank /\ Want' = Want /\ Down' = Down
    BY <2>1, Same DEF Down
  <2>3. Handed' /\ Forward' /\ Copied'
    BY <2>1 DEF Handed, Forward, Copied, InBlock
  <2>4. Laid'
    BY <2>1, <2>2 DEF Laid, InBlock, Exact, Clean, Forward
  <2> QED
    BY <2>3, <2>4
<1>4. CASE EndTail
  <2>1. /\ pc = "more" /\ pc' = "tail" /\ pos' = offset /\ taken = size /\ stored = 0
        /\ UNCHANGED <<flash, marked, size, skipped, padFailed, restored, out, unread>>
    BY <1>4 DEF EndTail, AtEnd, device, stream, history, reader
  <2>2. Rank' = Rank /\ Want' = Want /\ Down = size
    BY <2>1, Same DEF Down
  <2>3. Handed' /\ Forward' /\ Copied'
    BY <2>1 DEF Handed, Forward, Copied, InBlock
  <2>4. Laid'
    BY <2>1, <2>2 DEF Laid, InBlock, Exact, Clean, Forward
  <2> QED
    BY <2>3, <2>4
<1> QED
  BY <1>1, <1>2, <1>3, <1>4 DEF Restore

\* write_block, but for its success.
LEMMA BlockClear == IInv /\ Clear /\ Block /\ ~VerifySucceeds => Clear'
<1> SUFFICES ASSUME IInv, Clear, Block, ~VerifySucceeds PROVE Clear'
  OBVIOUS
<1> USE Facts, AtPos DEF IInv, Clear
<1>1. CASE SkipMarked
  <2>1. /\ pc = "check" /\ pc' = "check" /\ pos \in marked /\ pos' = pos + 1 /\ pos \in Blocks
        /\ UNCHANGED <<flash, marked, stream, history, reader, caller>>
    BY <1>1 DEF SkipMarked, device, Blocks
  <2>2. Rank' = Rank /\ Want' = Want /\ Down' = Down /\ Rank[pos'] = Rank[pos]
    BY <2>1, Same DEF Down, stream
  <2>3. Handed' /\ Forward' /\ Copied'
    BY <2>1 DEF Handed, Forward, Copied, InBlock, stream, history, reader
  <2>4. Laid'
    BY <2>1, <2>2 DEF Laid, InBlock, Exact, Clean, Forward, history, Blocks
  <2> QED
    BY <2>3, <2>4
<1>2. CASE Attempt \/ EraseBlock \/ Program \/ VerifyFails
  <2>1. /\ InBlock /\ pc' \in {"erase", "program", "verify", "abandon"} /\ pos' = pos
        /\ pos \in Blocks /\ pos \notin marked
        /\ UNCHANGED <<marked, size, got, taken, stored, skipped, padFailed, restored, out, unread, caller>>
    BY <1>2 DEF Attempt, EraseBlock, Program, VerifyFails, Again, InBlock, Calls, Handed, Blocks,
       device, stream, history, reader
  <2>2. \A b \in Blocks : b < pos => flash'[b] = flash[b]
    BY <1>2, <2>1 DEF Attempt, EraseBlock, Program, VerifyFails, Put, TypeOK, device
  <2>3. Rank' = Rank /\ Want' = Want /\ Down' = Down
    BY <2>1, Same DEF Down
  <2>4. Handed' /\ Forward' /\ Copied'
    BY <2>1 DEF Handed, Forward, Copied, InBlock
  <2>5. Laid'
    BY <2>1, <2>2, <2>3 DEF Laid, InBlock, Exact, Clean, Forward
  <2> QED
    BY <2>4, <2>5
<1>3. CASE Abandon
  <2>1. /\ pc = "abandon" /\ pc' = "check" /\ pos' = pos + 1 /\ skipped' = skipped \cup {pos}
        /\ UNCHANGED <<marked, stream, padFailed, restored, reader, caller>>
    BY <1>3 DEF Abandon
  <2>2. Handed' /\ Forward' /\ Copied' /\ Laid'
    BY <2>1 DEF Handed, Forward, Copied, Laid, Clean, InBlock, stream, reader
  <2> QED
    BY <2>2
<1>4. CASE NoSpace
  <2>1. /\ pc = "check" /\ UNCHANGED <<device, stream, skipped, reader>>
        /\ \/ pc' = "idle" /\ padFailed' = padFailed
              /\ (restored' = restored \/ caller = "close")
           \/ pc' = "check" /\ caller' = "close" /\ padFailed' = TRUE /\ restored' = restored
    BY <1>4 DEF NoSpace, End, Done, TypeOK
  <2>2. ~restored /\ out = <<>> /\ (caller = "close" => padFailed)
    BY <2>1 DEF Handed, Forward, InBlock
  <2>3. Handed' /\ Forward' /\ Copied' /\ Laid'
    BY <2>1, <2>2 DEF Handed, Forward, Copied, Laid, Clean, InBlock, Saved, device, stream, reader
  <2> QED
    BY <2>3
<1> QED
  BY <1>1, <1>2, <1>3, <1>4 DEF Block

\* write_block succeeds: the block holds the units that come next, all of a
\* block's worth of them unless they are the last.
LEMMA WrittenClear == IInv /\ Clear /\ VerifySucceeds => Clear'
<1> SUFFICES ASSUME IInv, Clear, VerifySucceeds PROVE Clear'
  OBVIOUS
<1> USE Facts, AtPos DEF IInv, Clear
<1>1. /\ pc = "verify" /\ flash[pos] = Data /\ offset' = pos + 1 /\ pos \in Blocks /\ pos \notin marked
      /\ UNCHANGED <<flash, marked, out, unread, size, padFailed, caller>>
      /\ skipped' = skipped \ {pos}
      /\ stored' = (IF caller = "direct" THEN stored ELSE 0)
      /\ taken' = (IF caller = "direct" THEN taken + Units ELSE taken)
      /\ caller \in {"buffer", "direct", "pad", "close"}
  BY DEF VerifySucceeds, Written, Calls, Handed, TypeOK, reader
<1>2. /\ caller \in {"buffer", "direct"} => pc' = "more" /\ restored' = restored
      /\ caller = "pad" => pc' = "tail" /\ pos' = pos + 1 /\ restored' = restored
      /\ caller = "close" => pc' = "idle"
  BY <1>1 DEF VerifySucceeds, Written, Done, End
<1>3. Rank' = Rank /\ Want' = Want /\ Rank[pos + 1] = Rank[pos] + 1 /\ Rank[pos] \in Nat
  BY <1>1, Same DEF Blocks
<1>4. ~restored /\ out = <<>> /\ (caller = "close" => padFailed)
  BY <1>1 DEF Handed, Forward, InBlock
<1>5. ~padFailed => \A b \in skipped : b < pos
  BY <1>1 DEF Forward, InBlock
<1>6. Handed'
  BY <1>2, <1>1 DEF Handed, InBlock
<1>7. Forward'
  BY <1>1, <1>2, <1>4, <1>5 DEF Forward, InBlock
<1>8. Copied'
  BY <1>1, <1>2, <1>4 DEF Copied, Saved
<1>9. Laid'
  <2> SUFFICES ASSUME Clean'
               PROVE  /\ pc' = "more" => Exact(offset)' /\ Down' = Start[Rank'[offset']]
                      /\ InBlock' => Exact(pos)' /\ Down' = Start[Rank'[pos']]
                      /\ pc' = "tail" => Exact(pos)' /\ Start[Rank'[pos']] >= size'
                      /\ restored' => Exact(Last + 1)'
    BY DEF Laid
  <2>1. skipped = {} /\ ~padFailed /\ caller # "close"
    <3>1. pos \notin skipped
      BY <1>1, <1>5 DEF Clean
    <3> QED
      BY <1>1, <1>4, <3>1 DEF Clean
  <2>2. Exact(pos) /\ Down = Start[Rank[pos]]
    BY <1>1, <2>1 DEF Laid, Clean, InBlock
  <2> DEFINE k == Rank[pos]
  <2>3. /\ Start[k] = Down /\ Start[k + 1] = Start[k] + Units /\ k \in Nat
        /\ Want[k] = IF Start[k] >= size THEN Erased
                     ELSE [first |-> Start[k] + 1, n |-> IF Start[k + 1] <= size THEN Units ELSE size - Start[k]]
    BY <1>3, <2>2 DEF Want
  <2>4. CASE caller \in {"buffer", "direct"}
    <3>1. Down + Units <= size /\ Down' = Down + Units /\ Data = [first |-> Down + 1, n |-> Units]
      BY <1>1, <2>4 DEF Calls, Handed, InBlock, Down, Data
    <3>2. flash'[pos] = Want[k]
      BY <1>1, <2>3, <3>1
    <3>3. \A b \in Blocks \ marked : b < pos + 1 => flash'[b] = Want[Rank[b]]
      BY <1>1, <2>2, <3>2 DEF Exact, Blocks
    <3>4. pc' = "more" /\ ~InBlock' /\ ~restored'
      BY <1>2, <1>4, <2>4 DEF InBlock
    <3>5. Exact(offset)'
      BY <1>1, <1>3, <3>3 DEF Exact
    <3>6. Down' = Start[Rank'[offset']]
      BY <1>1, <1>3, <2>3, <3>1
    <3> QED
      BY <3>4, <3>5, <3>6
  <2>5. CASE caller = "pad"
    <3>1. /\ Down + stored = size /\ stored > 0 /\ stored < Units
          /\ Data = [first |-> Down + 1, n |-> size - Down]
      BY <1>1, <2>5 DEF Calls, Handed, InBlock, Down, Data
    <3>2. flash'[pos] = Want[k]
      BY <1>1, <2>3, <3>1
    <3>3. \A b \in Blocks \ marked : b < pos + 1 => flash'[b] = Want[Rank[b]]
      BY <1>1, <2>2, <3>2 DEF Exact, Blocks
    <3> QED
      BY <1>1, <1>2, <1>3, <1>4, <2>3, <2>5, <3>1, <3>3 DEF Exact, InBlock
  <2> QED
    BY <1>1, <2>1, <2>4, <2>5
<1> QED
  BY <1>6, <1>7, <1>8, <1>9

\* The rest of the partition is erased, which is what it ought to hold.
LEMMA EraseClear == IInv /\ Clear /\ (EraseTail \/ TailErased) => Clear'
<1> SUFFICES ASSUME IInv, Clear, EraseTail \/ TailErased PROVE Clear'
  OBVIOUS
<1> USE Facts, AtPos DEF IInv, Clear
<1>1. CASE EraseTail
  <2>1. /\ pc = "tail" /\ pc' = "tail" /\ pos \in Blocks /\ pos' = pos + 1
        /\ UNCHANGED <<marked, stream, padFailed, restored, reader, caller>>
        /\ \/ pos \in marked /\ UNCHANGED <<flash, skipped>>
           \/ pos \notin marked /\ Put(pos, Erased) /\ UNCHANGED skipped
           \/ skipped' = skipped \cup {pos}
    BY <1>1 DEF EraseTail, Blocks
  <2>2. Handed' /\ Forward' /\ Copied'
    BY <2>1 DEF Handed, Forward, Copied, InBlock, reader
  <2>3. Laid'
    <3> SUFFICES ASSUME Clean' PROVE Exact(pos)' /\ Start[Rank'[pos']] >= size'
      BY <2>1, <2>2 DEF Laid, InBlock, Forward
    <3>1. Clean /\ Rank' = Rank /\ Want' = Want /\ size' = size
      BY <2>1, Same DEF Clean, stream
    <3>2. Exact(pos) /\ Start[Rank[pos]] >= size /\ Rank[pos] \in Nat
      BY <2>1, <3>1 DEF Laid, Blocks
    <3>3. CASE pos \in marked /\ UNCHANGED flash
      BY <2>1, <3>1, <3>2, <3>3 DEF Exact, Blocks
    <3>4. CASE pos \notin marked /\ Put(pos, Erased)
      <4>1. Want[Rank[pos]] = Erased
        BY <3>2 DEF Want
      <4>2. flash' = [flash EXCEPT ![pos] = Erased] /\ flash'[pos] = Erased
        BY <2>1, <3>4 DEF Put, TypeOK
      <4>3. \A b \in Blocks \ marked : b < pos + 1 => flash'[b] = Want[Rank[b]]
        BY <2>1, <3>2, <4>1, <4>2 DEF Exact, TypeOK
      <4>4. Rank[pos + 1] = Rank[pos] + 1 /\ Start[Rank[pos] + 1] = Start[Rank[pos]] + Units
            /\ Start[Rank[pos]] \in Nat
        BY <2>1, <3>2, <3>4
      <4> QED
        BY <2>1, <3>1, <3>2, <4>3, <4>4 DEF Exact
    <3> QED
      BY <2>1, <3>3, <3>4 DEF Clean
  <2> QED
    BY <2>2, <2>3
<1>2. CASE TailErased
  <2>1. /\ pc = "tail" /\ pc' = "idle" /\ pos = Last + 1 /\ restored' = TRUE
        /\ UNCHANGED <<flash, marked, stream, skipped, padFailed, reader>>
    BY <1>2 DEF TailErased, Done, End, device, TypeOK
  <2>2. Rank' = Rank /\ Want' = Want
    BY <2>1, Same DEF stream
  <2>3. Handed' /\ Forward' /\ Copied'
    BY <2>1 DEF Handed, Forward, Copied, InBlock, reader, Saved
  <2>4. Laid'
    BY <2>1, <2>2 DEF Laid, InBlock, Exact, Clean
  <2> QED
    BY <2>3, <2>4
<1> QED
  BY <1>1, <1>2

\* A backup reads the blocks without a mark one after another.
LEMMA BackupClear == IInv /\ Clear /\ (StartBackup \/ Backup) => Clear'
<1> SUFFICES ASSUME IInv, Clear, StartBackup \/ Backup PROVE Clear'
  OBVIOUS
<1> USE Facts, AtPos DEF IInv, Clear
<1>1. /\ UNCHANGED <<flash, marked, stream, history>> /\ pc \in {"idle", "read"} /\ pc' \in {"idle", "read"}
  BY DEF StartBackup, Backup, SkipBlock, ReadBlock, ReadBlockWhole, EndBackup, BackupFails, End, device
<1>2. Rank' = Rank /\ Want' = Want
  BY <1>1, Same DEF stream
<1>3. Handed' /\ Forward'
  BY <1>1 DEF Handed, Forward, InBlock, history
<1>4. Laid'
  BY <1>1, <1>2 DEF Laid, InBlock, Exact, Clean, history
<1>5. Copied'
  <2> SUFFICES ASSUME restored, Clean, unread' = {}
               PROVE  /\ pc' = "read" => CopiedTo(pos)'
                      /\ Saved' => CopiedTo(Last + 1)'
    BY <1>1 DEF Copied, Clean, history
  <2>1. Exact(Last + 1)
    BY DEF Laid
  <2>2. CASE StartBackup
    BY <1>2, <2>2 DEF StartBackup, CopiedTo, Saved
  <2>3. CASE SkipBlock
    <3>1. pos \in marked /\ UNCHANGED <<unread, out>> /\ pos' = pos + 1 /\ pc = "read" /\ pc' = "read"
          /\ pos \in Blocks
      BY <2>3 DEF SkipBlock, Blocks
    <3> QED
      BY <1>2, <3>1 DEF Copied, CopiedTo, Saved
  <2>4. CASE ReadBlock
    <3>1. /\ pos \notin marked /\ pos \in Blocks /\ out' = Append(out, flash[pos]) /\ pos' = pos + 1
          /\ pc = "read" /\ pc' = "read" /\ unread = {}
      BY <2>4 DEF ReadBlock, ReadBlockWhole, Blocks
    <3>2. CopiedTo(pos) /\ flash[pos] = Want[Rank[pos]] /\ Rank[pos + 1] = Rank[pos] + 1
      BY <2>1, <3>1 DEF Copied, Exact, Blocks
    <3>3. /\ Len(out') = Len(out) + 1 /\ Len(out) \in Nat /\ out'[Len(out) + 1] = flash[pos]
          /\ \A i \in 1 .. Len(out) : out'[i] = out[i]
      BY <3>1 DEF TypeOK
    <3>4. \A i \in 1 .. Len(out') : out'[i] = Want[i - 1]
      <4> SUFFICES ASSUME NEW i \in 1 .. Len(out') PROVE out'[i] = Want[i - 1]
        OBVIOUS
      <4>1. CASE i \in 1 .. Len(out)
        BY <3>2, <3>3, <4>1 DEF CopiedTo
      <4>2. CASE i = Len(out) + 1
        BY <3>2, <3>3, <4>2 DEF CopiedTo
      <4> QED
        BY <3>3, <4>1, <4>2
    <3> QED
      BY <1>2, <3>1, <3>2, <3>3, <3>4 DEF CopiedTo, Saved
  <2>5. CASE EndBackup
    <3>1. pc = "read" /\ pc' = "idle" /\ out' = out
          /\ \/ pos > Last /\ UNCHANGED unread
             \/ pos <= Last /\ unread' = unread \cup ((pos .. Last) \ marked)
      BY <2>5 DEF EndBackup, End
    <3>2. CopiedTo(pos)
      BY <3>1 DEF Copied
    <3>3. Rank[pos] = Rank[Last + 1]
      <4>1. CASE pos > Last
        BY <4>1 DEF TypeOK
      <4>2. CASE pos <= Last
        <5>1. (pos .. Last) \ marked = {}
          BY <3>1, <4>2
        <5>2. (0 .. pos - 1) \ marked = (0 .. (Last + 1) - 1) \ marked
          BY <4>2, <5>1
        <5>3. pos \in 0 .. Last + 1 /\ Last + 1 \in 0 .. Last + 1
          BY <4>2
        <5> QED
          BY <5>2, <5>3 DEF Rank
      <4> QED
        BY <4>1, <4>2
    <3> QED
      BY <1>2, <3>1, <3>2, <3>3 DEF CopiedTo
  <2>6. CASE BackupFails
    BY <2>6 DEF BackupFails, End, Saved
  <2> QED
    BY <2>2, <2>3, <2>4, <2>5, <2>6 DEF Backup
<1> QED
  BY <1>3, <1>4, <1>5

\* The phone goes off, perhaps while a backup reads.
LEMMA PowerClear == IInv /\ Clear /\ PowerLoss => Clear'
<1> SUFFICES ASSUME IInv, Clear, PowerLoss PROVE Clear'
  OBVIOUS
<1> USE Facts, AtPos DEF IInv, Clear
<1>1. /\ pc # "idle" /\ pc' = "idle" /\ out' = <<>> /\ UNCHANGED <<marked, stream, history>>
      /\ pc = "read" => UNCHANGED flash
  BY DEF PowerLoss, End
<1>2. Rank' = Rank /\ Want' = Want
  BY <1>1, Same DEF stream
<1>3. restored => pc = "read"
  BY <1>1 DEF Forward, InBlock, TypeOK
<1>4. Handed' /\ Forward' /\ Copied'
  BY <1>1 DEF Handed, Forward, Copied, InBlock, Saved
<1>5. Laid'
  BY <1>1, <1>2, <1>3 DEF Laid, InBlock, Exact, Clean, history
<1> QED
  BY <1>4, <1>5

\* A clean restore is on the flash, and what is read back is what is there.
LEMMA ClearInvariant == Spec => []Clear
<1>1. Init => Clear
  BY DEF Init, Clear, Handed, Forward, Laid, Copied, InBlock, Saved
<1>2. IInv /\ Clear /\ [Next]_vars => Clear'
  <2> SUFFICES ASSUME IInv, Clear, [Next]_vars PROVE Clear'
    OBVIOUS
  <2>1. CASE UNCHANGED vars
    <3>1. Rank' = Rank /\ Want' = Want
      BY <2>1, Same DEF vars, device, stream
    <3>2. Handed' /\ Forward'
      BY <2>1 DEF vars, device, stream, history, reader, Clear, Handed, Forward, InBlock
    <3>3. Laid'
      BY <2>1, <3>1 DEF vars, device, stream, history, reader, Clear, Laid, Exact, Clean, InBlock, Down
    <3>4. Copied'
      BY <2>1, <3>1 DEF vars, device, stream, history, reader, Clear, Copied, CopiedTo, Clean, Saved
    <3> QED
      BY <3>2, <3>3, <3>4 DEF Clear
  <2>2. CASE Next
    BY <2>2, StreamClear, BlockClear, WrittenClear, EraseClear, BackupClear, PowerClear DEF Next
  <2> QED
    BY <2>1, <2>2
<1> QED
  BY <1>1, <1>2, MtdInductive, PTL DEF Spec

\* What cmd_mtd_restore_raw_partition said it wrote comes out of
\* cmd_mtd_backup_raw_partition as the image and then erased blocks, unless a
\* failure was passed over in silence.
THEOREM ImageComesBack == Spec => []SavedIsWritten
<1>1. IInv /\ Clear => SavedIsWritten
  <2> SUFFICES ASSUME IInv, Clear, restored, Saved, ~padFailed, skipped = {}, unread = {}
               PROVE  /\ Len(out) = Cardinality(Blocks \ marked)
                      /\ \A i \in 1 .. Len(out) :
                            out[i] = IF (i - 1) * Units >= size THEN Erased
                                     ELSE [first |-> (i - 1) * Units + 1,
                                           n |-> IF i * Units <= size THEN Units ELSE size - (i - 1) * Units]
    BY DEF SavedIsWritten
  <2>1. Len(out) = Cardinality(Blocks \ marked) /\ \A i \in 1 .. Len(out) : out[i] = Want[i - 1]
    BY Counting DEF Clear, Copied, CopiedTo, Clean
  <2>2. ASSUME NEW i \in 1 .. Len(out)
        PROVE  Want[i - 1] = IF (i - 1) * Units >= size THEN Erased
                             ELSE [first |-> (i - 1) * Units + 1,
                                   n |-> IF i * Units <= size THEN Units ELSE size - (i - 1) * Units]
    <3>1. i - 1 \in Nat /\ i \in Nat /\ (i - 1) + 1 = i
      BY <2>1, Counting
    <3>2. Start[i - 1] = (i - 1) * Units /\ Start[(i - 1) + 1] = i * Units
      BY <3>1 DEF Start
    <3> QED
      BY <3>1, <3>2 DEF Want
  <2> QED
    BY <2>1, <2>2
<1> QED
  BY <1>1, MtdInductive, ClearInvariant, PTL
=============================================================================
