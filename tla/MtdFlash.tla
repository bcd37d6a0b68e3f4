------------------------------ MODULE MtdFlash ------------------------------
(* mtdutils/mtdutils.c: a raw image on NAND flash, written, erased and read *)
(* back block by block around the blocks that are marked bad or that fail.  *)
(* The three commands are those flashutils.c calls, one at a time; a write  *)
(* context is modelled as long as a command uses it.                        *)
(*                                                                          *)
(* The data of an image are its units, numbered from 1; a block holds Units *)
(* of them.  What a block holds is [first, n]: n units of the image from    *)
(* the unit first on, the rest zeros.  The ioctls MEMGETBADBLOCK and        *)
(* ECCGETSTATS answer; an answer that fails counts as a failure below.      *)
EXTENDS Naturals, Sequences, FiniteSets

CONSTANTS
    Last,       \* the blocks of the partition are 0 .. Last
    Units,      \* the units of an erase block
    Chunk,      \* the most units one fread returns (BUFSIZ)
    MaxUnits,   \* bound: the longest image
    MaxFaults   \* bound: failures of the device or of a file

ASSUME MtdAssumption ==
    /\ Last \in Nat /\ Units \in Nat \ {0} /\ Chunk \in Nat \ {0}
    /\ MaxUnits \in Nat /\ MaxFaults \in Nat

Blocks  == 0 .. Last
Content == [first : 0 .. MaxUnits + 1, n : 0 .. Units]
Erased  == [first |-> 0, n |-> 0]
Other   == [first |-> 0, n |-> 1]   \* of no use: old data, or half a write

VARIABLES
    flash,      \* Blocks -> what the block holds
    marked,     \* the blocks the driver calls bad (MEMGETBADBLOCK)
    pc,         \* the next step of the command that runs
    caller,     \* what called write_block: "buffer", "direct", "pad", "close"
    pos,        \* its loop's block; the block that is read or erased next
    offset,     \* the offset of the open device, in blocks
    try,        \* attempts on this block
    size,       \* the units of the image
    got,        \* those fread has returned
    taken,      \* those of them that mtd_write_data has taken
    stored,     \* those of them that wait in the buffer
    result,     \* of the last command: "ok", "failed" or "none"
    out,        \* what the backup has saved since the last write, block by block
    placed,     \* history: the blocks that hold the image
    skipped,    \* history: unmarked blocks that could not be written or erased
    padFailed,  \* history: the last, incomplete block found no place
    restored,   \* history: the last restore or erase has said "ok"
    unread,     \* history: unmarked blocks the backup went past
    faults      \* failures so far

device  == <<flash, marked, faults>>
stream  == <<size, got, taken, stored>>
history == <<placed, skipped, padFailed, restored>>
reader  == <<out, unread>>
vars == <<device, stream, history, reader, pc, caller, pos, offset, try, result>>

Fault == faults < MaxFaults /\ faults' = faults + 1
Fine  == UNCHANGED faults
Put(b, c) == flash' = [flash EXCEPT ![b] = c]

TypeOK ==
    /\ flash \in [Blocks -> Content]
    /\ marked \subseteq Blocks
    /\ pc \in {"idle", "more", "check", "erase", "program", "verify", "abandon", "tail", "read"}
    /\ caller \in {"buffer", "direct", "pad", "close"}
    /\ pos \in 0 .. Last + 1 /\ offset \in 0 .. Last + 1 /\ try \in 0 .. 1
    /\ size \in 0 .. MaxUnits /\ got \in 0 .. size /\ taken \in 0 .. got
    /\ stored \in 0 .. Units /\ stored <= taken
    /\ result \in {"none", "ok", "failed"}
    /\ out \in Seq(Content)
    /\ placed \subseteq Blocks /\ skipped \subseteq Blocks /\ unread \subseteq Blocks
    /\ padFailed \in BOOLEAN /\ restored \in BOOLEAN
    /\ faults \in 0 .. MaxFaults

Init ==
    /\ flash = [b \in Blocks |-> Other]
    /\ marked \in SUBSET Blocks
    /\ pc = "idle" /\ caller = "buffer" /\ result = "none"
    /\ pos = 0 /\ offset = 0 /\ try = 0
    /\ size = 0 /\ got = 0 /\ taken = 0 /\ stored = 0
    /\ placed = {} /\ skipped = {} /\ padFailed = FALSE /\ restored = FALSE
    /\ out = <<>> /\ unread = {}
    /\ faults = 0

End(r) == pc' = "idle" /\ result' = r
Done   == End("ok") /\ restored' = TRUE

----------------------------------------------------------------------------
(* cmd_mtd_restore_raw_partition: a new write context at the first block.   *)
StartRestore ==
    /\ pc = "idle"
    /\ size' \in 0 .. MaxUnits /\ got' = 0 /\ taken' = 0 /\ stored' = 0
    /\ pc' = "more" /\ offset' = 0 /\ result' = "none"
    /\ placed' = {} /\ skipped' = {} /\ padFailed' = FALSE /\ restored' = FALSE
    /\ out' = <<>> /\ unread' = {}
    /\ UNCHANGED <<device, caller, pos, try>>

(* fread of a chunk; a read error of the file looks like its end. *)
Fread ==
    /\ pc = "more" /\ taken = got /\ stored < Units /\ got < size
    /\ \E n \in 1 .. Chunk : got + n <= size /\ got' = got + n
    /\ UNCHANGED <<device, history, reader, pc, caller, pos, offset, try, size, taken, stored, result>>

(* mtd_write_data, its first part: what is left of the chunk goes to the    *)
(* buffer if the buffer has data or the rest is less than a block.          *)
CopyUpTo(room) == LET rest == got - taken IN IF rest < room THEN rest ELSE room
Coalesce ==
    /\ pc = "more" /\ taken < got /\ stored < Units
    /\ stored > 0 \/ got - taken < Units
    /\ LET copy == CopyUpTo(Units - stored) IN taken' = taken + copy /\ stored' = stored + copy
    /\ UNCHANGED <<device, history, reader, pc, caller, pos, offset, try, size, got, result>>

WriteBlock(who) ==
    /\ caller' = who /\ pos' = offset /\ pc' = "check"
    /\ UNCHANGED <<device, stream, history, reader, offset, try, result>>

(* A full buffer is written; whole blocks go to the device directly. *)
WriteBuffered == pc = "more" /\ stored = Units /\ WriteBlock("buffer")
WriteDirect   == pc = "more" /\ stored = 0 /\ got - taken >= Units /\ WriteBlock("direct")

(* The file is at its end.  mtd_erase_blocks(ctx, -1) pads and writes what  *)
(* the buffer still has, then erases the rest of the partition.             *)
AtEnd  == pc = "more" /\ taken = got /\ got = size /\ stored < Units
EndPad == AtEnd /\ stored > 0 /\ WriteBlock("pad")
EndTail ==
    /\ AtEnd /\ stored = 0
    /\ pc' = "tail" /\ pos' = offset
    /\ UNCHANGED <<device, stream, history, reader, caller, offset, try, result>>

----------------------------------------------------------------------------
(* write_block: the image's units that go down now. *)
Data == IF caller = "direct" THEN [first |-> taken + 1, n |-> Units]
                             ELSE [first |-> taken - stored + 1, n |-> stored]

SkipMarked ==
    /\ pc = "check" /\ pos <= Last /\ pos \in marked
    /\ pos' = pos + 1
    /\ UNCHANGED <<device, stream, history, reader, pc, caller, offset, try, result>>

Attempt ==
    /\ pc = "check" /\ pos <= Last /\ pos \notin marked
    /\ pc' = "erase" /\ try' = 0
    /\ UNCHANGED <<device, stream, history, reader, caller, pos, offset, result>>

Again == IF try = 0 THEN pc' = "erase" /\ try' = 1 ELSE pc' = "abandon" /\ UNCHANGED try

EraseBlock ==
    /\ pc = "erase"
    /\ \/ Put(pos, Erased) /\ pc' = "program" /\ Fine /\ UNCHANGED try
       \/ Put(pos, Other) /\ Again /\ Fault
    /\ placed' = placed \ {pos}
    /\ UNCHANGED <<marked, stream, skipped, padFailed, restored, reader, caller, pos, offset, result>>

(* The result of write() is only logged: the comparison decides. *)
Program ==
    /\ pc = "program" /\ pc' = "verify"
    /\ \/ Put(pos, Data) /\ Fine
       \/ Put(pos, Other) /\ Fault
    /\ UNCHANGED <<marked, stream, history, reader, caller, pos, offset, try, result>>

(* What write_block's callers do with its success. *)
Written ==
    /\ stored' = IF caller = "direct" THEN stored ELSE 0
    /\ taken' = IF caller = "direct" THEN taken + Units ELSE taken
    /\ CASE caller \in {"buffer", "direct"} -> pc' = "more" /\ UNCHANGED <<pos, result, restored>>
         [] caller = "pad"   -> pc' = "tail" /\ pos' = pos + 1 /\ UNCHANGED <<result, restored>>
         [] caller = "close" -> Done /\ UNCHANGED pos
    /\ placed' = placed \cup {pos} /\ skipped' = skipped \ {pos}
    /\ UNCHANGED <<size, got, padFailed, caller, try>>

VerifyNothing ==
    /\ pc = "verify" /\ Fine /\ Written /\ offset' = pos + 1
    /\ UNCHANGED <<flash, marked, reader>>
VerifySucceeds ==
    /\ pc = "verify" /\ flash[pos] = Data /\ Fine /\ Written /\ offset' = pos + 1
    /\ UNCHANGED <<flash, marked, reader>>
VerifyFails ==
    /\ pc = "verify" /\ Again
    /\ \/ flash[pos] # Data /\ Fine /\ offset' = pos + 1
       \/ Fault /\ offset' \in {pos, pos + 1}       \* the block cannot be read
    /\ UNCHANGED <<flash, marked, stream, history, reader, caller, pos, result>>

(* After two attempts the block is erased once more and left behind.  It is *)
(* noted in bad_block_offsets, and not marked on the device.                *)
Abandon ==
    /\ pc = "abandon"
    /\ \/ Put(pos, Erased) /\ Fine
       \/ Put(pos, Other) /\ Fault
    /\ skipped' = skipped \cup {pos}
    /\ pos' = pos + 1 /\ pc' = "check"
    /\ UNCHANGED <<marked, stream, placed, padFailed, restored, reader, caller, offset, try, result>>

(* The partition is full: ENOSPC.  mtd_write_data fails and the restore     *)
(* with it.  mtd_erase_blocks fails too, but the restore only logs that and *)
(* calls mtd_write_close, which tries the last block once more from where   *)
(* the device is; its failure is logged as well, and the restore succeeds.  *)
NoSpace ==
    /\ pc = "check" /\ pos > Last
    /\ CASE caller \in {"buffer", "direct"} ->
                End("failed") /\ UNCHANGED <<caller, pos, padFailed, restored>>
         [] caller = "pad" ->
                caller' = "close" /\ pos' = offset /\ padFailed' = TRUE /\ UNCHANGED <<pc, result, restored>>
         [] caller = "close" ->
                Done /\ UNCHANGED <<caller, pos, padFailed>>
    /\ UNCHANGED <<device, stream, placed, skipped, reader, offset, try>>

----------------------------------------------------------------------------
(* mtd_erase_blocks, its second part, and mtd_write_close with nothing left *)
(* to write.  An erase that fails is only logged.                           *)
EraseTail ==
    /\ pc = "tail" /\ pos <= Last
    /\ \/ pos \in marked /\ Fine /\ UNCHANGED <<flash, skipped>>
       \/ pos \notin marked /\ Put(pos, Erased) /\ Fine /\ UNCHANGED skipped
       \/ pos \notin marked /\ Put(pos, Other) /\ Fault /\ skipped' = skipped \cup {pos}
    /\ placed' = placed \ {pos}
    /\ pos' = pos + 1
    /\ UNCHANGED <<marked, stream, padFailed, restored, reader, pc, caller, offset, try, result>>

TailErased ==
    /\ pc = "tail" /\ pos > Last /\ Done
    /\ UNCHANGED <<device, stream, placed, skipped, padFailed, reader, caller, pos, offset, try>>

(* cmd_mtd_erase_raw_partition: mtd_erase_blocks(out, -1) and no more. *)
StartErase ==
    /\ pc = "idle"
    /\ size' = 0 /\ got' = 0 /\ taken' = 0 /\ stored' = 0
    /\ pc' = "tail" /\ pos' = 0 /\ offset' = 0 /\ result' = "none"
    /\ placed' = {} /\ skipped' = {} /\ padFailed' = FALSE /\ restored' = FALSE
    /\ out' = <<>> /\ unread' = {}
    /\ UNCHANGED <<device, caller, try>>

----------------------------------------------------------------------------
(* cmd_mtd_backup_raw_partition: a unit at a time through the buffer that   *)
(* read_block fills, so block by block.                                     *)
StartBackup ==
    /\ pc = "idle"
    /\ pc' = "read" /\ pos' = 0 /\ result' = "none" /\ out' = <<>> /\ unread' = {}
    /\ UNCHANGED <<device, stream, history, caller, offset, try>>

(* read_block goes on to the next block over a failed read, ECC errors and  *)
(* a mark.                                                                  *)
SkipBlock ==
    /\ pc = "read" /\ pos <= Last
    /\ \/ pos \in marked /\ Fine /\ UNCHANGED unread
       \/ pos \notin marked /\ Fault /\ unread' = unread \cup {pos}
    /\ pos' = pos + 1
    /\ UNCHANGED <<flash, marked, stream, history, pc, caller, offset, try, result, out>>

ReadBlockWhole ==
    /\ pc = "read" /\ pos <= Last
    /\ out' = Append(out, flash[pos]) /\ pos' = pos + 1
    /\ UNCHANGED <<device, stream, history, pc, caller, offset, try, result, unread>>
ReadBlock == pos \notin marked /\ ReadBlockWhole

(* Its -1, at the end or when ECCGETSTATS fails, ends the backup's loop.    *)
EndBackup ==
    /\ pc = "read"
    /\ \/ pos > Last /\ Fine /\ UNCHANGED unread
       \/ pos <= Last /\ Fault /\ unread' = unread \cup ((pos .. Last) \ marked)
    /\ End("ok")
    /\ UNCHANGED <<flash, marked, stream, history, caller, pos, offset, try, out>>

(* The file cannot be written or closed: it is removed. *)
BackupFails ==
    /\ pc = "read" /\ Fault /\ End("failed") /\ out' = <<>>
    /\ UNCHANGED <<flash, marked, stream, history, caller, pos, offset, try, unread>>

(* The phone goes off: the block that was erased or written is anything.    *)
PowerLoss ==
    /\ pc # "idle" /\ Fault
    /\ IF pc \in {"erase", "program", "abandon"} \/ (pc = "tail" /\ pos \in Blocks \ marked)
       THEN Put(pos, Other) ELSE UNCHANGED flash
    /\ End("none") /\ out' = <<>>
    /\ UNCHANGED <<marked, stream, history, caller, pos, offset, try, unread>>

Restore == Fread \/ Coalesce \/ WriteBuffered \/ WriteDirect \/ EndPad \/ EndTail
Block   == SkipMarked \/ Attempt \/ EraseBlock \/ Program \/ VerifySucceeds \/ VerifyFails
           \/ Abandon \/ NoSpace
Backup  == SkipBlock \/ ReadBlock \/ EndBackup \/ BackupFails

Next ==
    \/ StartRestore \/ Restore \/ Block \/ EraseTail \/ TailErased
    \/ StartErase \/ StartBackup \/ Backup \/ PowerLoss

Spec == Init /\ [][Next]_vars

----------------------------------------------------------------------------
Carries(b, u) == flash[b].first <= u /\ u < flash[b].first + flash[b].n

(* At every moment, a power loss included, what has left the buffer stands  *)
(* on the flash whole and in order: every unit in a block of the image, the *)
(* blocks ascending with the units, and between them only blocks that are   *)
(* marked or could not be written (write_block, mtd_write_data).            *)
Down == taken - stored
WrittenInOrder ==
    /\ \A u \in 1 .. Down : \E b \in placed : Carries(b, u)
    /\ \A b, c \in placed : b < c => flash[b].first + flash[b].n <= flash[c].first
    /\ \A c \in placed : \A b \in 0 .. c - 1 : b \in placed \cup marked \cup skipped

(* What a restore that said "ok" wrote comes out of a backup that said "ok" *)
(* as the image and then erased blocks, unless a failure was passed over in *)
(* silence: a block left behind without a mark, a last block without a      *)
(* place, a block that could not be read.  The two commands agree on which  *)
(* blocks they go past (read_block, write_block, mtd_erase_blocks).         *)
Saved == pc = "idle" /\ result = "ok" /\ out # <<>>
SavedIsWritten ==
    restored /\ Saved /\ ~padFailed /\ skipped = {} /\ unread = {} =>
        /\ Len(out) = Cardinality(Blocks \ marked)
        /\ \A i \in 1 .. Len(out) :
              out[i] = IF (i - 1) * Units >= size THEN Erased
                       ELSE [first |-> (i - 1) * Units + 1,
                             n |-> IF i * Units <= size THEN Units ELSE size - (i - 1) * Units]
=============================================================================
