------------------------------ MODULE Nandroid ------------------------------
(* Nandroid backup and restore: nandroid.cpp over the volumes of roots.cpp  *)
(* and the dedupe store.  One process carries out one operation at a time;  *)
(* what is hard is that any step may fail or be the last before the power   *)
(* goes, that some failures are not reported, and that all backups share    *)
(* one store of blobs.                                                      *)
(*                                                                          *)
(* Left out: /wimax, /sd-ext and .android_secure, which no item of the      *)
(* restore menu asks for or which follow the pattern of /cache; the         *)
(* datamedia layouts; mkyaffs2image and tgz images, which are like tar.     *)
(* What an operation has written is on the card by the time the next one    *)
(* begins; until then, or the sync at its end, a power loss may take it.    *)
EXTENDS Volumes, DedupeStore, Sequences, SequencesExt

CONSTANTS
    Backups,    \* the backup directories there can be
    MaxFaults   \* bound: errors and power losses

Formats == {"tar", "dup"}

(* The order in which both functions take the partitions; a restore has no   *)
(* recovery.                                                                *)
Order == <<"boot", "boot1", "recovery", "system", "system1", "data", "datadata", "cache">>
Position(p) == CHOOSE i \in DOMAIN Order : Order[i] = p
First(ps) == CHOOSE p \in ps : \A q \in ps : Position(p) <= Position(q)
Restorable == Parts \ {"recovery"}

ASSUME OrderAssumption == Parts \subseteq ToSet(Order)
ASSUME FaultsAssumption == MaxFaults \in Nat

(* An item of the backup and restore menus: everything, or one partition.   *)
Items == {"all"} \cup (Restorable \ {"datadata"})

VARIABLES
    backups,    \* what each directory there is holds
    settings,   \* the user's choice: backup format, MD5 on or off
    gcDone,     \* nandroid_backup_bitfield: this process has collected
    act,        \* the operation (see Actions)
    faults,     \* number of faults so far
    origin,     \* history: directory -> what each partition in it held when
                \*   it was backed up, but for those where an error was hidden
    before,     \* history: what the partitions held when the restore began
    mixed       \* history: a newer recovery has used the same card

vars == <<content, mounted, blobs, short, backups, settings, gcDone, act, faults, origin, before, mixed>>
store == <<blobs, short>>
disk == <<content, store, backups>>
history == <<origin, before, mixed>>

NewImage(fmt, files, tail) == [fmt |-> fmt, files |-> files, tail |-> tail, md5 |-> FALSE]
NoImage == NewImage("none", {}, "whole")
Images  == [fmt : {"none", "raw"} \cup Formats, files : SUBSET (Files \cup Pieces), tail : Tails, md5 : BOOLEAN]
Backup  == [item : Items, finished : BOOLEAN, broken : BOOLEAN, image : [Parts -> Images]]

(* An operation: its step, its backup, the partitions and files to come,    *)
(* whether all went well; the blobs it has stored, which nobody has synced; *)
(* and, as a history, the partitions whose restore lost something and said  *)
(* nothing.  A backup's "finished" and "broken" are history too: the first  *)
(* that it was reported complete, the second that a power loss cut it off.  *)
Actions == [op : {"none", "backup", "restore", "gc"},
            pc : {"idle", "next", "gc", "store", "close", "write", "mount", "extract"},
            b : Backups \cup {"none"}, todo : SUBSET Parts, left : SUBSET (Files \cup Pieces), ok : BOOLEAN,
            fresh : SUBSET Files, hushed : SUBSET Parts]
Nothing == [op |-> "none", pc |-> "idle", b |-> "none", todo |-> {}, left |-> {}, ok |-> TRUE,
            fresh |-> {}, hushed |-> {}]

Idle == act.pc = "idle"
At(pc, op) == act.pc = pc /\ act.op = op

(* The partition an operation is at, and its image. *)
part == First(act.todo)
image == backups[act.b].image[part]

TypeOK ==
    /\ VolumesTypeOK
    /\ blobs \subseteq Files /\ short \subseteq Files
    /\ DOMAIN backups \subseteq Backups
    /\ \A b \in DOMAIN backups : backups[b] \in Backup
    /\ settings \in [format : Formats, md5 : BOOLEAN]
    /\ gcDone \in BOOLEAN
    /\ act \in Actions
    /\ ~Idle /\ act.op # "gc" => act.b \in DOMAIN backups
    /\ act.pc \in {"store", "close", "extract"} => part \in mounted
    /\ act.pc \in {"write", "mount", "extract"} => act.op = "restore"
    /\ faults \in 0..MaxFaults

(* What the process started with, and an operation that has come to an end. *)
Init ==
    /\ content = [p \in Parts |-> Holds(p)]
    /\ mounted = {} /\ blobs = {} /\ short = {}
    /\ backups = <<>>
    /\ settings \in [format : Formats, md5 : BOOLEAN]
    /\ gcDone = FALSE /\ act = Nothing /\ faults = 0
    /\ origin = <<>> /\ before = <<>> /\ mixed = FALSE

With(f, x, v) == [y \in DOMAIN f \cup {x} |-> IF y = x THEN v ELSE f[y]]

Fault == faults < MaxFaults /\ faults' = faults + 1
End(ok) == act' = IF act.op = "restore" THEN [act EXCEPT !.pc = "idle", !.left = {}, !.ok = ok] ELSE Nothing
Goto(pc, left) == act' = [act EXCEPT !.pc = pc, !.left = left]
NextPartHushed == act' = [act EXCEPT !.pc = "next", !.todo = @ \ {part}, !.left = {}, !.hushed = @ \cup {part}]
NextPart == act' = [act EXCEPT !.pc = "next", !.todo = @ \ {part}, !.left = {}]
Rest == act' = Nothing /\ before' = <<>>
SetImage(i) == backups' = [backups EXCEPT ![act.b].image[part] = i]

-----------------------------------------------------------------------------
(* Backup *)

(* nandroid_backup, for everything, and nandroid_advanced_backup, for one   *)
(* partition: the directory is made.  Its name has the minute in it.        *)
StartBackup(b, item) ==
    /\ Idle /\ b \notin DOMAIN backups
    /\ backups' = With(backups, b, [item |-> item, finished |-> FALSE, broken |-> FALSE,
                                    image |-> [p \in Parts |-> NoImage]])
    /\ origin' = With(origin, b, <<>>)
    /\ act' = [Nothing EXCEPT !.op = "backup", !.pc = "next", !.b = b,
                              !.todo = IF item = "all" THEN Parts ELSE {item}]
    /\ before' = <<>>
    /\ UNCHANGED <<content, mounted, store, settings, gcDone, faults, mixed>>

(* backup_raw_partition: the partition is dumped in one go.  Its errors are *)
(* reported, but for those of the last buffer, which fclose meets.          *)
DumpRaw ==
    /\ At("next", "backup") /\ act.todo # {} /\ part \in Raw
    /\ \/ /\ SetImage(NewImage("raw", content[part], "whole"))
          /\ NextPart /\ UNCHANGED faults
          /\ origin' = [origin EXCEPT ![act.b] = With(@, part, content[part])]
       \/ \E got \in SUBSET content[part] :
            /\ SetImage(NewImage("raw", got, "cut"))
            /\ Fault /\ (End(FALSE) \/ NextPart) /\ UNCHANGED origin
    /\ UNCHANGED <<content, mounted, store, settings, gcDone, before, mixed>>

(* nandroid_backup_partition_extended, to the call of the handler: mount,   *)
(* and choose the handler.  The dedupe handler collects garbage first, once *)
(* in the life of the process.                                              *)
OpenImage ==
    /\ At("next", "backup") /\ act.todo # {} /\ part \notin Raw
    /\ origin' = [origin EXCEPT ![act.b] = With(@, part, content[part])]
    /\ \/ EnsureMounted(part) /\ UNCHANGED faults
          /\ IF settings.format = "dup" /\ ~gcDone
             THEN gcDone' = TRUE /\ Goto("gc", {}) /\ UNCHANGED backups
             ELSE /\ Goto("store", content[part])
                  /\ SetImage(NewImage(settings.format, {}, "cut"))
                  /\ UNCHANGED gcDone
       \/ CannotMount(part) /\ Fault /\ End(FALSE) /\ UNCHANGED <<gcDone, backups>>
    /\ UNCHANGED <<content, store, settings, before, mixed>>

(* The handler copies one file.  A dedupe blob is complete before its line. *)
StoreFile(f) ==
    /\ At("store", "backup") /\ f \in act.left
    /\ SetImage([image EXCEPT !.files = @ \cup {f}])
    /\ IF image.fmt = "dup"
       THEN StoreBlobs({f}) /\ act' = [act EXCEPT !.left = @ \ {f}, !.fresh = @ \cup ({f} \ blobs)]
       ELSE UNCHANGED store /\ Goto("store", act.left \ {f})
    /\ UNCHANGED <<content, mounted, settings, gcDone, faults, history>>

(* The handler has walked the whole directory. *)
StoreDone ==
    /\ At("store", "backup") /\ act.left = {}
    /\ Goto("close", {}) /\ SetImage([image EXCEPT !.tail = "whole"])
    /\ UNCHANGED <<content, mounted, store, settings, gcDone, faults, history>>

(* The handler gives up and says so: a full card, or a file or directory    *)
(* that dedupe cannot read, where the line it was writing stays torn.       *)
StoreFails ==
    /\ At("store", "backup") /\ Fault
    /\ act' = [act EXCEPT !.pc = "close", !.left = {}, !.ok = FALSE]
    /\ \E tail \in {"cut"} \cup IF image.fmt = "dup" THEN {"torn"} ELSE {} : SetImage([image EXCEPT !.tail = tail])
    /\ UNCHANGED <<content, mounted, store, settings, gcDone, history>>

(* An error that is lost: of a tar the pipeline reports split's status, so  *)
(* that a file tar cannot read is just missing; of a manifest nobody looks  *)
(* whether its lines reached the card.                                      *)
StoreMasked ==
    /\ At("store", "backup") /\ Fault
    /\ origin' = [origin EXCEPT ![act.b] = Restrict(@, DOMAIN @ \ {part})]
    /\ IF image.fmt = "tar"
       THEN \E f \in act.left : Goto("store", act.left \ {f}) /\ UNCHANGED <<backups, store>>
       ELSE /\ StoreBlobs(act.left)
            /\ act' = [act EXCEPT !.pc = "close", !.left = {}, !.fresh = @ \cup (act.left \ blobs)]
            /\ \E tail \in {"cut", "torn"}, got \in SUBSET content[part] :
                 got # content[part] /\ SetImage([image EXCEPT !.files = got, !.tail = tail])
    /\ UNCHANGED <<content, mounted, settings, gcDone, before, mixed>>

(* After the handler: the volume is unmounted, /cache of a full backup      *)
(* apart, and an error ends the backup.  A single partition gets its MD5    *)
(* files here, because the path of the backup has its name in it.           *)
CloseImage ==
    /\ At("close", "backup")
    /\ IF part = "cache" /\ backups[act.b].item = "all" THEN UNCHANGED mounted ELSE EnsureUnmounted(part)
    /\ IF act.ok
       THEN /\ NextPart
            /\ SetImage([image EXCEPT !.md5 = settings.md5 /\ backups[act.b].item # "all"])
       ELSE End(FALSE) /\ UNCHANGED backups
    /\ UNCHANGED <<content, store, settings, gcDone, faults, history>>

(* The end of the backup: MD5 files for a full one, and sync. *)
Signed(b) ==
    LET sign == b.item = "all" /\ settings.md5
    IN  [b EXCEPT !.finished = TRUE,
                  !.image = [p \in Parts |-> [b.image[p] EXCEPT !.md5 = @ \/ sign]]]

FinishBackup ==
    /\ At("next", "backup") /\ act.todo = {}
    /\ backups' = [backups EXCEPT ![act.b] = Signed(@)]
    /\ End(TRUE)
    /\ UNCHANGED <<content, mounted, store, settings, gcDone, faults, history>>

-----------------------------------------------------------------------------
(* dedupe gc, before the first dedupe image or from the menu *)

Manifests == {i \in {backups[b].image[p] : b \in DOMAIN backups, p \in Parts} : i.fmt = "dup"}

MenuGc ==
    /\ Idle
    /\ act' = [Nothing EXCEPT !.op = "gc", !.pc = "gc"]
    /\ before' = <<>>
    /\ UNCHANGED <<disk, mounted, settings, gcDone, faults, origin, mixed>>

(* The run of gc: every unused blob is removed, or some of them when the    *)
(* power fails or a file will not go; its result is not looked at.  A       *)
(* backup goes on with its image, the menu is back.                         *)
AfterGc ==
    IF act.op = "gc" THEN End(TRUE) /\ UNCHANGED backups
    ELSE /\ Goto("store", content[part])
         /\ SetImage(NewImage(settings.format, {}, "cut"))

GcBlobs ==
    /\ act.pc = "gc"
    /\ \E read \in GcReads(Manifests) : RemoveBlobs(Unused(read))
    /\ AfterGc
    /\ UNCHANGED <<content, mounted, settings, gcDone, faults, history>>

GcDies ==
    /\ act.pc = "gc" /\ GcCrashes(Manifests)
    /\ AfterGc
    /\ UNCHANGED <<content, mounted, store, settings, gcDone, faults, history>>

-----------------------------------------------------------------------------
(* Restore *)

(* The flags of nandroid_restore and the partitions each one covers. *)
Flags(item) == IF item = "all" THEN {"boot", "system", "data", "cache", "boot1", "system1"} ELSE {item}

FlagOf(p) == CASE p = "system1" -> "system" [] p = "datadata" -> "data" [] OTHER -> p

Asked(item) == {p \in Restorable : FlagOf(p) \in Flags(item)}

(* Check_MD5: there are files, and each has an MD5 file that matches it. *)
CheckMD5(b) ==
    LET present == {p \in Parts : backups[b].image[p].fmt # "none"}
    IN  present # {} /\ \A p \in present : backups[b].image[p].md5

StartRestore(b) ==
    /\ Idle /\ b \in DOMAIN backups
    /\ settings.md5 => CheckMD5(b)
    /\ act' = [Nothing EXCEPT !.op = "restore", !.pc = "next", !.b = b, !.todo = Asked(backups[b].item)]
    /\ before' = content
    /\ UNCHANGED <<disk, mounted, settings, gcDone, faults, origin, mixed>>

(* nandroid_restore_partition on a raw partition: erased before anybody     *)
(* has looked whether there is an image.                                    *)
EraseRaw ==
    /\ At("next", "restore") /\ act.todo # {} /\ part \in Raw
    /\ FormatRaw(part) /\ Goto("write", {})
    /\ UNCHANGED <<store, backups, settings, gcDone, faults, history>>

(* restore_raw_partition.  The last buffer is another matter: nobody looks  *)
(* at the result of mtd_write_close, nor of the fputc and fclose for emmc.  *)
WriteRaw ==
    /\ At("write", "restore")
    /\ \/ /\ image.fmt # "none" /\ Put(part, image.files) /\ NextPart /\ UNCHANGED faults
       \/ /\ image.fmt # "none" /\ Fault /\ End(FALSE)
          /\ \E got \in SUBSET image.files : Put(part, got)
       \/ /\ image.fmt # "none" /\ Fault /\ NextPartHushed
          /\ \E got \in SUBSET image.files : Put(part, got)
       \/ image.fmt = "none" /\ End(FALSE) /\ UNCHANGED <<content, faults>>
    /\ UNCHANGED <<mounted, store, backups, settings, gcDone, history>>

(* nandroid_restore_partition_extended, to the format: without an image the *)
(* partition is left alone.                                                 *)
SkipPart ==
    /\ At("next", "restore") /\ act.todo # {} /\ part \notin Raw /\ image.fmt = "none"
    /\ NextPart
    /\ UNCHANGED <<disk, mounted, settings, gcDone, faults, history>>

FormatPart ==
    /\ At("next", "restore") /\ act.todo # {} /\ part \notin Raw /\ image.fmt # "none"
    /\ \/ Format(part) /\ Goto("mount", {}) /\ UNCHANGED faults
       \/ CannotUnmount(part) /\ Fault /\ End(FALSE) /\ UNCHANGED content
       \/ part \notin Emptied /\ Format(part) /\ Fault /\ End(FALSE)     \* make_ext4fs failed
    /\ UNCHANGED <<store, backups, settings, gcDone, history>>

MountPartUnchecked ==
    /\ At("mount", "restore")
    /\ \/ EnsureMounted(part) /\ UNCHANGED faults
       \/ CannotMount(part) /\ Fault
    /\ Goto("extract", image.files)
    /\ UNCHANGED <<disk, settings, gcDone, history>>

MountPart ==
    /\ At("mount", "restore")
    /\ \/ EnsureMounted(part) /\ Goto("extract", image.files) /\ UNCHANGED faults
       \/ CannotMount(part) /\ Fault /\ End(FALSE)
    /\ UNCHANGED <<disk, settings, gcDone, history>>

(* The handler brings back one file; of a short blob only what it has. *)
Extractable(f) == IF image.fmt = "dup" THEN {f} \cap blobs ELSE {f}

ExtractFile(f) ==
    /\ At("extract", "restore") /\ f \in act.left /\ image.tail # "newer"
    /\ image.fmt = "dup" => CanExtract(f)
    /\ Put(part, content[part] \cup Extractable(f))
    /\ act' = [act EXCEPT !.left = @ \ {f}, !.hushed = @ \cup IF Extractable(f) = {} THEN {part} ELSE {}]
    /\ UNCHANGED <<mounted, store, backups, settings, gcDone, faults, history>>

(* The handler's error: a newer or torn manifest, a blob that is missing, a *)
(* tar that ends too early, a full volume.  The volume stays mounted.       *)
Unreadable ==
    \/ image.tail = "newer"
    \/ image.fmt = "dup" /\ \E f \in act.left : ~CanExtract(f)
    \/ image.fmt = "dup" /\ act.left = {} /\ image.tail = "torn"
    \/ image.fmt = "tar" /\ act.left = {} /\ image.tail = "cut"

ExtractFailsGoesOn ==
    /\ At("extract", "restore")
    /\ \/ Unreadable /\ UNCHANGED faults
       \/ ~Unreadable /\ Fault
    /\ NextPart
    /\ UNCHANGED <<disk, mounted, settings, gcDone, history>>

ExtractFails ==
    /\ At("extract", "restore")
    /\ \/ Unreadable /\ UNCHANGED faults
       \/ ~Unreadable /\ Fault
    /\ End(FALSE)
    /\ UNCHANGED <<disk, mounted, settings, gcDone, history>>

ExtractDone ==
    /\ At("extract", "restore") /\ act.left = {} /\ ~Unreadable
    /\ NextPart
    /\ IF part = "cache" THEN UNCHANGED mounted ELSE EnsureUnmounted(part)
    /\ UNCHANGED <<disk, settings, gcDone, faults, history>>

FinishRestore ==
    /\ At("next", "restore") /\ act.todo = {}
    /\ End(TRUE)
    /\ UNCHANGED <<disk, mounted, settings, gcDone, faults, history>>

-----------------------------------------------------------------------------
(* Around it *)

(* INTENT_BACKUP_FORMAT.  The MD5 switch of settings.ini stays as it is.    *)
ChangeSettings ==
    /\ Idle /\ \E f \in Formats \ {settings.format} : settings' = [settings EXCEPT !.format = f]
    /\ Rest
    /\ UNCHANGED <<disk, mounted, gcDone, faults, origin, mixed>>

(* INTENT_MOUNT and INTENT_UNMOUNT from the mount menu. *)
MountMenu(p) ==
    /\ Idle /\ p \notin Raw /\ Rest
    /\ IF p \in mounted THEN EnsureUnmounted(p) ELSE EnsureMounted(p)
    /\ UNCHANGED <<disk, settings, gcDone, faults, origin, mixed>>

(* A reboot into Android, which changes files, and back.  Raw partitions    *)
(* are changed by updates only, which recovery installs.                    *)
Android(p, files) ==
    /\ Idle /\ p \notin Raw /\ content[p] # files /\ Put(p, files)
    /\ mounted' = {} /\ gcDone' = FALSE /\ Rest
    /\ UNCHANGED <<store, backups, settings, faults, origin, mixed>>

(* The user deletes a backup. *)
Delete(b) ==
    /\ Idle /\ b \in DOMAIN backups
    /\ backups' = Restrict(backups, DOMAIN backups \ {b})
    /\ origin' = Restrict(origin, DOMAIN origin \ {b}) /\ Rest
    /\ UNCHANGED <<content, mounted, store, settings, gcDone, faults, mixed>>

(* A newer recovery leaves a backup on the card, with its blobs in the same *)
(* directory.                                                               *)
OtherRecovery(b, p) ==
    /\ Idle /\ b \notin DOMAIN backups /\ Fault
    /\ backups' = With(backups, b, [item |-> p, finished |-> TRUE, broken |-> FALSE,
                     image |-> [q \in Parts |-> IF q # p THEN NoImage
                                                ELSE NewImage("dup", content[p], "newer")]])
    /\ StoreBlobs(content[p]) /\ Rest
    /\ origin' = With(origin, b, [q \in {p} |-> content[p]])
    /\ mixed' = TRUE
    /\ UNCHANGED <<content, mounted, settings, gcDone>>

(* The power goes.  Nothing of a backup that is under way has been synced:  *)
(* of its images any file or line can be missing, the last line torn, and   *)
(* of the blobs it has stored any can be short or missing, those of lines   *)
(* that are there as well.                                                  *)
Partly(i, tail) == {[i EXCEPT !.files = got, !.tail = tail, !.md5 = FALSE] : got \in SUBSET i.files}
Remains(i) ==
    {i} \cup (IF i.fmt = "none" THEN {} ELSE Partly(i, "cut")) \cup (IF i.fmt = "dup" THEN Partly(i, "torn") ELSE {})

BreakImages ==
    \E images \in [Parts -> UNION {Remains(backups[act.b].image[p]) : p \in Parts}] :
      /\ \A p \in Parts : images[p] \in Remains(backups[act.b].image[p])
      /\ backups' = [backups EXCEPT ![act.b].image = images, ![act.b].broken = TRUE]

LoseBlobs ==
    \E gone, cut \in SUBSET act.fresh : blobs' = blobs \ (gone \cup cut) /\ short' = short \cup (cut \ gone)

PowerLoss ==
    /\ ~Idle /\ Fault
    /\ mounted' = {} /\ gcDone' = FALSE /\ End(FALSE)
    /\ IF act.op = "backup" THEN BreakImages ELSE UNCHANGED backups
    /\ IF At("write", "restore")
       THEN \E got \in SUBSET image.files : Put(part, got)
       ELSE UNCHANGED content
    /\ IF act.pc = "gc"
       THEN \E read \in GcReads(Manifests) : \E gone \in SUBSET Unused(read) : RemoveBlobs(gone)
       ELSE LoseBlobs
    /\ UNCHANGED <<settings, history>>

Next ==
    \/ \E b \in Backups : \/ \E item \in Items : StartBackup(b, item)
                          \/ StartRestore(b) \/ Delete(b)
                          \/ \E p \in (Items \cap Parts) \ Raw : OtherRecovery(b, p)
    \/ DumpRaw \/ OpenImage \/ StoreDone \/ StoreFails \/ StoreMasked \/ CloseImage \/ FinishBackup
    \/ MenuGc \/ GcBlobs \/ GcDies
    \/ EraseRaw \/ WriteRaw \/ SkipPart \/ FormatPart \/ MountPart
    \/ ExtractFails \/ ExtractDone \/ FinishRestore
    \/ \E f \in Files : StoreFile(f) \/ ExtractFile(f)
    \/ ChangeSettings \/ PowerLoss
    \/ \E p \in Parts : MountMenu(p) \/ \E files \in SUBSET Holds(p) : Android(p, files)

Spec == Init /\ [][Next]_vars

-----------------------------------------------------------------------------
(* Properties *)

Restoring == act.op = "restore"

(* p holds these files: all of them, unless an error of this restore went   *)
(* unreported, and nothing else, unless p has no formatter and its old      *)
(* files could not be removed.                                              *)
Brought(p, files) ==
    /\ p \notin act.hushed => files \subseteq content[p]
    /\ content[p] \subseteq files \cup IF p \in Emptied THEN before[p] ELSE {}

(* A restore of a finished backup that reports success has brought back     *)
(* what each partition held when the backup was made, unless an error of    *)
(* the backup went unreported: whatever was backed up, collected, deleted   *)
(* or broken off in between.  What it lost without a word is on a raw       *)
(* partition, or a newer recovery's blobs were involved (nandroid_restore,  *)
(* nandroid_backup, restore_raw_partition, format_unknown_device).          *)
RestoreExact ==
    Restoring /\ Idle /\ act.ok /\ backups[act.b].finished
    => /\ ~mixed => act.hushed \subseteq Raw
       /\ \A p \in Asked(backups[act.b].item) \cap DOMAIN origin[act.b] : Brought(p, origin[act.b][p])

(* A restore that fails or is cut short damages the one partition it was    *)
(* working on: those before it hold their image, those after it and those   *)
(* not asked for what they held before (nandroid_restore's order and early  *)
(* returns).                                                                *)
DamageConfined ==
    Restoring => \A p \in Parts :
        LET asked == p \in Asked(backups[act.b].item)
            i == backups[act.b].image[p]
        IN  IF asked /\ p \notin act.todo /\ i.fmt # "none" THEN Brought(p, i.files)
            ELSE (act.todo # {} /\ p = part) \/ content[p] = before[p]

(* Every blob a readable manifest names is in the store and whole, unless a *)
(* power loss broke off the backup that the manifest belongs to, and as     *)
(* long as no newer recovery has put a backup on the same card: neither a   *)
(* collection nor a power loss in another backup takes it (dedupe gc, the   *)
(* moment nandroid_dedupe_gc is called at, the order in store_file, and the *)
(* sync at the end of a backup).                                            *)
BlobsKept ==
    ~mixed => \A b \in DOMAIN backups, p \in Parts :
        LET i == backups[b].image[p]
        IN  ~backups[b].broken /\ i.fmt = "dup" /\ Readable(i) => i.files \subseteq blobs
=============================================================================
