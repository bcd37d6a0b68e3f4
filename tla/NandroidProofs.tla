--------------------------- MODULE NandroidProofs ---------------------------
(* Proofs about Nandroid, for every set of partitions, files and backups    *)
(* and any number of faults.                                                *)
(*                                                                          *)
(* The four invariants of the run rest on one inductive invariant: which    *)
(* operation can be at which step (StepsInv), how the image that is being   *)
(* written relates to what the partition held (OriginInv), how far the      *)
(* partition that is being restored has come (RestoreInv), and that every   *)
(* manifest, the torn ones included, has its blobs (BlobsInv).              *)
EXTENDS Nandroid, TLAPS

(* Which operation is at which step, and what the partition is there. *)
StepsInv ==
    /\ Idle => act.op \in {"none", "restore"}
    /\ ~Idle => act.op # "none"
    /\ act.op = "gc" => act.pc = "gc"
    /\ act.pc = "gc" => act.op \in {"gc", "backup"}
    /\ act.pc \in {"store", "close"} => act.op = "backup"
    /\ act.op = "restore" => act.b \in DOMAIN backups
    /\ act.pc \in {"store", "close", "mount", "extract"} \/ At("gc", "backup")
          => act.todo # {} /\ part \notin Raw
    /\ act.pc = "write" => act.todo # {} /\ part \in Raw
    /\ act.pc = "close" => part \in mounted
    /\ At("gc", "backup") => part \in mounted
    /\ act.op = "restore" => act.fresh = {}

(* What an image holds has its place on its partition, and the directories  *)
(* have their history.                                                      *)
ImagesInv ==
    /\ \A b \in DOMAIN backups, p \in Parts : backups[b].image[p].files \subseteq Holds(p)
    /\ DOMAIN origin = DOMAIN backups
    /\ \A b \in DOMAIN origin : DOMAIN origin[b] \subseteq Parts

(* An image is what its partition held, once its handler is through.        *)
Recorded(b, p) ==
    backups[b].image[p].fmt # "none" /\ backups[b].image[p].files = origin[b][p]

FinishedInv ==
    \A b \in DOMAIN backups : backups[b].finished =>
        ~backups[b].broken /\ \A p \in DOMAIN origin[b] : Recorded(b, p)

OriginInv ==
    /\ FinishedInv
    /\ act.op = "backup" =>
         /\ ~backups[act.b].finished /\ ~backups[act.b].broken
         /\ act.pc # "close" => act.ok
         /\ act.pc \in {"store", "close"} => image.fmt \in Formats
         /\ \A p \in DOMAIN origin[act.b] :
              IF p \notin act.todo THEN Recorded(act.b, p)
              ELSE /\ act.pc # "next" /\ p = part
                   /\ act.pc = "gc" => origin[act.b][p] = content[p]
                   /\ act.pc = "store" => origin[act.b][p] = image.files \cup act.left
                   /\ act.pc = "close" /\ act.ok => origin[act.b][p] = image.files

(* What a format may leave of a file system.                                *)
Kept(p) == IF p \in Emptied THEN before[p] ELSE {}

(* A restore leaves what it has not come to, and knows how much of an image *)
(* it has brought back, and where it may have lost something of a file      *)
(* system without a word.                                                   *)
RestoreInv ==
    act.op = "restore" =>
        /\ act.todo \subseteq Asked(backups[act.b].item)
        /\ Idle /\ act.ok => act.todo = {}
        /\ act.pc = "next" => \A p \in act.todo : content[p] = before[p]
        /\ act.pc \in {"mount", "extract"} => image.fmt # "none"
        /\ act.pc = "mount" => content[part] \subseteq Kept(part)
        /\ act.pc = "extract" =>
             /\ act.left \subseteq image.files
             /\ part \notin act.hushed => image.files \ act.left \subseteq content[part]
             /\ content[part] \subseteq image.files \cup Kept(part)
        /\ ~mixed /\ ~backups[act.b].broken => act.hushed \subseteq Raw

(* Every manifest's blobs are in the store, those of a backup that the      *)
(* power has broken off apart, and those of the files that the handler has  *)
(* still to write will be: garbage is collected around both.  What a power  *)
(* loss can take, no other backup needs.                                    *)
StoredInv ==
    ~mixed => \A b \in DOMAIN backups, p \in Parts :
        LET i == backups[b].image[p] IN
        i.fmt = "dup" => i.tail # "newer" /\ (~backups[b].broken => i.files \subseteq blobs)

FreshInv ==
    ~mixed /\ act.op = "backup" => \A b \in DOMAIN backups \ {act.b}, p \in Parts :
        LET i == backups[b].image[p] IN
        i.fmt = "dup" /\ ~backups[b].broken => i.files \cap act.fresh = {}

BlobsInv ==
    /\ StoredInv /\ FreshInv
    /\ act.pc = "store" => act.left \subseteq content[part]
    /\ act.pc = "store" /\ image.fmt = "dup" => content[part] = image.files \cup act.left

IInv == TypeOK /\ StepsInv /\ ImagesInv /\ OriginInv /\ RestoreInv /\ DamageConfined /\ BlobsInv

-----------------------------------------------------------------------------
(* Operators *)

(* The first partition of a list of partitions is one of them. *)
LEMMA FirstIsOne ==
    ASSUME NEW ps \in SUBSET Parts, ps # {}
    PROVE  First(ps) \in ps
<1> DEFINE names == {"boot", "boot1", "recovery", "system", "system1", "data", "datadata", "cache"}
<1>1. ps \subseteq names
  BY OrderAssumption DEF Order, ToSet
<1>2. /\ Position("boot") = 1 /\ Position("boot1") = 2 /\ Position("recovery") = 3
      /\ Position("system") = 4 /\ Position("system1") = 5 /\ Position("data") = 6
      /\ Position("datadata") = 7 /\ Position("cache") = 8
  BY DEF Position, Order
<1>3. \E p \in ps : \A q \in ps : Position(p) <= Position(q)
  <2>1. CASE "boot" \in ps
    BY <1>1, <1>2, <2>1
  <2>2. CASE "boot1" \in ps /\ ps \cap {"boot"} = {}
    BY <1>1, <1>2, <2>2
  <2>3. CASE "recovery" \in ps /\ ps \cap {"boot", "boot1"} = {}
    BY <1>1, <1>2, <2>3
  <2>4. CASE "system" \in ps /\ ps \cap {"boot", "boot1", "recovery"} = {}
    BY <1>1, <1>2, <2>4
  <2>5. CASE "system1" \in ps /\ ps \cap {"boot", "boot1", "recovery", "system"} = {}
    BY <1>1, <1>2, <2>5
  <2>6. CASE "data" \in ps /\ ps \cap {"boot", "boot1", "recovery", "system", "system1"} = {}
    BY <1>1, <1>2, <2>6
  <2>7. CASE "datadata" \in ps /\ ps \cap {"boot", "boot1", "recovery", "system", "system1", "data"} = {}
    BY <1>1, <1>2, <2>7
  <2>8. CASE "cache" \in ps /\ ps \cap {"boot", "boot1", "recovery", "system", "system1", "data", "datadata"} = {}
    BY <1>1, <1>2, <2>8
  <2>9. QED
    BY <1>1, <2>1, <2>2, <2>3, <2>4, <2>5, <2>6, <2>7, <2>8
<1>4. QED
  BY <1>3 DEF First

(* Writing one image leaves the others, and all that is said of a backup.   *)
LEMMA ImageSet ==
    ASSUME TypeOK, NEW i \in Images, SetImage(i), act.b \in DOMAIN backups, part \in Parts
    PROVE  /\ DOMAIN backups' = DOMAIN backups
           /\ \A b \in DOMAIN backups :
                /\ backups'[b] \in Backup
                /\ backups'[b].item = backups[b].item /\ backups'[b].finished = backups[b].finished
                /\ backups'[b].broken = backups[b].broken
                /\ \A p \in Parts : backups'[b].image[p] =
                       IF b = act.b /\ p = part THEN i ELSE backups[b].image[p]
<1>1. \A b \in DOMAIN backups : backups[b] \in Backup
  BY DEF TypeOK
<1>2. QED
  BY <1>1 DEF SetImage, Backup


(* Where an operation goes: to its end, to its next partition, to its next  *)
(* step.                                                                    *)
LEMMA Ends ==
    ASSUME act \in Actions, NEW ok \in BOOLEAN, End(ok)
    PROVE  /\ act' \in Actions /\ act'.pc = "idle"
           /\ IF act.op = "restore"
              THEN /\ act'.op = "restore" /\ act'.b = act.b /\ act'.todo = act.todo /\ act'.ok = ok
                   /\ act'.fresh = act.fresh /\ act'.hushed = act.hushed
              ELSE act'.op = "none"
  BY DEF End, Actions, Nothing

LEMMA NextParts ==
    ASSUME act \in Actions, NextPart
    PROVE  /\ act' \in Actions /\ act'.pc = "next" /\ act'.op = act.op /\ act'.b = act.b
           /\ act'.todo = act.todo \ {part} /\ act'.ok = act.ok
           /\ act'.fresh = act.fresh /\ act'.hushed = act.hushed
<1>1. act.todo \ {part} \in SUBSET Parts
  BY DEF Actions
<1>2. QED
  BY <1>1 DEF NextPart, Actions

LEMMA Gotos ==
    ASSUME act \in Actions, NEW pc \in {"gc", "store", "close", "write", "mount", "extract"},
           NEW left \in SUBSET (Files \cup Pieces), Goto(pc, left)
    PROVE  /\ act' \in Actions /\ act'.pc = pc /\ act'.op = act.op /\ act'.b = act.b
           /\ act'.todo = act.todo /\ act'.ok = act.ok /\ act'.left = left /\ part' = part
           /\ act'.fresh = act.fresh /\ act'.hushed = act.hushed
  BY DEF Goto, Actions, part

(* The count of the faults, and what a partition holds.                     *)
LEMMA FaultTyped ==
    ASSUME TypeOK, Fault \/ UNCHANGED faults
    PROVE  faults' \in 0..MaxFaults
  BY FaultsAssumption DEF TypeOK, Fault

LEMMA Contents ==
    ASSUME TypeOK, NEW p \in Parts, NEW files \in SUBSET Holds(p), Put(p, files)
    PROVE  /\ content' \in [Parts -> SUBSET (Files \cup Pieces)]
           /\ \A q \in Parts : content'[q] \subseteq Holds(q)
           /\ content'[p] = files /\ \A q \in Parts \ {p} : content'[q] = content[q]
  BY DEF TypeOK, VolumesTypeOK, Put, Holds

(* What a step keeps by not touching what an invariant speaks of.           *)
LEMMA SameBackups ==
    ASSUME IInv, UNCHANGED <<backups, origin>>, act'.op # "backup"
    PROVE  ImagesInv' /\ OriginInv'
  BY DEF IInv, ImagesInv, OriginInv, FinishedInv, Recorded, Holds

LEMMA SameBlobs ==
    ASSUME IInv, UNCHANGED <<backups, blobs, mixed>>, act'.pc # "store", act'.op # "backup"
    PROVE  BlobsInv'
  BY DEF IInv, BlobsInv, StoredInv, FreshInv

LEMMA NoRestore ==
    ASSUME act'.op # "restore"
    PROVE  RestoreInv' /\ DamageConfined'
  BY DEF RestoreInv, DamageConfined, Restoring

LEMMA AtRest ==
    ASSUME act'.op = "none", act'.pc = "idle"
    PROVE  StepsInv' /\ RestoreInv' /\ DamageConfined'
  BY NoRestore DEF StepsInv, Idle, At

LEMMA InvInit == Init => IInv
<1> SUFFICES ASSUME Init PROVE IInv
  OBVIOUS
<1> USE DEF Init, Nothing
<1>1. TypeOK
  <2>1. VolumesTypeOK
    BY PartsAssumption DEF VolumesTypeOK, Holds
  <2>2. act \in Actions /\ Idle
    BY DEF Actions, Idle
  <2>3. DOMAIN backups = {} /\ faults \in 0..MaxFaults
    BY FaultsAssumption
  <2>4. QED
    BY <2>1, <2>2, <2>3 DEF TypeOK, Idle
<1>2. StepsInv /\ ImagesInv
  BY DEF StepsInv, ImagesInv, Idle, At
<1>3. OriginInv /\ RestoreInv /\ DamageConfined /\ BlobsInv
  BY DEF OriginInv, FinishedInv, RestoreInv, DamageConfined, BlobsInv, StoredInv, FreshInv, Restoring
<1>4. QED
  BY <1>1, <1>2, <1>3 DEF IInv

-----------------------------------------------------------------------------
(* The steps of a restore.  They leave the backups, their history and the   *)
(* blobs alone.                                                             *)

LEMMA StartRestoreStep == ASSUME IInv, NEW b \in Backups, StartRestore(b) PROVE IInv'
<1>1. TypeOK /\ StepsInv
  BY DEF IInv
<1>2. /\ b \in DOMAIN backups /\ backups' = backups /\ origin' = origin
      /\ before' = content /\ content' = content
      /\ UNCHANGED <<blobs, short, mounted, mixed, settings, gcDone, faults>>
  BY DEF StartRestore, disk, store
<1>3. Asked(backups[b].item) \in SUBSET Parts
  BY DEF Asked, Restorable
<1>4. /\ act' \in Actions /\ act'.op = "restore" /\ act'.pc = "next" /\ act'.b = b
      /\ act'.todo = Asked(backups[b].item) /\ act'.ok = TRUE /\ act'.fresh = {} /\ act'.hushed = {}
  BY <1>3 DEF StartRestore, Actions, Nothing
<1>5. TypeOK'
  BY <1>1, <1>2, <1>4 DEF TypeOK, VolumesTypeOK, Holds, Idle
<1>6. StepsInv'
  BY <1>2, <1>4 DEF StepsInv, Idle, At
<1>7. RestoreInv' /\ DamageConfined'
  <2>1. Asked(backups'[act'.b].item) = act'.todo
    BY <1>2, <1>4
  <2>2. RestoreInv'
    BY <1>2, <1>4, <2>1 DEF RestoreInv, Idle, Asked
  <2>3. DamageConfined'
    BY <1>2, <1>4, <2>1 DEF DamageConfined, Restoring
  <2>4. QED
    BY <2>2, <2>3
<1>8. QED
  BY <1>2, <1>4, <1>5, <1>6, <1>7, SameBackups, SameBlobs DEF IInv

(* A step of a restore at its partition.                                    *)
LEMMA Restored ==
    ASSUME IInv, act.op = "restore", ~Idle
    PROVE  /\ TypeOK /\ StepsInv /\ RestoreInv /\ DamageConfined
           /\ act \in Actions /\ act.b \in DOMAIN backups /\ act.fresh = {}
           /\ act.todo # {} => /\ part \in act.todo /\ part \in Parts
                               /\ image \in Images /\ image.files \in SUBSET Holds(part)
                               /\ image.files \in SUBSET (Files \cup Pieces)
<1>1. TypeOK /\ StepsInv /\ RestoreInv /\ DamageConfined /\ ImagesInv
  BY DEF IInv
<1>2. act \in Actions /\ act.b \in DOMAIN backups /\ act.fresh = {}
  BY <1>1 DEF TypeOK, StepsInv
<1>3. ASSUME act.todo # {}
      PROVE  part \in act.todo /\ part \in Parts
  BY <1>2, <1>3, FirstIsOne DEF Actions, part
<1>4. ASSUME part \in Parts
      PROVE  image \in Images /\ image.files \in SUBSET Holds(part) /\ image.files \in SUBSET (Files \cup Pieces)
  BY <1>1, <1>2, <1>4 DEF TypeOK, ImagesInv, Backup, Images, image
<1>5. QED
  BY <1>1, <1>2, <1>3, <1>4

(* What a step must show that leaves all else as it is: the partition it    *)
(* is at may hold anything while it is still to be done; once it is done it *)
(* holds its image, or what it held if there is none.                       *)
LEMMA RestoreFrame ==
    ASSUME IInv, act.op = "restore", ~Idle, act' \in Actions, act'.op = "restore", act'.b = act.b,
           UNCHANGED <<blobs, short, backups, settings, origin, before, mixed>>, gcDone' \in {gcDone, FALSE},
           act'.pc \in {"idle", "next", "write", "mount", "extract"},
           act.hushed \subseteq act'.hushed, act'.fresh = {},
           Fault \/ UNCHANGED faults,
           content' \in [Parts -> SUBSET (Files \cup Pieces)],
           \A q \in Parts : content'[q] \subseteq Holds(q),
           mounted' \subseteq Parts \ Raw,
           act'.pc = "extract" => part' \in mounted',
           \A q \in Parts : q # part \/ act.todo = {} => content'[q] = content[q],
           \/ act'.todo = act.todo /\ (act.todo # {} \/ content' = content)
           \/ /\ act.todo # {} /\ act'.todo = act.todo \ {part}
              /\ IF image.fmt = "none" THEN content'[part] = before[part]
                 ELSE /\ part \notin act'.hushed => image.files \subseteq content'[part]
                      /\ content'[part] \subseteq image.files \cup Kept(part)
    PROVE  /\ TypeOK' /\ ImagesInv' /\ OriginInv' /\ BlobsInv' /\ DamageConfined'
           /\ act'.todo \subseteq Asked(backups'[act'.b].item)
           /\ (act'.pc = "next" /\ act'.todo # act.todo) => \A p \in act'.todo : content'[p] = before'[p]
<1>1. /\ TypeOK /\ StepsInv /\ RestoreInv /\ DamageConfined
      /\ act \in Actions /\ act.b \in DOMAIN backups
      /\ act.todo # {} => part \in act.todo /\ part \in Parts
  BY Restored
<1>2. TypeOK'
  <2>1. VolumesTypeOK'
    BY DEF VolumesTypeOK, Holds
  <2>2. faults' \in 0..MaxFaults
    BY <1>1, FaultTyped
  <2>3. QED
    BY <1>1, <2>1, <2>2 DEF TypeOK, Idle
<1>3. act'.todo \subseteq Asked(backups'[act'.b].item)
  BY <1>1 DEF RestoreInv
<1>4. \A p \in Parts : Asked(backups[act.b].item) = Asked(backups'[act'.b].item)
  OBVIOUS
<1>5. image = backups[act.b].image[part]
  BY DEF image
<1>6. act'.todo = act.todo => part' = part
  BY DEF part
<1>7. ASSUME NEW p \in Parts
      PROVE  IF p \in Asked(backups[act.b].item) /\ p \notin act'.todo /\ backups[act.b].image[p].fmt # "none"
             THEN /\ p \notin act'.hushed => backups[act.b].image[p].files \subseteq content'[p]
                  /\ content'[p] \subseteq backups[act.b].image[p].files \cup Kept(p)
             ELSE (act'.todo # {} /\ p = part') \/ content'[p] = before[p]
  <2>1. IF p \in Asked(backups[act.b].item) /\ p \notin act.todo /\ backups[act.b].image[p].fmt # "none"
        THEN /\ p \notin act.hushed => backups[act.b].image[p].files \subseteq content[p]
             /\ content[p] \subseteq backups[act.b].image[p].files \cup Kept(p)
        ELSE (act.todo # {} /\ p = part) \/ content[p] = before[p]
    BY <1>1 DEF DamageConfined, Restoring, Brought, Kept
  <2>2. CASE act'.todo = act.todo
    BY <1>1, <1>6, <2>1, <2>2
  <2>3. CASE act.todo # {} /\ act'.todo = act.todo \ {part} /\ p = part
    <3>1. IF image.fmt = "none" THEN content'[part] = before[part]
          ELSE /\ part \notin act'.hushed => image.files \subseteq content'[part]
               /\ content'[part] \subseteq image.files \cup Kept(part)
      BY <1>1, <2>3
    <3>2. QED
      BY <1>1, <1>5, <2>3, <3>1 DEF RestoreInv
  <2>4. CASE act.todo # {} /\ act'.todo = act.todo \ {part} /\ p # part
    BY <1>1, <2>1, <2>4
  <2>5. QED
    BY <2>2, <2>3, <2>4
<1>8. DamageConfined'
  BY <1>7 DEF DamageConfined, Restoring, Asked, Brought, Kept
<1>9. ASSUME act'.todo # act.todo, NEW p \in act'.todo
      PROVE  content'[p] = before'[p]
  <2>1. p \in act.todo /\ p # part /\ p \in Parts
    BY <1>1, <1>9 DEF Actions
  <2>2. content[p] = before[p]
    BY <1>1, <2>1 DEF DamageConfined, Restoring
  <2>3. QED
    BY <2>1, <2>2
<1>10. QED
  BY <1>2, <1>3, <1>8, <1>9, SameBackups, SameBlobs

LEMMA EraseRawStep == ASSUME IInv, EraseRaw PROVE IInv'
<1>1. act.pc = "next" /\ act.op = "restore" /\ ~Idle /\ act.todo # {} /\ part \in Raw
  BY DEF EraseRaw, At, Idle
<1>2. /\ TypeOK /\ StepsInv /\ RestoreInv /\ act \in Actions /\ act.b \in DOMAIN backups /\ act.fresh = {}
      /\ part \in act.todo /\ part \in Parts
  BY <1>1, Restored
<1>3. /\ act' \in Actions /\ act'.pc = "write" /\ act'.op = act.op /\ act'.b = act.b
      /\ act'.todo = act.todo /\ part' = part
      /\ act'.hushed = act.hushed /\ act'.fresh = act.fresh
  BY <1>2, Gotos DEF EraseRaw
<1>4. /\ UNCHANGED <<blobs, short, backups, settings, gcDone, origin, before, mixed, faults, mounted>>
      /\ Put(part, IF part \in Mtd THEN {} ELSE content[part])
  BY DEF EraseRaw, FormatRaw, history, store
<1>5. /\ content' \in [Parts -> SUBSET (Files \cup Pieces)]
      /\ \A q \in Parts : content'[q] \subseteq Holds(q)
      /\ \A q \in Parts \ {part} : content'[q] = content[q]
  BY <1>2, <1>4, Contents DEF TypeOK, VolumesTypeOK
<1>6. mounted' \subseteq Parts \ Raw
  BY <1>2, <1>4 DEF TypeOK, VolumesTypeOK
<1>7. /\ TypeOK' /\ ImagesInv' /\ OriginInv' /\ BlobsInv' /\ DamageConfined'
      /\ act'.todo \subseteq Asked(backups'[act'.b].item)
  BY <1>1, <1>2, <1>3, <1>4, <1>5, <1>6, RestoreFrame
<1>8. StepsInv' /\ RestoreInv'
  BY <1>1, <1>2, <1>3, <1>4, <1>7 DEF StepsInv, RestoreInv, Idle, At
<1>9. QED
  BY <1>7, <1>8 DEF IInv

LEMMA WriteRawStep == ASSUME IInv, WriteRaw PROVE IInv'
<1>1. act.pc = "write" /\ act.op = "restore" /\ ~Idle
  BY DEF WriteRaw, At, Idle
<1>2. /\ TypeOK /\ StepsInv /\ RestoreInv /\ act \in Actions /\ act.b \in DOMAIN backups /\ act.fresh = {}
      /\ act.todo # {} /\ part \in act.todo /\ part \in Parts /\ part \in Raw
      /\ image.files \in SUBSET Holds(part)
  BY <1>1, Restored DEF StepsInv
<1>3. /\ UNCHANGED <<blobs, short, backups, settings, gcDone, origin, before, mixed, mounted>>
      /\ mounted' \subseteq Parts \ Raw
  BY <1>2 DEF WriteRaw, history, store, TypeOK, VolumesTypeOK
<1>4. CASE image.fmt # "none" /\ Put(part, image.files) /\ NextPart /\ UNCHANGED faults
  <2>1. /\ act' \in Actions /\ act'.pc = "next" /\ act'.op = act.op /\ act'.b = act.b
        /\ act'.todo = act.todo \ {part} /\ act'.ok = act.ok
        /\ act'.hushed = act.hushed /\ act'.fresh = act.fresh
    BY <1>2, <1>4, NextParts
  <2>2. /\ content' \in [Parts -> SUBSET (Files \cup Pieces)]
        /\ \A q \in Parts : content'[q] \subseteq Holds(q)
        /\ content'[part] = image.files /\ \A q \in Parts \ {part} : content'[q] = content[q]
    BY <1>2, <1>4, Contents
  <2>3. /\ TypeOK' /\ ImagesInv' /\ OriginInv' /\ BlobsInv' /\ DamageConfined'
        /\ act'.todo \subseteq Asked(backups'[act'.b].item)
        /\ \A p \in act'.todo : content'[p] = before'[p]
    BY <1>1, <1>2, <1>3, <1>4, <2>1, <2>2, RestoreFrame
  <2>4. StepsInv' /\ RestoreInv'
    BY <1>1, <1>2, <1>3, <2>1, <2>3 DEF StepsInv, RestoreInv, Idle, At
  <2>5. QED
    BY <2>3, <2>4 DEF IInv
<1>7. CASE /\ image.fmt # "none" /\ Fault /\ NextPartHushed
           /\ \E got \in SUBSET image.files : Put(part, got)
  <2>1. /\ act' \in Actions /\ act'.pc = "next" /\ act'.op = act.op /\ act'.b = act.b
        /\ act'.todo = act.todo \ {part} /\ act'.ok = act.ok
        /\ act'.hushed = act.hushed \cup {part} /\ act'.fresh = act.fresh
    <3>1. act.todo \ {part} \in SUBSET Parts /\ act.hushed \cup {part} \in SUBSET Parts
      BY <1>2 DEF Actions
    <3>2. QED
      BY <1>7, <3>1, <1>2 DEF NextPartHushed, Actions
  <2>2. PICK got \in SUBSET image.files : Put(part, got)
    BY <1>7
  <2>3. /\ content' \in [Parts -> SUBSET (Files \cup Pieces)]
        /\ \A q \in Parts : content'[q] \subseteq Holds(q)
        /\ content'[part] = got /\ \A q \in Parts \ {part} : content'[q] = content[q]
    BY <1>2, <2>2, Contents
  <2>4. /\ TypeOK' /\ ImagesInv' /\ OriginInv' /\ BlobsInv' /\ DamageConfined'
        /\ act'.todo \subseteq Asked(backups'[act'.b].item)
        /\ \A p \in act'.todo : content'[p] = before'[p]
    BY <1>1, <1>2, <1>3, <1>7, <2>1, <2>3, RestoreFrame
  <2>5. StepsInv' /\ RestoreInv'
    BY <1>1, <1>2, <1>3, <2>1, <2>4 DEF StepsInv, RestoreInv, Idle, At
  <2>6. QED
    BY <2>4, <2>5 DEF IInv
<1>5. ASSUME End(FALSE), Fault \/ UNCHANGED faults,
             UNCHANGED content \/ \E got \in SUBSET image.files : Put(part, got)
      PROVE  IInv'
  <2>1. /\ act' \in Actions /\ act'.pc = "idle" /\ act'.op = act.op /\ act'.b = act.b
        /\ act'.todo = act.todo /\ act'.ok = FALSE
        /\ act'.hushed = act.hushed /\ act'.fresh = act.fresh
    BY <1>1, <1>2, <1>5, Ends
  <2>2. /\ content' \in [Parts -> SUBSET (Files \cup Pieces)]
        /\ \A q \in Parts : content'[q] \subseteq Holds(q)
        /\ \A q \in Parts \ {part} : content'[q] = content[q]
    <3>1. CASE UNCHANGED content
      BY <1>2, <3>1 DEF TypeOK, VolumesTypeOK, Holds
    <3>2. CASE \E got \in SUBSET image.files : Put(part, got)
      <4> PICK got \in SUBSET image.files : Put(part, got)
        BY <3>2
      <4> QED
        BY <1>2, Contents
    <3>3. QED
      BY <1>5, <3>1, <3>2
  <2>3. /\ TypeOK' /\ ImagesInv' /\ OriginInv' /\ BlobsInv' /\ DamageConfined'
        /\ act'.todo \subseteq Asked(backups'[act'.b].item)
    BY <1>1, <1>2, <1>3, <1>5, <2>1, <2>2, RestoreFrame
  <2>4. StepsInv' /\ RestoreInv'
    BY <1>1, <1>2, <1>3, <2>1, <2>3 DEF StepsInv, RestoreInv, Idle, At
  <2>5. QED
    BY <2>3, <2>4 DEF IInv
<1>6. QED
  BY <1>4, <1>5, <1>7 DEF WriteRaw

(* An error ends the restore where it is, the volume mounted or not.        *)
LEMMA RestoreEnds ==
    ASSUME IInv, act.op = "restore", ~Idle, act.todo # {},
           UNCHANGED <<blobs, short, backups, settings, gcDone, origin, before, mixed>>,
           End(FALSE), Fault \/ UNCHANGED faults,
           UNCHANGED content \/ (part \notin Emptied /\ Format(part)),
           mounted' \subseteq mounted
    PROVE  IInv'
<1>1. /\ TypeOK /\ StepsInv /\ RestoreInv /\ act \in Actions /\ act.b \in DOMAIN backups /\ act.fresh = {}
      /\ part \in act.todo /\ part \in Parts
  BY Restored
<1>2. /\ act' \in Actions /\ act'.pc = "idle" /\ act'.op = act.op /\ act'.b = act.b
      /\ act'.todo = act.todo /\ act'.ok = FALSE
      /\ act'.hushed = act.hushed /\ act'.fresh = act.fresh
  BY <1>1, Ends
<1>3. /\ content' \in [Parts -> SUBSET (Files \cup Pieces)]
      /\ \A q \in Parts : content'[q] \subseteq Holds(q)
      /\ \A q \in Parts \ {part} : content'[q] = content[q]
  <2>1. CASE UNCHANGED content
    BY <1>1, <2>1 DEF TypeOK, VolumesTypeOK, Holds
  <2>2. CASE part \notin Emptied /\ Format(part)
    BY <1>1, <2>2, Contents DEF Format
  <2>3. QED
    BY <2>1, <2>2
<1>4. mounted' \subseteq Parts \ Raw
  BY <1>1 DEF TypeOK, VolumesTypeOK
<1>5. /\ TypeOK' /\ ImagesInv' /\ OriginInv' /\ BlobsInv' /\ DamageConfined'
      /\ act'.todo \subseteq Asked(backups'[act'.b].item)
  BY <1>1, <1>2, <1>3, <1>4, RestoreFrame
<1>6. StepsInv' /\ RestoreInv'
  BY <1>1, <1>2, <1>5 DEF StepsInv, RestoreInv, Idle, At
<1>7. QED
  BY <1>5, <1>6 DEF IInv

LEMMA SkipPartStep == ASSUME IInv, SkipPart PROVE IInv'
<1>1. act.pc = "next" /\ act.op = "restore" /\ ~Idle /\ act.todo # {} /\ image.fmt = "none"
  BY DEF SkipPart, At, Idle
<1>2. /\ TypeOK /\ StepsInv /\ RestoreInv /\ act \in Actions /\ act.b \in DOMAIN backups /\ act.fresh = {}
      /\ part \in act.todo /\ part \in Parts
  BY <1>1, Restored
<1>3. /\ act' \in Actions /\ act'.pc = "next" /\ act'.op = act.op /\ act'.b = act.b
      /\ act'.todo = act.todo \ {part} /\ act'.ok = act.ok
      /\ act'.hushed = act.hushed /\ act'.fresh = act.fresh
  BY <1>2, NextParts DEF SkipPart
<1>4. UNCHANGED <<content, blobs, short, backups, settings, gcDone, origin, before, mixed, faults, mounted>>
  BY DEF SkipPart, disk, history, store
<1>5. /\ content' \in [Parts -> SUBSET (Files \cup Pieces)]
      /\ \A q \in Parts : content'[q] \subseteq Holds(q)
      /\ mounted' \subseteq Parts \ Raw
  BY <1>2, <1>4 DEF TypeOK, VolumesTypeOK, Holds
<1>6. content'[part] = before[part]
  BY <1>1, <1>2, <1>4 DEF RestoreInv
<1>7. /\ TypeOK' /\ ImagesInv' /\ OriginInv' /\ BlobsInv' /\ DamageConfined'
      /\ act'.todo \subseteq Asked(backups'[act'.b].item)
      /\ \A p \in act'.todo : content'[p] = before'[p]
  BY <1>1, <1>2, <1>3, <1>4, <1>5, <1>6, RestoreFrame
<1>8. StepsInv' /\ RestoreInv'
  BY <1>1, <1>2, <1>3, <1>4, <1>7 DEF StepsInv, RestoreInv, Idle, At
<1>9. QED
  BY <1>7, <1>8 DEF IInv

LEMMA FormatPartStep == ASSUME IInv, FormatPart PROVE IInv'
<1>1. act.pc = "next" /\ act.op = "restore" /\ ~Idle /\ act.todo # {} /\ part \notin Raw /\ image.fmt # "none"
  BY DEF FormatPart, At, Idle
<1>2. UNCHANGED <<blobs, short, backups, settings, gcDone, origin, before, mixed>>
  BY DEF FormatPart, history, store
<1>3. CASE Format(part) /\ Goto("mount", {}) /\ UNCHANGED faults
  <2>1. /\ TypeOK /\ StepsInv /\ RestoreInv /\ act \in Actions /\ act.b \in DOMAIN backups /\ act.fresh = {}
        /\ part \in act.todo /\ part \in Parts
    BY <1>1, Restored
  <2>2. /\ act' \in Actions /\ act'.pc = "mount" /\ act'.op = act.op /\ act'.b = act.b
        /\ act'.todo = act.todo /\ part' = part
        /\ act'.hushed = act.hushed /\ act'.fresh = act.fresh
    BY <1>3, <2>1, Gotos
  <2>3. /\ content' \in [Parts -> SUBSET (Files \cup Pieces)]
        /\ \A q \in Parts : content'[q] \subseteq Holds(q)
        /\ content'[part] \subseteq Kept(part) /\ \A q \in Parts \ {part} : content'[q] = content[q]
    <3>1. CASE part \notin Emptied
      BY <1>3, <2>1, <3>1, Contents DEF Format
    <3>2. CASE part \in Emptied
      <4>1. PICK kept \in SUBSET content[part] : Put(part, kept)
        BY <1>3, <3>2 DEF Format
      <4>2. kept \in SUBSET Holds(part) /\ content[part] = before[part]
        BY <1>1, <2>1 DEF RestoreInv, TypeOK, VolumesTypeOK
      <4>3. QED
        BY <2>1, <3>2, <4>1, <4>2, Contents DEF Kept
    <3>3. QED
      BY <3>1, <3>2
  <2>4. mounted' \subseteq Parts \ Raw
    BY <1>3, <2>1 DEF TypeOK, VolumesTypeOK, Format, EnsureUnmounted
  <2>5. /\ TypeOK' /\ ImagesInv' /\ OriginInv' /\ BlobsInv' /\ DamageConfined'
        /\ act'.todo \subseteq Asked(backups'[act'.b].item)
    BY <1>1, <1>2, <1>3, <2>1, <2>2, <2>3, <2>4, RestoreFrame
  <2>6. image' = image /\ Kept(part)' = Kept(part)
    BY <1>2, <2>2 DEF image, Kept
  <2>7. StepsInv' /\ RestoreInv'
    BY <1>1, <1>2, <2>1, <2>2, <2>3, <2>5, <2>6 DEF StepsInv, RestoreInv, Idle, At
  <2>8. QED
    BY <2>5, <2>7 DEF IInv
<1>4. CASE CannotUnmount(part) /\ Fault /\ End(FALSE) /\ UNCHANGED content
  BY <1>1, <1>2, <1>4, RestoreEnds DEF CannotUnmount
<1>5. CASE part \notin Emptied /\ Format(part) /\ Fault /\ End(FALSE)
  BY <1>1, <1>2, <1>5, RestoreEnds DEF Format, EnsureUnmounted
<1>6. QED
  BY <1>3, <1>4, <1>5 DEF FormatPart

LEMMA MountPartStep == ASSUME IInv, MountPart PROVE IInv'
<1>1. act.pc = "mount" /\ act.op = "restore" /\ ~Idle
  BY DEF MountPart, At, Idle
<1>2. /\ TypeOK /\ StepsInv /\ RestoreInv /\ act \in Actions /\ act.b \in DOMAIN backups /\ act.fresh = {}
      /\ act.todo # {} /\ part \in act.todo /\ part \in Parts /\ part \notin Raw
      /\ image.files \in SUBSET (Files \cup Pieces)
  BY <1>1, Restored DEF StepsInv
<1>3. UNCHANGED <<content, blobs, short, backups, settings, gcDone, origin, before, mixed>>
  BY DEF MountPart, disk, history, store
<1>4. CASE EnsureMounted(part) /\ Goto("extract", image.files) /\ UNCHANGED faults
  <2>1. /\ act' \in Actions /\ act'.pc = "extract" /\ act'.op = act.op /\ act'.b = act.b
        /\ act'.todo = act.todo /\ act'.left = image.files /\ part' = part
        /\ act'.hushed = act.hushed /\ act'.fresh = act.fresh
    BY <1>2, <1>4, Gotos
  <2>2. /\ content' \in [Parts -> SUBSET (Files \cup Pieces)]
        /\ \A q \in Parts : content'[q] \subseteq Holds(q)
        /\ mounted' \subseteq Parts \ Raw /\ part \in mounted'
    BY <1>2, <1>3, <1>4 DEF TypeOK, VolumesTypeOK, Holds, EnsureMounted
  <2>3. /\ TypeOK' /\ ImagesInv' /\ OriginInv' /\ BlobsInv' /\ DamageConfined'
        /\ act'.todo \subseteq Asked(backups'[act'.b].item)
    BY <1>1, <1>2, <1>3, <1>4, <2>1, <2>2, RestoreFrame
  <2>4. image' = image /\ content'[part'] \subseteq Kept(part)' /\ image.fmt # "none"
    BY <1>1, <1>2, <1>3, <2>1 DEF image, RestoreInv, Kept
  <2>5. StepsInv' /\ RestoreInv'
    BY <1>1, <1>2, <1>3, <2>1, <2>3, <2>4 DEF StepsInv, RestoreInv, Idle, At
  <2>6. QED
    BY <2>3, <2>5 DEF IInv
<1>5. CASE CannotMount(part) /\ Fault /\ End(FALSE)
  BY <1>1, <1>2, <1>3, <1>5, RestoreEnds DEF CannotMount
<1>6. QED
  BY <1>4, <1>5 DEF MountPart

LEMMA ExtractFileStep == ASSUME IInv, NEW f \in Files, ExtractFile(f) PROVE IInv'
<1> DEFINE got == Extractable(f)
<1>1. act.pc = "extract" /\ act.op = "restore" /\ ~Idle /\ f \in act.left
  BY DEF ExtractFile, At, Idle
<1>2. /\ TypeOK /\ StepsInv /\ RestoreInv /\ act \in Actions /\ act.b \in DOMAIN backups /\ act.fresh = {}
      /\ act.todo # {} /\ part \in act.todo /\ part \in Parts /\ part \notin Raw /\ part \in mounted
      /\ image.files \in SUBSET Holds(part)
  BY <1>1, Restored DEF StepsInv, TypeOK
<1>3. /\ UNCHANGED <<blobs, short, backups, settings, gcDone, origin, before, mixed, faults, mounted>>
      /\ Put(part, content[part] \cup got)
      /\ act' = [act EXCEPT !.left = @ \ {f}, !.hushed = @ \cup IF got = {} THEN {part} ELSE {}]
  BY DEF ExtractFile, history, store
<1>4. got \in {{}, {f}} /\ (got = {} => image.fmt = "dup" /\ f \notin blobs)
  BY DEF Extractable
<1>5. /\ act.left \subseteq image.files /\ image.fmt # "none"
      /\ part \notin act.hushed => image.files \ act.left \subseteq content[part]
      /\ content[part] \subseteq image.files \cup Kept(part)
      /\ ~mixed /\ ~backups[act.b].broken => act.hushed \subseteq Raw
  BY <1>1, <1>2 DEF RestoreInv
<1>6. got = {} => mixed \/ backups[act.b].broken
  <2>1. image = backups[act.b].image[part] /\ f \in image.files
    BY <1>1, <1>5 DEF image
  <2>2. QED
    BY <1>2, <1>4, <2>1 DEF IInv, BlobsInv, StoredInv
<1> HIDE DEF got
<1>7. /\ act' \in Actions /\ act'.pc = "extract" /\ act'.op = act.op /\ act'.b = act.b
      /\ act'.todo = act.todo /\ act'.ok = act.ok /\ act'.left = act.left \ {f} /\ part' = part
      /\ act'.hushed = act.hushed \cup (IF got = {} THEN {part} ELSE {}) /\ act'.fresh = act.fresh
  BY <1>1, <1>2, <1>3 DEF Actions, part
<1>8. /\ content' \in [Parts -> SUBSET (Files \cup Pieces)]
      /\ \A q \in Parts : content'[q] \subseteq Holds(q)
      /\ content'[part] = content[part] \cup got /\ \A q \in Parts \ {part} : content'[q] = content[q]
  <2>1. content[part] \cup got \in SUBSET Holds(part)
    BY <1>1, <1>2, <1>4, <1>5 DEF TypeOK, VolumesTypeOK
  <2>2. QED
    BY <1>2, <1>3, <2>1, Contents
<1>9. mounted' \subseteq Parts \ Raw
  BY <1>2, <1>3 DEF TypeOK, VolumesTypeOK
<1>10. /\ TypeOK' /\ ImagesInv' /\ OriginInv' /\ BlobsInv' /\ DamageConfined'
       /\ act'.todo \subseteq Asked(backups'[act'.b].item)
  BY <1>1, <1>2, <1>3, <1>7, <1>8, <1>9, RestoreFrame
<1>11. /\ image' = image /\ Kept(part)' = Kept(part)
       /\ act'.left \subseteq image.files
       /\ part \notin act'.hushed => image.files \ act'.left \subseteq content'[part]
       /\ content'[part] \subseteq image.files \cup Kept(part)
       /\ ~mixed /\ ~backups[act.b].broken => act'.hushed \subseteq Raw
  <2>1. image' = image /\ Kept(part)' = Kept(part)
    BY <1>3, <1>7 DEF image, Kept
  <2>2. part \notin act'.hushed => image.files \ act'.left \subseteq content'[part]
    BY <1>4, <1>5, <1>7, <1>8
  <2>3. content'[part] \subseteq image.files \cup Kept(part)
    BY <1>1, <1>4, <1>5, <1>8
  <2>4. QED
    BY <1>5, <1>6, <1>7, <2>1, <2>2, <2>3
<1>12. StepsInv' /\ RestoreInv'
  BY <1>1, <1>2, <1>3, <1>5, <1>7, <1>10, <1>11 DEF StepsInv, RestoreInv, Idle, At
<1>13. QED
  BY <1>10, <1>12 DEF IInv

LEMMA ExtractFailsStep == ASSUME IInv, ExtractFails PROVE IInv'
<1>1. act.pc = "extract" /\ act.op = "restore" /\ ~Idle
  BY DEF ExtractFails, At, Idle
<1>2. act.todo # {}
  BY <1>1 DEF IInv, StepsInv
<1>3. QED
  BY <1>1, <1>2, RestoreEnds DEF ExtractFails, disk, history, store

LEMMA ExtractDoneStep == ASSUME IInv, ExtractDone PROVE IInv'
<1>1. act.pc = "extract" /\ act.op = "restore" /\ ~Idle /\ act.left = {}
  BY DEF ExtractDone, At, Idle
<1>2. /\ TypeOK /\ StepsInv /\ RestoreInv /\ act \in Actions /\ act.b \in DOMAIN backups /\ act.fresh = {}
      /\ act.todo # {} /\ part \in act.todo /\ part \in Parts
  BY <1>1, Restored DEF StepsInv
<1>3. /\ act' \in Actions /\ act'.pc = "next" /\ act'.op = act.op /\ act'.b = act.b
      /\ act'.todo = act.todo \ {part} /\ act'.ok = act.ok
      /\ act'.hushed = act.hushed /\ act'.fresh = act.fresh
  BY <1>2, NextParts DEF ExtractDone
<1>4. UNCHANGED <<content, blobs, short, backups, settings, gcDone, origin, before, mixed, faults>>
  BY DEF ExtractDone, disk, history, store
<1>5. /\ content' \in [Parts -> SUBSET (Files \cup Pieces)]
      /\ \A q \in Parts : content'[q] \subseteq Holds(q)
      /\ mounted' \subseteq Parts \ Raw
  BY <1>2, <1>4 DEF TypeOK, VolumesTypeOK, Holds, ExtractDone, EnsureUnmounted
<1>6. /\ image.fmt # "none"
      /\ part \notin act'.hushed => image.files \subseteq content'[part]
      /\ content'[part] \subseteq image.files \cup Kept(part)
  BY <1>1, <1>2, <1>3, <1>4 DEF RestoreInv
<1>7. /\ TypeOK' /\ ImagesInv' /\ OriginInv' /\ BlobsInv' /\ DamageConfined'
      /\ act'.todo \subseteq Asked(backups'[act'.b].item)
      /\ \A p \in act'.todo : content'[p] = before'[p]
  BY <1>1, <1>2, <1>3, <1>4, <1>5, <1>6, RestoreFrame
<1>8. StepsInv' /\ RestoreInv'
  BY <1>1, <1>2, <1>3, <1>4, <1>7 DEF StepsInv, RestoreInv, Idle, At
<1>9. QED
  BY <1>7, <1>8 DEF IInv

LEMMA FinishRestoreStep == ASSUME IInv, FinishRestore PROVE IInv'
<1>1. act.pc = "next" /\ act.op = "restore" /\ ~Idle /\ act.todo = {}
  BY DEF FinishRestore, At, Idle
<1>2. TypeOK /\ StepsInv /\ RestoreInv /\ act \in Actions /\ act.b \in DOMAIN backups /\ act.fresh = {}
  BY <1>1, Restored
<1>3. /\ act' \in Actions /\ act'.pc = "idle" /\ act'.op = act.op /\ act'.b = act.b
      /\ act'.todo = act.todo
      /\ act'.hushed = act.hushed /\ act'.fresh = act.fresh
  BY <1>1, <1>2, Ends DEF FinishRestore
<1>4. UNCHANGED <<content, blobs, short, backups, settings, gcDone, origin, before, mixed, faults, mounted>>
  BY DEF FinishRestore, disk, history, store
<1>5. /\ content' \in [Parts -> SUBSET (Files \cup Pieces)]
      /\ \A q \in Parts : content'[q] \subseteq Holds(q)
      /\ mounted' \subseteq Parts \ Raw
  BY <1>2, <1>4 DEF TypeOK, VolumesTypeOK, Holds
<1>6. /\ TypeOK' /\ ImagesInv' /\ OriginInv' /\ BlobsInv' /\ DamageConfined'
      /\ act'.todo \subseteq Asked(backups'[act'.b].item)
  BY <1>1, <1>2, <1>3, <1>4, <1>5, RestoreFrame
<1>7. StepsInv' /\ RestoreInv'
  BY <1>1, <1>2, <1>3, <1>4, <1>6 DEF StepsInv, RestoreInv, Idle, At
<1>8. QED
  BY <1>6, <1>7 DEF IInv

-----------------------------------------------------------------------------
(* The steps of a backup.                                                   *)

LEMMA StartBackupStep ==
    ASSUME IInv, NEW b \in Backups, NEW item \in Items, StartBackup(b, item)
    PROVE  IInv'
<1> DEFINE new == [item |-> item, finished |-> FALSE, broken |-> FALSE, image |-> [p \in Parts |-> NoImage]]
<1>1. TypeOK /\ ImagesInv /\ OriginInv /\ BlobsInv
  BY DEF IInv
<1>2. /\ b \notin DOMAIN backups /\ backups' = With(backups, b, new) /\ origin' = With(origin, b, <<>>)
      /\ UNCHANGED <<content, mounted, blobs, short, settings, gcDone, faults, mixed>>
  BY DEF StartBackup, store
<1>3. /\ act' \in Actions /\ act'.op = "backup" /\ act'.pc = "next" /\ act'.b = b /\ act'.ok /\ act'.fresh = {}
  <2>1. (IF item = "all" THEN Parts ELSE {item}) \in SUBSET Parts
    BY DEF Items, Restorable
  <2>2. QED
    BY <2>1 DEF StartBackup, Actions, Nothing
<1>4. NoImage \in Images /\ NoImage.fmt = "none" /\ NoImage.files = {}
  BY DEF NoImage, NewImage, Images, Tails
<1>5. new \in Backup /\ ~new.finished /\ ~new.broken /\ \A p \in Parts : new.image[p] = NoImage
  BY <1>4 DEF Backup
<1> HIDE DEF new
<1>6. /\ DOMAIN backups' = DOMAIN backups \cup {b} /\ backups'[b] = new
      /\ \A c \in DOMAIN backups : c # b /\ backups'[c] = backups[c]
      /\ DOMAIN origin' = DOMAIN origin \cup {b} /\ DOMAIN origin'[b] = {}
      /\ \A c \in DOMAIN origin : c # b /\ origin'[c] = origin[c]
  <2>1. b \notin DOMAIN origin
    BY <1>1, <1>2 DEF ImagesInv
  <2>2. /\ DOMAIN backups' = DOMAIN backups \cup {b} /\ backups'[b] = new
        /\ \A c \in DOMAIN backups : c # b /\ backups'[c] = backups[c]
    BY <1>2 DEF With
  <2>3. /\ DOMAIN origin' = DOMAIN origin \cup {b} /\ origin'[b] = <<>>
        /\ \A c \in DOMAIN origin : c # b /\ origin'[c] = origin[c]
    BY <1>2, <2>1 DEF With
  <2>4. DOMAIN <<>> = {}
    OBVIOUS
  <2>5. QED
    BY <2>2, <2>3, <2>4
<1>7. TypeOK'
  BY <1>1, <1>2, <1>3, <1>5, <1>6 DEF TypeOK, VolumesTypeOK, Holds, Idle
<1>8. StepsInv'
  BY <1>3 DEF StepsInv, Idle, At
<1>9. ImagesInv'
  BY <1>1, <1>4, <1>5, <1>6 DEF ImagesInv, Holds
<1>10. OriginInv'
  BY <1>1, <1>3, <1>5, <1>6 DEF ImagesInv, OriginInv, FinishedInv, Recorded
<1>11. BlobsInv'
  BY <1>1, <1>2, <1>3, <1>4, <1>5, <1>6 DEF BlobsInv, StoredInv, FreshInv
<1>12. QED
  BY <1>3, <1>7, <1>8, <1>9, <1>10, <1>11, NoRestore DEF IInv

(* A step of a backup at its partition.                                     *)
LEMMA BackedUp ==
    ASSUME IInv, act.op = "backup", ~Idle
    PROVE  /\ TypeOK /\ StepsInv /\ ImagesInv /\ OriginInv /\ BlobsInv
           /\ act \in Actions /\ act.b \in DOMAIN backups /\ act.b \in DOMAIN origin
           /\ ~backups[act.b].finished /\ ~backups[act.b].broken
           /\ image = backups[act.b].image[part]
           /\ act.todo # {} => /\ part \in act.todo /\ part \in Parts
                               /\ image \in Images /\ image.files \subseteq Holds(part)
                               /\ content[part] \in SUBSET (Files \cup Pieces)
                               /\ content[part] \subseteq Holds(part)
<1>1. TypeOK /\ StepsInv /\ ImagesInv /\ OriginInv /\ BlobsInv
  BY DEF IInv
<1>2. act \in Actions /\ act.b \in DOMAIN backups /\ act.b \in DOMAIN origin
      /\ ~backups[act.b].finished /\ ~backups[act.b].broken
  BY <1>1 DEF TypeOK, ImagesInv, OriginInv
<1>3. ASSUME act.todo # {}
      PROVE  part \in act.todo /\ part \in Parts
  BY <1>2, <1>3, FirstIsOne DEF Actions, part
<1>4. image = backups[act.b].image[part]
  BY DEF image
<1>5. ASSUME part \in Parts
      PROVE  /\ image \in Images /\ image.files \subseteq Holds(part)
             /\ content[part] \in SUBSET (Files \cup Pieces) /\ content[part] \subseteq Holds(part)
  BY <1>1, <1>2, <1>4, <1>5 DEF TypeOK, VolumesTypeOK, ImagesInv, Backup
<1>6. QED
  BY <1>1, <1>2, <1>3, <1>4, <1>5

(* What a step of a backup writes: the image it is at, and the history of   *)
(* that partition.                                                          *)
LEMMA BackupFrame ==
    ASSUME IInv, act.op = "backup", ~Idle, act.todo # {},
           NEW i \in Images, SetImage(i) \/ (UNCHANGED backups /\ i = image),
           i.files \subseteq Holds(part),
           act' \in Actions, act'.op # "backup" \/ (act'.op = "backup" /\ act'.b = act.b /\ act'.pc # "idle"),
           act'.pc \in {"idle", "next", "gc", "store", "close"}, act'.op \in {"none", "backup"},
           act'.op = "none" <=> act'.pc = "idle",
           act'.op = "backup" => act'.fresh \subseteq act.fresh \cup (Files \ blobs),
           act'.pc \in {"gc", "store", "close"} =>
              act'.todo = act.todo /\ part \notin Raw /\ part \in mounted',
           UNCHANGED <<content, settings, mixed>>, gcDone' \in BOOLEAN,
           \A m \in Manifests : ~mixed /\ m.files \subseteq blobs => m.files \subseteq blobs',
           blobs' \cup short' \subseteq Files,
           mounted' \subseteq Parts \ Raw,
           Fault \/ UNCHANGED faults,
           DOMAIN origin' = DOMAIN origin,
           DOMAIN origin'[act.b] \subseteq DOMAIN origin[act.b] \cup {part},
           \A b \in DOMAIN origin \ {act.b} : origin'[b] = origin[b],
           \A p \in DOMAIN origin'[act.b] : p # part => origin'[act.b][p] = origin[act.b][p],
           ~mixed /\ i.fmt = "dup" => i.tail # "newer" /\ i.files \subseteq blobs'
    PROVE  /\ TypeOK' /\ StepsInv' /\ ImagesInv' /\ RestoreInv' /\ DamageConfined'
           /\ act'.pc \in {"gc", "store", "close"} => part' = part /\ image' = i
           /\ StoredInv' /\ FreshInv'
           /\ FinishedInv'
           /\ act'.op = "backup" => ~backups'[act'.b].finished /\ ~backups'[act'.b].broken
           /\ \A b \in {act.b} : \A p \in DOMAIN origin'[b] :
                 p # part /\ p \in DOMAIN origin[b] => p \notin act.todo /\ Recorded(b, p)'
           /\ backups'[act.b].image[part] = i
<1>1. /\ TypeOK /\ StepsInv /\ ImagesInv /\ OriginInv /\ BlobsInv
      /\ act \in Actions /\ act.b \in DOMAIN backups /\ act.b \in DOMAIN origin
      /\ ~backups[act.b].finished /\ ~backups[act.b].broken
      /\ image = backups[act.b].image[part]
      /\ part \in act.todo /\ part \in Parts
  BY BackedUp
<1>2. /\ DOMAIN backups' = DOMAIN backups
      /\ \A b \in DOMAIN backups :
           /\ backups'[b] \in Backup
           /\ backups'[b].item = backups[b].item /\ backups'[b].finished = backups[b].finished
           /\ backups'[b].broken = backups[b].broken
           /\ \A p \in Parts : backups'[b].image[p] =
                IF b = act.b /\ p = part THEN i ELSE backups[b].image[p]
  <2>1. CASE SetImage(i)
    BY <1>1, <2>1, ImageSet
  <2>2. CASE UNCHANGED backups /\ i = image
    BY <1>1, <2>2 DEF TypeOK
  <2>3. QED
    BY <2>1, <2>2
<1>3. act'.pc \in {"gc", "store", "close"} => part' = part /\ image' = i
  BY <1>1, <1>2 DEF part, image
<1>4. TypeOK'
  <2>1. VolumesTypeOK' /\ faults' \in 0..MaxFaults
    BY <1>1, FaultTyped DEF TypeOK, VolumesTypeOK, Holds
  <2>2. QED
    BY <1>1, <1>2, <1>3, <2>1 DEF TypeOK, Idle
<1>5. StepsInv'
  BY <1>1, <1>3 DEF StepsInv, Idle, At
<1>6. ImagesInv'
  BY <1>1, <1>2 DEF ImagesInv, Holds
<1>7. StoredInv'
  BY <1>1, <1>2 DEF BlobsInv, StoredInv, FreshInv, Manifests
<1>11. FreshInv'
  BY <1>1, <1>2 DEF BlobsInv, StoredInv, FreshInv
<1>8. FinishedInv'
  BY <1>1, <1>2 DEF FinishedInv, OriginInv, ImagesInv, Recorded
<1>9. \A b \in {act.b} : \A p \in DOMAIN origin'[b] :
         p # part /\ p \in DOMAIN origin[b] => p \notin act.todo /\ Recorded(b, p)'
  BY <1>1, <1>2 DEF OriginInv, ImagesInv, Recorded
<1>10. QED
  BY <1>1, <1>2, <1>3, <1>4, <1>5, <1>6, <1>7, <1>8, <1>9, <1>11, NoRestore

LEMMA DumpRawStep == ASSUME IInv, DumpRaw PROVE IInv'
<1>1. act.pc = "next" /\ act.op = "backup" /\ ~Idle /\ act.todo # {} /\ part \in Raw
  BY DEF DumpRaw, At, Idle
<1>2. /\ TypeOK /\ StepsInv /\ ImagesInv /\ OriginInv /\ BlobsInv
      /\ act \in Actions /\ act.b \in DOMAIN backups /\ act.b \in DOMAIN origin
      /\ part \in act.todo /\ part \in Parts
      /\ content[part] \in SUBSET (Files \cup Pieces) /\ content[part] \subseteq Holds(part)
  BY <1>1, BackedUp
<1>3. UNCHANGED <<content, mounted, blobs, short, settings, gcDone, before, mixed>>
  BY DEF DumpRaw, store
<1>4. /\ mounted' \subseteq Parts \ Raw /\ gcDone' \in BOOLEAN /\ blobs' \cup short' \subseteq Files
  BY <1>2, <1>3 DEF TypeOK, VolumesTypeOK
<1> DEFINE i(got, tail) == NewImage("raw", got, tail)
<1>5. \A got \in SUBSET content[part], tail \in Tails :
        i(got, tail) \in Images /\ i(got, tail).fmt = "raw" /\ i(got, tail).files = got
  BY <1>2 DEF NewImage, Images
<1> HIDE DEF i
<1>6. CASE /\ SetImage(i(content[part], "whole"))
           /\ NextPart /\ UNCHANGED faults
           /\ origin' = [origin EXCEPT ![act.b] = With(@, part, content[part])]
  <2>1. /\ act' \in Actions /\ act'.pc = "next" /\ act'.op = "backup" /\ act'.b = act.b
        /\ act'.todo = act.todo \ {part} /\ act'.ok = act.ok /\ act'.fresh = act.fresh
    BY <1>1, <1>2, <1>6, NextParts
  <2>2. /\ DOMAIN origin' = DOMAIN origin
        /\ DOMAIN origin'[act.b] = DOMAIN origin[act.b] \cup {part}
        /\ origin'[act.b][part] = content[part]
        /\ \A b \in DOMAIN origin \ {act.b} : origin'[b] = origin[b]
        /\ \A p \in DOMAIN origin'[act.b] : p # part => origin'[act.b][p] = origin[act.b][p]
    BY <1>2, <1>6 DEF With
  <2>3. /\ i(content[part], "whole") \in Images /\ i(content[part], "whole").fmt = "raw"
        /\ i(content[part], "whole").files = content[part]
    BY <1>5 DEF Tails
  <2>4. /\ TypeOK' /\ StepsInv' /\ ImagesInv' /\ RestoreInv' /\ DamageConfined'
        /\ StoredInv' /\ FreshInv'
        /\ FinishedInv'
        /\ ~backups'[act'.b].finished /\ ~backups'[act'.b].broken
        /\ \A b \in {act.b} : \A p \in DOMAIN origin'[b] :
             p # part /\ p \in DOMAIN origin[b] => p \notin act.todo /\ Recorded(b, p)'
        /\ backups'[act.b].image[part] = i(content[part], "whole")
    BY <1>1, <1>2, <1>3, <1>4, <1>6, <2>1, <2>2, <2>3, BackupFrame
  <2>5. OriginInv'
    BY <1>1, <1>2, <2>1, <2>2, <2>3, <2>4 DEF OriginInv, Recorded
  <2>6. BlobsInv'
    BY <1>3, <2>1, <2>4 DEF BlobsInv
  <2>7. QED
    BY <2>4, <2>5, <2>6 DEF IInv
<1>7. ASSUME NEW got \in SUBSET content[part], SetImage(i(got, "cut")),
             Fault, End(FALSE) \/ NextPart, UNCHANGED origin
      PROVE  IInv'
  <2>1. /\ act' \in Actions
        /\ \/ act'.pc = "idle" /\ act'.op = "none"
           \/ /\ act'.pc = "next" /\ act'.op = "backup" /\ act'.b = act.b
              /\ act'.todo = act.todo \ {part} /\ act'.ok = act.ok /\ act'.fresh = act.fresh
    BY <1>1, <1>2, <1>7, NextParts, Ends
  <2>2. i(got, "cut") \in Images /\ i(got, "cut").fmt = "raw" /\ i(got, "cut").files = got
    BY <1>5 DEF Tails
  <2>3. part \notin DOMAIN origin[act.b]
    BY <1>1, <1>2 DEF OriginInv
  <2>4. /\ TypeOK' /\ StepsInv' /\ ImagesInv' /\ RestoreInv' /\ DamageConfined'
        /\ StoredInv' /\ FreshInv'
        /\ FinishedInv'
        /\ act'.op = "backup" => ~backups'[act'.b].finished /\ ~backups'[act'.b].broken
        /\ \A b \in {act.b} : \A p \in DOMAIN origin'[b] :
             p # part /\ p \in DOMAIN origin[b] => p \notin act.todo /\ Recorded(b, p)'
    BY <1>1, <1>2, <1>3, <1>4, <1>7, <2>1, <2>2, BackupFrame
  <2>5. OriginInv'
    BY <1>1, <1>2, <1>7, <2>1, <2>3, <2>4 DEF OriginInv, Recorded
  <2>6. BlobsInv'
    BY <1>3, <2>1, <2>4 DEF BlobsInv
  <2>7. QED
    BY <2>4, <2>5, <2>6 DEF IInv
<1>8. QED
  BY <1>6, <1>7 DEF DumpRaw, i

(* The image of the next partition is begun, with all its files to come.    *)
LEMMA ImageBegins ==
    ASSUME IInv, act.op = "backup", act.pc \in {"next", "gc"}, act.todo # {}, part \notin Raw,
           SetImage(NewImage(settings.format, {}, "cut")), Goto("store", content[part]),
           UNCHANGED <<content, settings, mixed, faults>>, gcDone' \in BOOLEAN,
           mounted' \subseteq Parts \ Raw, part \in mounted',
           \A m \in Manifests : ~mixed /\ m.files \subseteq blobs => m.files \subseteq blobs',
           blobs' \cup short' \subseteq Files,
           \/ act.pc = "next" /\ origin' = [origin EXCEPT ![act.b] = With(@, part, content[part])]
           \/ act.pc = "gc" /\ origin' = origin
    PROVE  IInv'
<1> DEFINE i == NewImage(settings.format, {}, "cut")
<1>1. /\ TypeOK /\ StepsInv /\ ImagesInv /\ OriginInv /\ BlobsInv /\ ~Idle
      /\ act \in Actions /\ act.b \in DOMAIN backups /\ act.b \in DOMAIN origin
      /\ part \in act.todo /\ part \in Parts
      /\ content[part] \in SUBSET (Files \cup Pieces) /\ content[part] \subseteq Holds(part)
  BY BackedUp DEF Idle
<1>2. i \in Images /\ i.fmt \in Formats /\ i.files = {} /\ i.tail = "cut"
  BY <1>1 DEF TypeOK, NewImage, Images, Tails
<1> HIDE DEF i
<1>3. /\ act' \in Actions /\ act'.pc = "store" /\ act'.op = "backup" /\ act'.b = act.b
      /\ act'.todo = act.todo /\ act'.ok = act.ok /\ act'.fresh = act.fresh /\ act'.left = content[part] /\ part' = part
  BY <1>1, Gotos
<1>4. /\ DOMAIN origin' = DOMAIN origin
      /\ DOMAIN origin'[act.b] \subseteq DOMAIN origin[act.b] \cup {part}
      /\ part \in DOMAIN origin'[act.b] => origin'[act.b][part] = content[part]
      /\ \A b \in DOMAIN origin \ {act.b} : origin'[b] = origin[b]
      /\ \A p \in DOMAIN origin'[act.b] : p # part => origin'[act.b][p] = origin[act.b][p]
  BY <1>1 DEF With, OriginInv
<1>5. /\ TypeOK' /\ StepsInv' /\ ImagesInv' /\ RestoreInv' /\ DamageConfined'
      /\ part' = part /\ image' = i
      /\ StoredInv' /\ FreshInv' /\ FinishedInv' /\ ~backups'[act'.b].finished /\ ~backups'[act'.b].broken
      /\ \A b \in {act.b} : \A p \in DOMAIN origin'[b] :
           p # part /\ p \in DOMAIN origin[b] => p \notin act.todo /\ Recorded(b, p)'
  BY <1>1, <1>2, <1>3, <1>4, BackupFrame DEF i
<1>6. act.ok
  BY <1>1 DEF OriginInv
<1>7. OriginInv'
  BY <1>1, <1>2, <1>3, <1>4, <1>5, <1>6 DEF OriginInv
<1>8. BlobsInv'
  BY <1>2, <1>3, <1>5 DEF BlobsInv
<1>9. QED
  BY <1>5, <1>7, <1>8 DEF IInv

(* An error ends the backup; its directory stays as it is, not finished.    *)
LEMMA BackupEnds ==
    ASSUME IInv, act.op = "backup", ~Idle, act.todo # {},
           NEW i \in Images, SetImage(i) \/ (UNCHANGED backups /\ i = image),
           i.files \subseteq Holds(part),
           ~mixed /\ i.fmt = "dup" => i.tail # "newer" /\ i.files \subseteq blobs',
           End(FALSE), UNCHANGED <<content, settings, mixed>>, gcDone' \in BOOLEAN,
           \A m \in Manifests : ~mixed /\ m.files \subseteq blobs => m.files \subseteq blobs',
           blobs' \cup short' \subseteq Files, mounted' \subseteq Parts \ Raw,
           Fault \/ UNCHANGED faults,
           DOMAIN origin' = DOMAIN origin,
           DOMAIN origin'[act.b] \subseteq DOMAIN origin[act.b] \cup {part},
           \A b \in DOMAIN origin \ {act.b} : origin'[b] = origin[b],
           \A p \in DOMAIN origin'[act.b] : p # part => origin'[act.b][p] = origin[act.b][p]
    PROVE  IInv'
<1>1. act \in Actions
  BY BackedUp
<1>2. act' \in Actions /\ act'.pc = "idle" /\ act'.op = "none"
  BY <1>1, Ends
<1>3. /\ TypeOK' /\ StepsInv' /\ ImagesInv' /\ RestoreInv' /\ DamageConfined'
      /\ StoredInv' /\ FreshInv' /\ FinishedInv'
  BY <1>2, BackupFrame
<1>4. OriginInv' /\ BlobsInv'
  BY <1>2, <1>3 DEF OriginInv, BlobsInv
<1>5. QED
  BY <1>3, <1>4 DEF IInv

LEMMA OpenImageStep == ASSUME IInv, OpenImage PROVE IInv'
<1>1. act.pc = "next" /\ act.op = "backup" /\ ~Idle /\ act.todo # {} /\ part \notin Raw
  BY DEF OpenImage, At, Idle
<1>2. /\ TypeOK /\ StepsInv /\ ImagesInv /\ OriginInv /\ BlobsInv
      /\ act \in Actions /\ act.b \in DOMAIN backups /\ act.b \in DOMAIN origin
      /\ ~backups[act.b].broken /\ image = backups[act.b].image[part]
      /\ part \in act.todo /\ part \in Parts /\ image \in Images /\ image.files \subseteq Holds(part)
  BY <1>1, BackedUp
<1>3. /\ UNCHANGED <<content, blobs, short, settings, before, mixed>>
      /\ origin' = [origin EXCEPT ![act.b] = With(@, part, content[part])]
  BY DEF OpenImage, store
<1>4. /\ DOMAIN origin' = DOMAIN origin
      /\ DOMAIN origin'[act.b] \subseteq DOMAIN origin[act.b] \cup {part}
      /\ origin'[act.b][part] = content[part]
      /\ \A b \in DOMAIN origin \ {act.b} : origin'[b] = origin[b]
      /\ \A p \in DOMAIN origin'[act.b] : p # part => origin'[act.b][p] = origin[act.b][p]
  BY <1>2, <1>3 DEF With
<1>5. blobs' \cup short' \subseteq Files /\ (~mixed /\ image.fmt = "dup" => image.tail # "newer" /\ image.files \subseteq blobs')
  BY <1>2, <1>3 DEF TypeOK, BlobsInv, StoredInv, FreshInv
<1>6. CASE EnsureMounted(part) /\ UNCHANGED <<faults, backups>> /\ gcDone' = TRUE /\ Goto("gc", {})
  <2>1. /\ act' \in Actions /\ act'.pc = "gc" /\ act'.op = "backup" /\ act'.b = act.b
        /\ act'.todo = act.todo /\ act'.ok = act.ok /\ act'.fresh = act.fresh /\ part' = part
    BY <1>1, <1>2, <1>6, Gotos
  <2>2. mounted' \subseteq Parts \ Raw /\ part \in mounted'
    BY <1>1, <1>2, <1>6 DEF EnsureMounted, TypeOK, VolumesTypeOK
  <2>3. /\ TypeOK' /\ StepsInv' /\ ImagesInv' /\ RestoreInv' /\ DamageConfined'
        /\ StoredInv' /\ FreshInv' /\ FinishedInv' /\ ~backups'[act'.b].finished /\ ~backups'[act'.b].broken
        /\ \A b \in {act.b} : \A p \in DOMAIN origin'[b] :
             p # part /\ p \in DOMAIN origin[b] => p \notin act.todo /\ Recorded(b, p)'
    BY <1>1, <1>2, <1>3, <1>4, <1>5, <1>6, <2>1, <2>2, BackupFrame
  <2>4. act.ok
    BY <1>1, <1>2 DEF OriginInv
  <2>5. OriginInv' /\ BlobsInv'
    BY <1>2, <1>3, <1>4, <2>1, <2>3, <2>4 DEF OriginInv, BlobsInv
  <2>6. QED
    BY <2>3, <2>5 DEF IInv
<1>7. CASE /\ EnsureMounted(part) /\ UNCHANGED <<faults, gcDone>>
           /\ Goto("store", content[part]) /\ SetImage(NewImage(settings.format, {}, "cut"))
  <2>1. mounted' \subseteq Parts \ Raw /\ part \in mounted' /\ gcDone' \in BOOLEAN
    BY <1>1, <1>2, <1>7 DEF EnsureMounted, TypeOK, VolumesTypeOK
  <2>2. QED
    BY <1>1, <1>3, <1>5, <1>7, <2>1, ImageBegins
<1>8. CASE CannotMount(part) /\ Fault /\ End(FALSE) /\ UNCHANGED <<gcDone, backups>>
  <2>1. mounted' \subseteq Parts \ Raw /\ gcDone' \in BOOLEAN
    BY <1>2, <1>8 DEF CannotMount, TypeOK, VolumesTypeOK
  <2>2. QED
    BY <1>1, <1>2, <1>3, <1>4, <1>5, <1>8, <2>1, BackupEnds
<1>9. QED
  BY <1>6, <1>7, <1>8 DEF OpenImage

(* A step of a handler: an image is being written.                          *)
LEMMA Storing ==
    ASSUME IInv, act.op = "backup", act.pc \in {"store", "close"}
    PROVE  /\ TypeOK /\ StepsInv /\ ImagesInv /\ OriginInv /\ BlobsInv /\ ~Idle
           /\ act \in Actions /\ act.b \in DOMAIN backups /\ act.b \in DOMAIN origin
           /\ image = backups[act.b].image[part]
           /\ act.todo # {} /\ part \in act.todo /\ part \in Parts /\ part \notin Raw /\ part \in mounted
           /\ image \in Images /\ image.fmt \in Formats
           /\ image.files \subseteq Holds(part) /\ Holds(part) = Files
           /\ act.pc = "store" => act.left \subseteq content[part]
           /\ content[part] \subseteq Files
           /\ ~mixed /\ image.fmt = "dup" => image.files \subseteq blobs /\ image.tail # "newer"
           /\ blobs \cup short \subseteq Files /\ gcDone \in BOOLEAN /\ mounted \subseteq Parts \ Raw
<1>1. StepsInv /\ TypeOK /\ ~Idle /\ BlobsInv /\ OriginInv
  BY DEF IInv, Idle
<1>2. act.todo # {} /\ part \notin Raw /\ part \in mounted
  BY <1>1 DEF StepsInv, TypeOK
<1>3. /\ ImagesInv
      /\ act \in Actions /\ act.b \in DOMAIN backups /\ act.b \in DOMAIN origin
      /\ ~backups[act.b].broken /\ image = backups[act.b].image[part]
      /\ part \in act.todo /\ part \in Parts /\ image \in Images /\ image.files \subseteq Holds(part)
      /\ content[part] \subseteq Holds(part)
  BY <1>1, <1>2, BackedUp
<1>4. /\ image.fmt \in Formats /\ Holds(part) = Files
      /\ blobs \cup short \subseteq Files /\ gcDone \in BOOLEAN /\ mounted \subseteq Parts \ Raw
  BY <1>1, <1>2 DEF OriginInv, Holds, TypeOK, VolumesTypeOK
<1>5. /\ act.pc = "store" => act.left \subseteq content[part]
      /\ ~mixed /\ image.fmt = "dup" => image.files \subseteq blobs /\ image.tail # "newer"
  BY <1>1, <1>3 DEF BlobsInv, StoredInv, FreshInv
<1>6. QED
  BY <1>1, <1>2, <1>3, <1>4, <1>5

LEMMA StoreFileStep == ASSUME IInv, NEW f \in Files, StoreFile(f) PROVE IInv'
<1>1. act.pc = "store" /\ act.op = "backup" /\ f \in act.left
  BY DEF StoreFile, At
<1>2. /\ TypeOK /\ OriginInv /\ BlobsInv /\ ~Idle
      /\ act \in Actions /\ act.b \in DOMAIN backups /\ act.b \in DOMAIN origin
      /\ image = backups[act.b].image[part]
      /\ act.todo # {} /\ part \in act.todo /\ part \in Parts /\ part \notin Raw /\ part \in mounted
      /\ image \in Images /\ image.fmt \in Formats
      /\ image.files \subseteq Files /\ Holds(part) = Files /\ content[part] \subseteq Files
      /\ act.left \subseteq content[part]
      /\ ~mixed /\ image.fmt = "dup" => image.files \subseteq blobs /\ image.tail # "newer"
      /\ blobs \cup short \subseteq Files /\ gcDone \in BOOLEAN /\ mounted \subseteq Parts \ Raw
  BY <1>1, Storing
<1> DEFINE i == [image EXCEPT !.files = @ \cup {f}]
<1>3. /\ i \in Images /\ i.files = image.files \cup {f} /\ i.fmt = image.fmt /\ i.tail = image.tail
  BY <1>2 DEF Images
<1>4. /\ UNCHANGED <<content, mounted, settings, gcDone, faults, origin, before, mixed>>
      /\ SetImage(i)
      /\ IF image.fmt = "dup"
         THEN /\ blobs' = blobs \cup {f} /\ short' = short \ {f}
              /\ act' = [act EXCEPT !.left = @ \ {f}, !.fresh = @ \cup ({f} \ blobs)]
         ELSE UNCHANGED <<blobs, short>> /\ Goto("store", act.left \ {f})
  BY DEF StoreFile, history, store, StoreBlobs
<1> HIDE DEF i
<1>5. /\ act' \in Actions /\ act'.pc = "store" /\ act'.op = "backup" /\ act'.b = act.b
      /\ act'.todo = act.todo /\ act'.ok = act.ok /\ act'.left = act.left \ {f} /\ part' = part
      /\ act'.fresh \subseteq act.fresh \cup (Files \ blobs)
  <2>1. act.left \ {f} \in SUBSET (Files \cup Pieces)
    BY <1>2
  <2>2. CASE image.fmt = "dup"
    <3>1. act' = [act EXCEPT !.left = @ \ {f}, !.fresh = @ \cup ({f} \ blobs)]
      BY <1>4, <2>2
    <3>2. act.fresh \cup ({f} \ blobs) \in SUBSET Files
      BY <1>2 DEF Actions
    <3>3. act' \in Actions
      BY <1>2, <2>1, <3>1, <3>2 DEF Actions
    <3>4. /\ act'.pc = act.pc /\ act'.op = act.op /\ act'.b = act.b /\ act'.todo = act.todo /\ act'.ok = act.ok
          /\ act'.left = act.left \ {f} /\ act'.fresh = act.fresh \cup ({f} \ blobs)
      BY <1>2, <3>1 DEF Actions
    <3>5. QED
      BY <1>1, <3>3, <3>4 DEF part
  <2>3. CASE image.fmt # "dup"
    BY <1>1, <1>2, <1>4, <2>1, <2>3, Gotos
  <2>4. QED
    BY <2>2, <2>3
<1>6. /\ TypeOK' /\ StepsInv' /\ ImagesInv' /\ RestoreInv' /\ DamageConfined'
      /\ part' = part /\ image' = i
      /\ StoredInv' /\ FreshInv' /\ FinishedInv' /\ ~backups'[act'.b].finished /\ ~backups'[act'.b].broken
      /\ \A b \in {act.b} : \A p \in DOMAIN origin'[b] :
           p # part /\ p \in DOMAIN origin[b] => p \notin act.todo /\ Recorded(b, p)'
  BY <1>1, <1>2, <1>3, <1>4, <1>5, BackupFrame
<1>7. OriginInv'
  BY <1>1, <1>2, <1>3, <1>4, <1>5, <1>6 DEF OriginInv
<1>8. BlobsInv'
  BY <1>1, <1>2, <1>3, <1>4, <1>5, <1>6 DEF BlobsInv
<1>9. QED
  BY <1>6, <1>7, <1>8 DEF IInv

(* The handler is through, well or not: the image has its end.              *)
LEMMA HandlerEnds ==
    ASSUME IInv, act.op = "backup", act.pc = "store", NEW i \in Images, SetImage(i),
           i.fmt = image.fmt, i.files \subseteq Files,
           act' \in Actions, act'.pc = "close", act'.op = "backup", act'.b = act.b, act'.todo = act.todo,
           act'.fresh \subseteq act.fresh \cup (Files \ blobs),
           UNCHANGED <<content, mounted, settings, gcDone, mixed>>,
           blobs \subseteq blobs', blobs' \cup short' \subseteq Files,
           Fault \/ UNCHANGED faults,
           ~mixed /\ i.fmt = "dup" => i.tail # "newer" /\ i.files \subseteq blobs',
           DOMAIN origin' = DOMAIN origin,
           DOMAIN origin'[act.b] \subseteq DOMAIN origin[act.b],
           \A b \in DOMAIN origin \ {act.b} : origin'[b] = origin[b],
           \A p \in DOMAIN origin'[act.b] : origin'[act.b][p] = origin[act.b][p],
           act'.ok => part \notin DOMAIN origin'[act.b] \/ (i.files = image.files /\ act.left = {})
    PROVE  IInv'
<1>1. /\ TypeOK /\ OriginInv /\ ~Idle
      /\ act \in Actions /\ act.b \in DOMAIN backups /\ act.b \in DOMAIN origin
      /\ act.todo # {} /\ part \in act.todo /\ part \in Parts /\ part \notin Raw /\ part \in mounted
      /\ image.fmt \in Formats /\ Holds(part) = Files
      /\ gcDone \in BOOLEAN /\ mounted \subseteq Parts \ Raw
  BY Storing
<1>2. /\ TypeOK' /\ StepsInv' /\ ImagesInv' /\ RestoreInv' /\ DamageConfined'
      /\ part' = part /\ image' = i
      /\ StoredInv' /\ FreshInv' /\ FinishedInv' /\ ~backups'[act'.b].finished /\ ~backups'[act'.b].broken
      /\ \A b \in {act.b} : \A p \in DOMAIN origin'[b] :
           p # part /\ p \in DOMAIN origin[b] => p \notin act.todo /\ Recorded(b, p)'
  BY <1>1, BackupFrame
<1>3. act'.ok /\ part \in DOMAIN origin'[act.b] => origin'[act.b][part] = i.files
  BY <1>1 DEF OriginInv
<1>4. OriginInv'
  BY <1>1, <1>2, <1>3 DEF OriginInv
<1>5. BlobsInv'
  BY <1>2 DEF BlobsInv
<1>6. QED
  BY <1>2, <1>4, <1>5 DEF IInv

LEMMA StoreDoneStep == ASSUME IInv, StoreDone PROVE IInv'
<1>1. act.pc = "store" /\ act.op = "backup" /\ act.left = {}
  BY DEF StoreDone, At
<1>2. /\ act \in Actions /\ image \in Images /\ image.files \subseteq Files /\ blobs \cup short \subseteq Files
      /\ ~mixed /\ image.fmt = "dup" => image.files \subseteq blobs
  BY <1>1, Storing
<1> DEFINE i == [image EXCEPT !.tail = "whole"]
<1>3. i \in Images /\ i.files = image.files /\ i.fmt = image.fmt /\ i.tail = "whole"
  BY <1>2 DEF Images, Tails
<1>4. /\ UNCHANGED <<content, mounted, blobs, short, settings, gcDone, faults, origin, before, mixed>>
      /\ SetImage(i) /\ Goto("close", {})
  BY DEF StoreDone, history, store
<1> HIDE DEF i
<1>5. /\ act' \in Actions /\ act'.pc = "close" /\ act'.op = "backup" /\ act'.b = act.b
      /\ act'.todo = act.todo /\ act'.fresh = act.fresh
  BY <1>1, <1>2, <1>4, Gotos
<1>6. QED
  BY <1>1, <1>2, <1>3, <1>4, <1>5, HandlerEnds

LEMMA StoreFailsStep == ASSUME IInv, StoreFails PROVE IInv'
<1>1. act.pc = "store" /\ act.op = "backup"
  BY DEF StoreFails, At
<1>2. /\ act \in Actions /\ image \in Images /\ image.files \subseteq Files /\ blobs \cup short \subseteq Files
      /\ ~mixed /\ image.fmt = "dup" => image.files \subseteq blobs
  BY <1>1, Storing
<1>3. PICK tail \in {"cut", "torn"} : SetImage([image EXCEPT !.tail = tail])
  BY DEF StoreFails
<1> DEFINE i == [image EXCEPT !.tail = tail]
<1>4. i \in Images /\ i.files = image.files /\ i.fmt = image.fmt /\ i.tail = tail
  BY <1>2 DEF Images, Tails
<1>5. /\ UNCHANGED <<content, mounted, blobs, short, settings, gcDone, origin, before, mixed>>
      /\ SetImage(i) /\ Fault
  BY <1>3 DEF StoreFails, history, store
<1> HIDE DEF i
<1>6. /\ act' \in Actions /\ act'.pc = "close" /\ act'.op = "backup" /\ act'.b = act.b
      /\ act'.todo = act.todo /\ act'.ok = FALSE /\ act'.fresh = act.fresh
  BY <1>1, <1>2 DEF StoreFails, Actions
<1>7. QED
  BY <1>1, <1>2, <1>4, <1>5, <1>6, HandlerEnds

LEMMA StoreMaskedStep == ASSUME IInv, StoreMasked PROVE IInv'
<1>1. act.pc = "store" /\ act.op = "backup"
  BY DEF StoreMasked, At
<1>2. /\ TypeOK /\ OriginInv /\ BlobsInv /\ ~Idle
      /\ act \in Actions /\ act.b \in DOMAIN backups /\ act.b \in DOMAIN origin
      /\ image = backups[act.b].image[part]
      /\ act.todo # {} /\ part \in act.todo /\ part \in Parts /\ part \notin Raw /\ part \in mounted
      /\ image \in Images /\ image.fmt \in Formats
      /\ image.files \subseteq Files /\ Holds(part) = Files /\ content[part] \subseteq Files
      /\ act.left \subseteq content[part]
      /\ ~mixed /\ image.fmt = "dup" => image.files \subseteq blobs /\ image.tail # "newer"
      /\ blobs \cup short \subseteq Files /\ gcDone \in BOOLEAN /\ mounted \subseteq Parts \ Raw
  BY <1>1, Storing
<1>3. /\ UNCHANGED <<content, mounted, settings, gcDone, before, mixed>> /\ Fault
      /\ origin' = [origin EXCEPT ![act.b] = Restrict(@, DOMAIN @ \ {part})]
  BY DEF StoreMasked
<1>4. /\ DOMAIN origin' = DOMAIN origin
      /\ DOMAIN origin'[act.b] = DOMAIN origin[act.b] \ {part}
      /\ \A b \in DOMAIN origin \ {act.b} : origin'[b] = origin[b]
      /\ \A p \in DOMAIN origin'[act.b] : origin'[act.b][p] = origin[act.b][p]
  BY <1>2, <1>3 DEF Restrict
<1>5. CASE image.fmt = "tar"
  <2>1. PICK f \in act.left : Goto("store", act.left \ {f}) /\ UNCHANGED <<backups, blobs, short>>
    BY <1>5 DEF StoreMasked, store
  <2>2. /\ act' \in Actions /\ act'.pc = "store" /\ act'.op = "backup" /\ act'.b = act.b
        /\ act'.todo = act.todo /\ act'.ok = act.ok /\ act'.fresh = act.fresh /\ act'.left = act.left \ {f} /\ part' = part
    <3>1. act.left \ {f} \in SUBSET (Files \cup Pieces)
      BY <1>2
    <3>2. QED
      BY <1>1, <1>2, <2>1, <3>1, Gotos
  <2>3. /\ TypeOK' /\ StepsInv' /\ ImagesInv' /\ RestoreInv' /\ DamageConfined'
        /\ part' = part /\ image' = image
        /\ StoredInv' /\ FreshInv' /\ FinishedInv' /\ ~backups'[act'.b].finished /\ ~backups'[act'.b].broken
        /\ \A b \in {act.b} : \A p \in DOMAIN origin'[b] :
             p # part /\ p \in DOMAIN origin[b] => p \notin act.todo /\ Recorded(b, p)'
    BY <1>1, <1>2, <1>3, <1>4, <1>5, <2>1, <2>2, BackupFrame, SMTT(60)
  <2>4. OriginInv'
    BY <1>1, <1>2, <1>4, <2>2, <2>3 DEF OriginInv
  <2>5. BlobsInv'
    BY <1>2, <1>3, <1>5, <2>2, <2>3 DEF BlobsInv
  <2>6. QED
    BY <2>3, <2>4, <2>5 DEF IInv
<1>6. CASE image.fmt # "tar"
  <2>1. PICK tail \in {"cut", "torn"}, got \in SUBSET content[part] :
           SetImage([image EXCEPT !.files = got, !.tail = tail])
    BY <1>6 DEF StoreMasked
  <2> DEFINE i == [image EXCEPT !.files = got, !.tail = tail]
  <2>2. i \in Images /\ i.files = got /\ i.fmt = image.fmt /\ i.tail = tail
    BY <1>2 DEF Images, Tails
  <2>3. /\ blobs' = blobs \cup act.left /\ short' = short \ act.left /\ SetImage(i)
        /\ act' = [act EXCEPT !.pc = "close", !.left = {}, !.fresh = @ \cup (act.left \ blobs)]
    BY <1>6, <2>1 DEF StoreMasked, StoreBlobs
  <2> HIDE DEF i
  <2>4. /\ act' \in Actions /\ act'.pc = "close" /\ act'.op = "backup" /\ act'.b = act.b
        /\ act'.todo = act.todo /\ act'.fresh = act.fresh \cup (act.left \ blobs)
    BY <1>1, <1>2, <2>3 DEF Actions
  <2>5. ~mixed /\ i.fmt = "dup" => i.files \subseteq blobs'
    BY <1>1, <1>2, <2>2, <2>3 DEF BlobsInv
  <2>6. QED
    BY <1>1, <1>2, <1>3, <1>4, <2>2, <2>3, <2>4, <2>5, HandlerEnds
<1>7. QED
  BY <1>5, <1>6

LEMMA CloseImageStep == ASSUME IInv, CloseImage PROVE IInv'
<1>1. act.pc = "close" /\ act.op = "backup"
  BY DEF CloseImage, At
<1>2. /\ TypeOK /\ OriginInv /\ BlobsInv /\ ~Idle
      /\ act \in Actions /\ act.b \in DOMAIN backups /\ act.b \in DOMAIN origin
      /\ image = backups[act.b].image[part]
      /\ act.todo # {} /\ part \in act.todo /\ part \in Parts /\ part \notin Raw
      /\ image \in Images /\ image.fmt \in Formats
      /\ image.files \subseteq Files /\ Holds(part) = Files
      /\ ~mixed /\ image.fmt = "dup" => image.files \subseteq blobs /\ image.tail # "newer"
      /\ blobs \cup short \subseteq Files /\ gcDone \in BOOLEAN /\ mounted \subseteq Parts \ Raw
  BY <1>1, Storing
<1>3. /\ UNCHANGED <<content, blobs, short, settings, gcDone, faults, origin, before, mixed>>
      /\ mounted' \subseteq mounted
  BY DEF CloseImage, history, store, EnsureUnmounted
<1>4. CASE act.ok
  <2> DEFINE i == [image EXCEPT !.md5 = settings.md5 /\ backups[act.b].item # "all"]
  <2>1. NextPart /\ SetImage(i)
    BY <1>4 DEF CloseImage
  <2>2. i \in Images /\ i.files = image.files /\ i.fmt = image.fmt /\ i.tail = image.tail
    BY <1>2 DEF Images, TypeOK
  <2> HIDE DEF i
  <2>3. /\ act' \in Actions /\ act'.pc = "next" /\ act'.op = "backup" /\ act'.b = act.b
        /\ act'.todo = act.todo \ {part} /\ act'.ok = act.ok /\ act'.fresh = act.fresh
    BY <1>1, <1>2, <2>1, NextParts
  <2>4. /\ TypeOK' /\ StepsInv' /\ ImagesInv' /\ RestoreInv' /\ DamageConfined'
        /\ StoredInv' /\ FreshInv' /\ FinishedInv' /\ ~backups'[act'.b].finished /\ ~backups'[act'.b].broken
        /\ \A b \in {act.b} : \A p \in DOMAIN origin'[b] :
             p # part /\ p \in DOMAIN origin[b] => p \notin act.todo /\ Recorded(b, p)'
        /\ backups'[act.b].image[part] = i
    BY <1>1, <1>2, <1>3, <2>1, <2>2, <2>3, BackupFrame
  <2>5. part \in DOMAIN origin[act.b] => origin[act.b][part] = image.files
    BY <1>1, <1>2, <1>4 DEF OriginInv
  <2>6. OriginInv'
    BY <1>2, <1>3, <1>4, <2>2, <2>3, <2>4, <2>5 DEF OriginInv, Recorded, Formats
  <2>7. BlobsInv'
    BY <2>3, <2>4 DEF BlobsInv
  <2>8. QED
    BY <2>4, <2>6, <2>7 DEF IInv
<1>5. CASE ~act.ok
  <2>1. End(FALSE) /\ UNCHANGED backups
    BY <1>5 DEF CloseImage
  <2>2. QED
    BY <1>1, <1>2, <1>3, <2>1, BackupEnds
<1>6. QED
  BY <1>4, <1>5

LEMMA FinishBackupStep == ASSUME IInv, FinishBackup PROVE IInv'
<1>1. act.pc = "next" /\ act.op = "backup" /\ ~Idle /\ act.todo = {}
  BY DEF FinishBackup, At, Idle
<1>2. /\ TypeOK /\ ImagesInv /\ OriginInv /\ BlobsInv
      /\ act \in Actions /\ act.b \in DOMAIN backups /\ backups[act.b] \in Backup
  BY <1>1, BackedUp DEF TypeOK
<1>3. /\ UNCHANGED <<content, mounted, blobs, short, settings, gcDone, faults, origin, before, mixed>>
      /\ End(TRUE)
  BY DEF FinishBackup, history, store
<1> DEFINE b0 == act.b
           new == Signed(backups[b0])
<1>4. /\ new \in Backup /\ new.broken = backups[b0].broken /\ \A p \in Parts : LET i == backups[b0].image[p] IN
           new.image[p].fmt = i.fmt /\ new.image[p].files = i.files /\ new.image[p].tail = i.tail
  <2> DEFINE sign == backups[b0].item = "all" /\ settings.md5
             signed(i) == [i EXCEPT !.md5 = @ \/ sign]
  <2>1. \A i \in Images : /\ signed(i) \in Images /\ signed(i).fmt = i.fmt
                          /\ signed(i).files = i.files /\ signed(i).tail = i.tail
    BY DEF Images
  <2>2. /\ new.item = backups[b0].item /\ new.finished = TRUE /\ new.broken = backups[b0].broken
        /\ new.image = [p \in Parts |-> signed(backups[b0].image[p])]
        /\ new = [item |-> new.item, finished |-> new.finished, broken |-> new.broken, image |-> new.image]
    <3>1. DOMAIN backups[b0] = {"item", "finished", "broken", "image"}
      BY <1>2 DEF Backup
    <3>2. new = [backups[b0] EXCEPT !.finished = TRUE, !.image = [p \in Parts |-> signed(backups[b0].image[p])]]
      BY DEF Signed
    <3>3. QED
      BY <3>1, <3>2
  <2>3. \A p \in Parts : backups[b0].image[p] \in Images
    BY <1>2 DEF Backup
  <2> HIDE DEF signed, new
  <2>4. new.image \in [Parts -> Images]
    BY <2>1, <2>2, <2>3
  <2>5. new \in Backup
    BY <1>2, <2>2, <2>4 DEF Backup
  <2>6. QED
    BY <2>1, <2>2, <2>3, <2>5
<1>5. /\ DOMAIN backups' = DOMAIN backups /\ backups'[b0] = new
      /\ \A b \in DOMAIN backups \ {b0} : backups'[b] = backups[b]
  BY <1>2 DEF FinishBackup
<1> HIDE DEF b0, new
<1>6. backups'[b0].broken = backups[b0].broken /\ \A p \in Parts : LET i == backups[b0].image[p] IN
         /\ backups'[b0].image[p].fmt = i.fmt
         /\ backups'[b0].image[p].files = i.files /\ backups'[b0].image[p].tail = i.tail
  BY <1>4, <1>5
<1>7. act' \in Actions /\ act'.pc = "idle" /\ act'.op = "none"
  BY <1>1, <1>2, <1>3, Ends
<1>8. TypeOK'
  BY <1>2, <1>3, <1>4, <1>5, <1>7 DEF TypeOK, VolumesTypeOK, Holds, Idle
<1>9. ImagesInv'
  BY <1>2, <1>3, <1>5, <1>6 DEF ImagesInv, Holds
<1>10. OriginInv'
  BY <1>1, <1>2, <1>3, <1>5, <1>6, <1>7 DEF OriginInv, FinishedInv, Recorded, ImagesInv, b0
<1>11. BlobsInv'
  BY <1>2, <1>3, <1>5, <1>6, <1>7 DEF BlobsInv, StoredInv, FreshInv, b0
<1>12. QED
  BY <1>7, <1>8, <1>9, <1>10, <1>11, AtRest DEF IInv

-----------------------------------------------------------------------------
(* Garbage collection and what happens between the operations.              *)

(* A collection removes no blob that a manifest on the card needs: it has   *)
(* read them all, or it has crashed over a torn one before it removed any.  *)
LEMMA GcKeeps ==
    ASSUME IInv, ~mixed, NEW read \in GcReads(Manifests), NEW m \in Manifests
    PROVE  m.files \cap Unused(read) = {}
<1>1. \A n \in Manifests : n.tail # "newer"
  BY DEF IInv, BlobsInv, StoredInv, FreshInv, Manifests
<1>2. read = Manifests
  BY <1>1 DEF GcReads
<1>3. QED
  BY <1>2 DEF Unused

LEMMA MenuGcStep == ASSUME IInv, MenuGc PROVE IInv'
<1>1. TypeOK
  BY DEF IInv
<1>2. act' \in Actions /\ act'.op = "gc" /\ act'.pc = "gc"
  BY DEF MenuGc, Nothing, Actions
<1>3. UNCHANGED <<content, blobs, short, backups, mounted, settings, gcDone, faults, origin, mixed>>
  BY DEF MenuGc, disk, store
<1>4. TypeOK'
  BY <1>1, <1>2, <1>3 DEF TypeOK, VolumesTypeOK, Holds, Idle
<1>5. StepsInv'
  BY <1>2 DEF StepsInv, Idle, At
<1>6. QED
  BY <1>2, <1>3, <1>4, <1>5, SameBackups, SameBlobs, NoRestore DEF IInv

(* After a run of gc that has kept what the manifests need.                 *)
LEMMA AfterGcStep ==
    ASSUME IInv, act.pc = "gc", AfterGc, blobs' \subseteq blobs, short' \subseteq short,
           \A m \in Manifests : ~mixed /\ m.files \subseteq blobs => m.files \subseteq blobs',
           UNCHANGED <<content, mounted, settings, gcDone, faults, origin, before, mixed>>
    PROVE  IInv'
<1>1. TypeOK /\ StepsInv /\ ImagesInv /\ OriginInv /\ BlobsInv /\ act.op \in {"gc", "backup"}
  BY DEF IInv, StepsInv
<1>2. blobs' \cup short' \subseteq Files /\ gcDone' \in BOOLEAN /\ mounted' \subseteq Parts \ Raw /\ act \in Actions
  BY <1>1 DEF TypeOK, VolumesTypeOK
<1>3. CASE act.op = "gc"
  <2>1. End(TRUE) /\ UNCHANGED backups
    BY <1>3 DEF AfterGc
  <2>2. act' \in Actions /\ act'.op = "none" /\ act'.pc = "idle"
    BY <1>2, <1>3, <2>1, Ends
  <2>3. TypeOK'
    BY <1>1, <1>2, <2>1, <2>2 DEF TypeOK, VolumesTypeOK, Holds, Idle
  <2>4. BlobsInv'
    BY <1>1, <2>1, <2>2 DEF BlobsInv, StoredInv, FreshInv, Manifests
  <2>5. QED
    BY <2>1, <2>2, <2>3, <2>4, SameBackups, AtRest DEF IInv
<1>4. CASE act.op = "backup"
  <2>1. Goto("store", content[part]) /\ SetImage(NewImage(settings.format, {}, "cut"))
    BY <1>4 DEF AfterGc
  <2>2. act.todo # {} /\ part \notin Raw /\ part \in mounted'
    BY <1>1, <1>4 DEF StepsInv, At
  <2>3. QED
    BY <1>2, <1>4, <2>1, <2>2, ImageBegins
<1>5. QED
  BY <1>1, <1>3, <1>4

LEMMA GcStep == ASSUME IInv, GcBlobs \/ GcDies PROVE IInv'
<1>1. CASE GcBlobs
  <2>1. PICK read \in GcReads(Manifests) : blobs' = blobs \ Unused(read) /\ short' = short \ Unused(read)
    BY <1>1 DEF GcBlobs, RemoveBlobs
  <2>2. \A m \in Manifests : ~mixed /\ m.files \subseteq blobs => m.files \subseteq blobs'
    BY <2>1, GcKeeps
  <2>3. QED
    BY <1>1, <2>1, <2>2, AfterGcStep DEF GcBlobs, history, store
<1>2. CASE GcDies
  BY <1>2, AfterGcStep DEF GcDies, history, store
<1>3. QED
  BY <1>1, <1>2

(* Between operations: what is typed and leaves the backups and the blobs.  *)
LEMMA BetweenStep ==
    ASSUME IInv, Rest, VolumesTypeOK', settings' \in [format : Formats, md5 : BOOLEAN],
           gcDone' \in BOOLEAN, UNCHANGED <<blobs, short, backups, faults, origin, mixed>>
    PROVE  IInv'
<1>1. TypeOK
  BY DEF IInv
<1>2. act' \in Actions /\ act'.op = "none" /\ act'.pc = "idle"
  BY DEF Rest, Nothing, Actions
<1>3. TypeOK'
  BY <1>1, <1>2 DEF TypeOK, Idle
<1>4. QED
  BY <1>2, <1>3, SameBackups, SameBlobs, AtRest DEF IInv

LEMMA BetweenSteps ==
    ASSUME IInv,
           \/ ChangeSettings
           \/ \E p \in Parts : MountMenu(p) \/ \E files \in SUBSET Holds(p) : Android(p, files)
    PROVE  IInv'
<1>1. TypeOK /\ VolumesTypeOK
  BY DEF IInv, TypeOK
<1>2. CASE ChangeSettings
  <2>1. settings' \in [format : Formats, md5 : BOOLEAN]
    BY <1>1, <1>2 DEF ChangeSettings, TypeOK
  <2>2. VolumesTypeOK' /\ gcDone' \in BOOLEAN
    BY <1>1, <1>2 DEF ChangeSettings, TypeOK, VolumesTypeOK, Holds, disk, store
  <2>3. QED
    BY <1>2, <2>1, <2>2, BetweenStep DEF ChangeSettings, disk, store
<1>3. ASSUME NEW p \in Parts, MountMenu(p)
      PROVE  IInv'
  <2>1. VolumesTypeOK' /\ gcDone' \in BOOLEAN /\ settings' \in [format : Formats, md5 : BOOLEAN]
    BY <1>1, <1>3 DEF MountMenu, TypeOK, VolumesTypeOK, Holds, disk, store, EnsureMounted, EnsureUnmounted
  <2>2. QED
    BY <1>3, <2>1, BetweenStep DEF MountMenu, disk, store
<1>4. ASSUME NEW p \in Parts, NEW files \in SUBSET Holds(p), Android(p, files)
      PROVE  IInv'
  <2>1. /\ content' \in [Parts -> SUBSET (Files \cup Pieces)]
        /\ \A q \in Parts : content'[q] \subseteq Holds(q)
    BY <1>1, <1>4, Contents DEF Android
  <2>2. VolumesTypeOK' /\ gcDone' \in BOOLEAN /\ settings' \in [format : Formats, md5 : BOOLEAN]
    BY <1>1, <1>4, <2>1 DEF Android, TypeOK, VolumesTypeOK, Holds
  <2>3. QED
    BY <1>4, <2>2, BetweenStep DEF Android, store
<1>5. QED
  BY <1>2, <1>3, <1>4

LEMMA DeleteStep == ASSUME IInv, NEW b \in Backups, Delete(b) PROVE IInv'
<1>1. TypeOK /\ ImagesInv /\ OriginInv /\ BlobsInv
  BY DEF IInv
<1>2. act' \in Actions /\ act'.op = "none" /\ act'.pc = "idle"
  BY DEF Delete, Rest, Nothing, Actions
<1>3. UNCHANGED <<content, mounted, blobs, short, settings, gcDone, faults, mixed>>
  BY DEF Delete, store
<1>4. /\ DOMAIN backups' = DOMAIN backups \ {b} /\ DOMAIN origin' = DOMAIN origin \ {b}
      /\ \A c \in DOMAIN backups' : backups'[c] = backups[c]
      /\ \A c \in DOMAIN origin' : origin'[c] = origin[c]
  BY DEF Delete, Restrict
<1>5. TypeOK'
  BY <1>1, <1>2, <1>3, <1>4 DEF TypeOK, VolumesTypeOK, Holds, Idle
<1>6. ImagesInv' /\ OriginInv'
  BY <1>1, <1>2, <1>4 DEF ImagesInv, OriginInv, FinishedInv, Recorded, Holds
<1>7. BlobsInv'
  BY <1>1, <1>2, <1>3, <1>4 DEF BlobsInv, StoredInv, FreshInv
<1>8. QED
  BY <1>2, <1>5, <1>6, <1>7, AtRest DEF IInv

LEMMA OtherRecoveryStep ==
    ASSUME IInv, NEW b \in Backups, NEW p \in (Items \cap Parts) \ Raw, OtherRecovery(b, p)
    PROVE  IInv'
<1> DEFINE new == [item |-> p, finished |-> TRUE, broken |-> FALSE,
                   image |-> [q \in Parts |-> IF q # p THEN NoImage ELSE NewImage("dup", content[p], "newer")]]
           was == [q \in {p} |-> content[p]]
<1>1. TypeOK /\ ImagesInv /\ OriginInv
  BY DEF IInv
<1>2. act' \in Actions /\ act'.op = "none" /\ act'.pc = "idle"
  BY DEF OtherRecovery, Rest, Nothing, Actions
<1>3. /\ b \notin DOMAIN backups /\ backups' = With(backups, b, new) /\ origin' = With(origin, b, was)
      /\ UNCHANGED <<content, mounted, settings, gcDone>> /\ Fault
      /\ mixed' = TRUE /\ blobs' = blobs \cup content[p] /\ short' = short \ content[p]
  BY DEF OtherRecovery, StoreBlobs
<1>4. content[p] \subseteq Files /\ Holds(p) = Files
  BY <1>1 DEF TypeOK, VolumesTypeOK, Holds
<1>5. /\ NoImage \in Images /\ NoImage.files = {}
      /\ NewImage("dup", content[p], "newer") \in Images
      /\ NewImage("dup", content[p], "newer").files = content[p]
      /\ NewImage("dup", content[p], "newer").fmt = "dup"
  BY <1>4 DEF NoImage, NewImage, Images, Tails, Formats
<1>6. new \in Backup /\ ~new.broken /\ \A q \in Parts : new.image[q] \in Images /\ new.image[q].files \subseteq Holds(q)
  <2>1. new.item \in Items /\ new.finished \in BOOLEAN /\ new.broken = FALSE
    OBVIOUS
  <2>2. \A q \in Parts : IF q # p THEN new.image[q] = NoImage
                         ELSE new.image[q] = NewImage("dup", content[p], "newer")
    OBVIOUS
  <2>3. new.image \in [Parts -> Images]
    BY <1>5
  <2>4. new = [item |-> new.item, finished |-> new.finished, broken |-> new.broken, image |-> new.image]
    OBVIOUS
  <2> HIDE DEF new
  <2>5. new \in Backup
    BY <2>1, <2>3, <2>4 DEF Backup
  <2>6. QED
    BY <1>4, <1>5, <2>1, <2>2, <2>3, <2>5
<1>7. DOMAIN was = {p} /\ was[p] = new.image[p].files /\ new.image[p].fmt # "none"
  BY <1>5
<1> HIDE DEF new, was
<1>8. /\ DOMAIN backups' = DOMAIN backups \cup {b} /\ backups'[b] = new
      /\ \A c \in DOMAIN backups : c # b /\ backups'[c] = backups[c]
      /\ DOMAIN origin' = DOMAIN origin \cup {b} /\ origin'[b] = was
      /\ \A c \in DOMAIN origin : c # b /\ origin'[c] = origin[c]
  BY <1>1, <1>3 DEF With, ImagesInv
<1>9. TypeOK'
  <2>1. faults' \in 0..MaxFaults
    BY <1>1, <1>3, FaultTyped
  <2>2. QED
    BY <1>1, <1>2, <1>3, <1>4, <1>6, <1>8, <2>1 DEF TypeOK, VolumesTypeOK, Holds, Idle
<1>10. ImagesInv' /\ OriginInv'
  BY <1>1, <1>2, <1>6, <1>7, <1>8 DEF ImagesInv, OriginInv, FinishedInv, Recorded, Holds
<1>11. BlobsInv'
  BY <1>2, <1>3 DEF BlobsInv, StoredInv, FreshInv
<1>12. QED
  BY <1>2, <1>9, <1>10, <1>11, AtRest DEF IInv

-----------------------------------------------------------------------------
(* The power goes: at a restore, at a backup, and while garbage is          *)
(* collected.                                                               *)

LEMMA PowerLossRestore == ASSUME IInv, PowerLoss, act.op = "restore" PROVE IInv'
<1>1. ~Idle /\ act.pc \in {"next", "write", "mount", "extract"}
  BY DEF PowerLoss, IInv, StepsInv, TypeOK, Actions, Idle
<1>2. /\ TypeOK /\ StepsInv /\ RestoreInv /\ act \in Actions /\ act.b \in DOMAIN backups /\ act.fresh = {}
      /\ act.todo # {} => /\ part \in Parts /\ image.files \in SUBSET Holds(part)
  BY <1>1, Restored
<1>3. /\ UNCHANGED <<blobs, short, backups, settings, origin, before, mixed>> /\ Fault /\ act.fresh = {}
      /\ mounted' = {} /\ gcDone' = FALSE /\ End(FALSE)
      /\ UNCHANGED content \/ (act.pc = "write" /\ \E got \in SUBSET image.files : Put(part, got))
  BY <1>1, <1>2 DEF PowerLoss, LoseBlobs, history, At
<1>4. /\ act' \in Actions /\ act'.pc = "idle" /\ act'.op = act.op /\ act'.b = act.b
      /\ act'.todo = act.todo /\ act'.ok = FALSE
      /\ act'.hushed = act.hushed /\ act'.fresh = act.fresh
  BY <1>2, <1>3, Ends
<1>5. /\ content' \in [Parts -> SUBSET (Files \cup Pieces)]
      /\ \A q \in Parts : content'[q] \subseteq Holds(q)
      /\ \A q \in Parts : q # part \/ act.todo = {} => content'[q] = content[q]
      /\ act.todo # {} \/ content' = content
  <2>1. CASE UNCHANGED content
    BY <1>2, <2>1 DEF TypeOK, VolumesTypeOK, Holds
  <2>2. CASE act.pc = "write" /\ \E got \in SUBSET image.files : Put(part, got)
    <3>1. act.todo # {}
      BY <1>2, <2>2 DEF StepsInv
    <3>2. PICK got \in SUBSET image.files : Put(part, got)
      BY <2>2
    <3>3. QED
      BY <1>2, <3>1, <3>2, Contents
  <2>3. QED
    BY <1>3, <2>1, <2>2
<1>6. /\ TypeOK' /\ ImagesInv' /\ OriginInv' /\ BlobsInv' /\ DamageConfined'
      /\ act'.todo \subseteq Asked(backups'[act'.b].item)
  BY <1>1, <1>2, <1>3, <1>4, <1>5, RestoreFrame
<1>7. StepsInv' /\ RestoreInv'
  BY <1>2, <1>3, <1>4, <1>6 DEF StepsInv, RestoreInv, Idle, At
<1>8. QED
  BY <1>6, <1>7 DEF IInv

(* What the store has left of the backups that are not broken off now.      *)
LEMMA PowerLossKeeps ==
    ASSUME IInv, PowerLoss, act.op # "restore"
    PROVE  /\ blobs' \cup short' \subseteq Files
           /\ \A b \in DOMAIN backups, p \in Parts :
                /\ ~mixed /\ ~backups[b].broken /\ backups[b].image[p].fmt = "dup"
                /\ act.op = "backup" => b # act.b
                => backups[b].image[p].files \subseteq blobs'
<1>1. /\ TypeOK /\ StepsInv /\ StoredInv /\ FreshInv /\ act \in Actions
      /\ blobs \cup short \subseteq Files /\ act.fresh \subseteq Files
  BY DEF IInv, TypeOK, BlobsInv, Actions
<1>2. act.pc # "gc" => act.op = "backup"
  BY <1>1 DEF PowerLoss, StepsInv, Actions
<1>3. CASE act.pc = "gc"
  <2>1. PICK read \in GcReads(Manifests) : \E gone \in SUBSET Unused(read) : RemoveBlobs(gone)
    BY <1>3 DEF PowerLoss
  <2> PICK gone \in SUBSET Unused(read) : RemoveBlobs(gone)
    BY <2>1
  <2>2. blobs' = blobs \ gone /\ short' = short \ gone /\ gone \subseteq Unused(read)
    BY DEF RemoveBlobs
  <2>3. ASSUME NEW b \in DOMAIN backups, NEW p \in Parts,
               ~mixed, ~backups[b].broken, backups[b].image[p].fmt = "dup"
        PROVE  backups[b].image[p].files \subseteq blobs'
    <3>1. backups[b].image[p] \in Manifests
      BY <2>3 DEF Manifests
    <3>2. backups[b].image[p].files \cap Unused(read) = {}
      BY <2>3, <3>1, GcKeeps
    <3>3. backups[b].image[p].files \subseteq blobs
      BY <1>1, <2>3 DEF StoredInv
    <3>4. QED
      BY <2>2, <3>2, <3>3
  <2>4. QED
    BY <1>1, <2>2, <2>3
<1>4. CASE act.pc # "gc"
  <2>1. PICK gone \in SUBSET act.fresh, cut \in SUBSET act.fresh :
           blobs' = blobs \ (gone \cup cut) /\ short' = short \cup (cut \ gone)
    BY <1>4 DEF PowerLoss, LoseBlobs
  <2>2. ASSUME NEW b \in DOMAIN backups, NEW p \in Parts, b # act.b,
               ~mixed, ~backups[b].broken, backups[b].image[p].fmt = "dup"
        PROVE  backups[b].image[p].files \subseteq blobs'
    <3>1. backups[b].image[p].files \subseteq blobs
      BY <1>1, <2>2 DEF StoredInv
    <3>2. backups[b].image[p].files \cap act.fresh = {}
      BY <1>1, <1>2, <1>4, <2>2 DEF FreshInv
    <3>3. QED
      BY <2>1, <3>1, <3>2
  <2>3. QED
    BY <1>1, <1>2, <1>4, <2>1, <2>2
<1>5. QED
  BY <1>3, <1>4

(* What remains of the images of the backup that is broken off.             *)
LEMMA ImagesBreak ==
    ASSUME TypeOK, ImagesInv, act.b \in DOMAIN backups, BreakImages
    PROVE  /\ DOMAIN backups' = DOMAIN backups
           /\ \A b \in DOMAIN backups \ {act.b} : backups'[b] = backups[b]
           /\ backups'[act.b] \in Backup /\ backups'[act.b].broken
           /\ backups'[act.b].finished = backups[act.b].finished
           /\ \A p \in Parts : LET i == backups[act.b].image[p]
                                  j == backups'[act.b].image[p]
                              IN  /\ j.fmt = i.fmt /\ j.files \subseteq Holds(p)
                                  /\ j.tail = i.tail \/ j.tail \in {"cut", "torn"}
<1>1. PICK images \in [Parts -> UNION {Remains(backups[act.b].image[p]) : p \in Parts}] :
         /\ \A p \in Parts : images[p] \in Remains(backups[act.b].image[p])
         /\ backups' = [backups EXCEPT ![act.b].image = images, ![act.b].broken = TRUE]
  BY DEF BreakImages
<1>2. backups[act.b] \in Backup /\ \A p \in Parts : backups[act.b].image[p].files \subseteq Holds(p)
  BY DEF TypeOK, ImagesInv
<1>3. ASSUME NEW i \in Images, NEW j, j \in Remains(i)
      PROVE  /\ j \in Images /\ j.fmt = i.fmt /\ j.files \subseteq i.files
             /\ j.tail = i.tail \/ j.tail \in {"cut", "torn"}
  <2>1. CASE j = i
    BY <2>1
  <2>2. ASSUME NEW tail \in {"cut", "torn"}, j \in Partly(i, tail)
        PROVE  /\ j \in Images /\ j.fmt = i.fmt /\ j.files \subseteq i.files /\ j.tail = tail
    <3>1. PICK got \in SUBSET i.files : j = [i EXCEPT !.files = got, !.tail = tail, !.md5 = FALSE]
      BY <2>2 DEF Partly
    <3>2. QED
      BY <3>1 DEF Images, Tails
  <2>3. j = i \/ j \in Partly(i, "cut") \/ j \in Partly(i, "torn")
    BY <1>3 DEF Remains
  <2>4. QED
    BY <2>1, <2>2, <2>3
<1>4. \A p \in Parts : backups[act.b].image[p] \in Images
  BY <1>2 DEF Backup
<1>5. \A p \in Parts : /\ images[p] \in Images
                       /\ images[p].fmt = backups[act.b].image[p].fmt
                       /\ images[p].files \subseteq Holds(p)
                       /\ images[p].tail = backups[act.b].image[p].tail \/ images[p].tail \in {"cut", "torn"}
  BY <1>1, <1>2, <1>3, <1>4
<1>6. images \in [Parts -> Images]
  BY <1>1, <1>5
<1>7. /\ DOMAIN backups' = DOMAIN backups
      /\ \A b \in DOMAIN backups \ {act.b} : backups'[b] = backups[b]
      /\ backups'[act.b] = [backups[act.b] EXCEPT !.image = images, !.broken = TRUE]
  BY <1>1
<1>8. backups'[act.b] \in Backup /\ backups'[act.b].broken /\ backups'[act.b].image = images
      /\ backups'[act.b].finished = backups[act.b].finished
  BY <1>2, <1>6, <1>7 DEF Backup
<1>9. QED
  BY <1>5, <1>7, <1>8

LEMMA PowerLossBackup == ASSUME IInv, PowerLoss, act.op # "restore" PROVE IInv'
<1>1. /\ ~Idle /\ act.op \in {"backup", "gc"} /\ act \in Actions
      /\ TypeOK /\ StepsInv /\ ImagesInv /\ OriginInv /\ StoredInv /\ VolumesTypeOK
  BY DEF PowerLoss, IInv, StepsInv, TypeOK, Actions, BlobsInv
<1>2. /\ UNCHANGED <<content, settings, origin, before, mixed>> /\ Fault
      /\ mounted' = {} /\ gcDone' = FALSE /\ End(FALSE)
  BY <1>1 DEF PowerLoss, history, At
<1>3. act' \in Actions /\ act'.pc = "idle" /\ act'.op = "none"
  BY <1>1, <1>2, Ends
<1>4. faults' \in 0..MaxFaults
  BY <1>1, <1>2, FaultTyped
<1>5. /\ blobs' \cup short' \subseteq Files
      /\ \A b \in DOMAIN backups, p \in Parts :
           /\ ~mixed /\ ~backups[b].broken /\ backups[b].image[p].fmt = "dup"
           /\ act.op = "backup" => b # act.b
           => backups[b].image[p].files \subseteq blobs'
  BY PowerLossKeeps
<1>6. VolumesTypeOK' /\ StepsInv' /\ RestoreInv' /\ DamageConfined'
  BY <1>1, <1>2, <1>3, AtRest DEF VolumesTypeOK, Holds
<1>7. CASE act.op = "backup"
  <2>1. act.b \in DOMAIN backups /\ act.b \in DOMAIN origin /\ ~backups[act.b].finished
    BY <1>1, <1>7, BackedUp
  <2>2. BreakImages
    BY <1>7 DEF PowerLoss
  <2>3. /\ DOMAIN backups' = DOMAIN backups
        /\ \A b \in DOMAIN backups \ {act.b} : backups'[b] = backups[b]
        /\ backups'[act.b] \in Backup /\ backups'[act.b].broken
        /\ backups'[act.b].finished = backups[act.b].finished
        /\ \A p \in Parts : LET i == backups[act.b].image[p]
                               j == backups'[act.b].image[p]
                           IN  /\ j.fmt = i.fmt /\ j.files \subseteq Holds(p)
                               /\ j.tail = i.tail \/ j.tail \in {"cut", "torn"}
    BY <1>1, <2>1, <2>2, ImagesBreak
  <2>4. TypeOK'
    BY <1>1, <1>2, <1>3, <1>4, <1>5, <1>6, <2>3 DEF TypeOK, Idle
  <2>5. ImagesInv' /\ OriginInv'
    BY <1>1, <1>2, <1>3, <2>1, <2>3 DEF ImagesInv, OriginInv, FinishedInv, Recorded, Holds
  <2>6. BlobsInv'
    BY <1>1, <1>2, <1>3, <1>5, <1>7, <2>3 DEF BlobsInv, StoredInv, FreshInv
  <2>7. QED
    BY <1>6, <2>4, <2>5, <2>6 DEF IInv
<1>8. CASE act.op = "gc"
  <2>1. UNCHANGED backups
    BY <1>8 DEF PowerLoss
  <2>2. TypeOK'
    BY <1>1, <1>2, <1>3, <1>4, <1>5, <1>6, <2>1 DEF TypeOK, Idle
  <2>3. BlobsInv'
    BY <1>1, <1>2, <1>3, <1>5, <1>8, <2>1 DEF BlobsInv, StoredInv, FreshInv
  <2>4. QED
    BY <1>2, <1>3, <1>6, <2>1, <2>2, <2>3, SameBackups DEF IInv
<1>9. QED
  BY <1>1, <1>7, <1>8

-----------------------------------------------------------------------------
(* Every step keeps the invariant. *)
LEMMA InvStep == IInv /\ [Next]_vars => IInv'
<1> SUFFICES ASSUME IInv, [Next]_vars PROVE IInv'
  OBVIOUS
<1>1. ASSUME NEW b \in Backups, NEW item \in Items, StartBackup(b, item) PROVE IInv'
  BY <1>1, StartBackupStep
<1>2. ASSUME NEW b \in Backups, StartRestore(b) PROVE IInv'
  BY <1>2, StartRestoreStep
<1>3. ASSUME NEW b \in Backups, Delete(b) PROVE IInv'
  BY <1>3, DeleteStep
<1>4. ASSUME NEW b \in Backups, NEW p \in (Items \cap Parts) \ Raw, OtherRecovery(b, p) PROVE IInv'
  BY <1>4, OtherRecoveryStep
<1>5. ASSUME DumpRaw \/ OpenImage \/ StoreDone \/ StoreFails \/ StoreMasked \/ CloseImage \/ FinishBackup
      PROVE  IInv'
  BY <1>5, DumpRawStep, OpenImageStep, StoreDoneStep, StoreFailsStep, StoreMaskedStep, CloseImageStep,
     FinishBackupStep
<1>6. ASSUME MenuGc \/ GcBlobs \/ GcDies PROVE IInv'
  BY <1>6, MenuGcStep, GcStep
<1>7. ASSUME \/ EraseRaw \/ WriteRaw \/ SkipPart \/ FormatPart \/ MountPart
             \/ ExtractFails \/ ExtractDone \/ FinishRestore
      PROVE  IInv'
  BY <1>7, EraseRawStep, WriteRawStep, SkipPartStep, FormatPartStep, MountPartStep, ExtractFailsStep,
     ExtractDoneStep, FinishRestoreStep
<1>8. ASSUME NEW f \in Files, StoreFile(f) \/ ExtractFile(f) PROVE IInv'
  BY <1>8, StoreFileStep, ExtractFileStep
<1>9. ASSUME \/ ChangeSettings
             \/ \E p \in Parts : MountMenu(p) \/ \E files \in SUBSET Holds(p) : Android(p, files)
      PROVE  IInv'
  BY <1>9, BetweenSteps
<1>10. ASSUME PowerLoss PROVE IInv'
  BY <1>10, PowerLossRestore, PowerLossBackup
<1>11. ASSUME UNCHANGED vars PROVE IInv'
  <2>1. TypeOK' /\ StepsInv'
    BY <1>11 DEF vars, IInv, TypeOK, VolumesTypeOK, Holds, StepsInv, Idle, At, part
  <2>2. ImagesInv' /\ OriginInv'
    BY <1>11 DEF vars, IInv, ImagesInv, Holds, OriginInv, FinishedInv, Recorded, image, part
  <2>3. RestoreInv' /\ DamageConfined' /\ BlobsInv'
    BY <1>11 DEF vars, IInv, RestoreInv, DamageConfined, Restoring, Brought, Kept, BlobsInv, StoredInv,
       FreshInv, Idle, image, part
  <2>4. QED
    BY <2>1, <2>2, <2>3 DEF IInv
<1>12. QED
  BY <1>1, <1>2, <1>3, <1>4, <1>5, <1>6, <1>7, <1>8, <1>9, <1>10, <1>11 DEF Next

(* The inductive invariant holds in every reachable state of nandroid.cpp's *)
(* backups, restores and collections, with any number of power losses.      *)
THEOREM NandroidInductive == Spec => []IInv
<1>1. QED
  BY InvInit, InvStep, PTL DEF Spec

(* Type correctness: an operation that is under way has its directory, and  *)
(* a handler of nandroid.cpp only runs on a volume that is mounted.         *)
THEOREM NandroidTypes == Spec => []TypeOK
<1>1. IInv => TypeOK
  BY DEF IInv
<1>2. QED
  BY <1>1, NandroidInductive, PTL

(* A restore that fails, or that the power cuts short, damages no partition *)
(* but the one nandroid_restore was working on.                             *)
THEOREM DamageStaysConfined == Spec => []DamageConfined
<1>1. IInv => DamageConfined
  BY DEF IInv
<1>2. QED
  BY <1>1, NandroidInductive, PTL

(* dedupe gc, run before the first dedupe image of a process or from the    *)
(* menu, never removes a blob that a readable manifest names, while no      *)
(* newer recovery has used the card.                                        *)
THEOREM BlobsStay == Spec => []BlobsKept
<1>1. IInv => BlobsKept
  BY DEF IInv, BlobsInv, StoredInv, BlobsKept
<1>2. QED
  BY <1>1, NandroidInductive, PTL

(* A restore that nandroid_restore reports as a success has brought back    *)
(* what each partition held when the finished backup was made, unless an    *)
(* error of nandroid_backup went unreported.                                *)
THEOREM RestoresAreExact == Spec => []RestoreExact
<1>1. IInv => RestoreExact
  <2> SUFFICES ASSUME IInv, Restoring, Idle, act.ok, backups[act.b].finished
               PROVE  /\ ~mixed => act.hushed \subseteq Raw
                      /\ \A p \in Asked(backups[act.b].item) \cap DOMAIN origin[act.b] : Brought(p, origin[act.b][p])
    BY DEF RestoreExact
  <2>1. act.todo = {} /\ act.b \in DOMAIN backups /\ ~backups[act.b].broken
    BY DEF IInv, RestoreInv, StepsInv, OriginInv, FinishedInv, Restoring
  <2>2. ~mixed => act.hushed \subseteq Raw
    BY <2>1 DEF IInv, RestoreInv, Restoring
  <2>3. ASSUME NEW p \in Asked(backups[act.b].item) \cap DOMAIN origin[act.b]
        PROVE  Brought(p, origin[act.b][p])
    <3>1. Recorded(act.b, p) /\ p \in Parts
      BY <2>1 DEF IInv, OriginInv, FinishedInv, Asked, Restorable
    <3>2. Brought(p, backups[act.b].image[p].files)
      BY <2>1, <3>1 DEF IInv, DamageConfined, Recorded
    <3>3. QED
      BY <3>1, <3>2 DEF Recorded
  <2>4. QED
    BY <2>2, <2>3
<1>2. QED
  BY <1>1, NandroidInductive, PTL
=============================================================================
