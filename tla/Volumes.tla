------------------------------ MODULE Volumes ------------------------------
(* The volumes of the phone as roots.cpp and mtdutils/mounts.c handle them: *)
(* which are mounted, what each holds, and what mounting, unmounting and    *)
(* formatting do.  What a volume holds is a set of files; a raw partition   *)
(* (a kernel image) is a set of pieces, so that a half-written one differs  *)
(* from the old and from the new.                                           *)
(*                                                                          *)
(* The lookups answer from the scan of /proc/mounts that every operation    *)
(* makes first; the model takes that scan to be complete.                   *)
EXTENDS Naturals, FiniteSets

CONSTANTS
    Parts,      \* mount points of recovery.fstab, without the slash
    Raw,        \* those of type mtd, bml or emmc
    Mtd,        \* the raw ones whose format erases (an emmc erase does nothing)
    Emptied,    \* file systems without a formatter (auto, vfat): their files are removed
    Files,      \* what a file system can hold
    Pieces      \* what a raw partition can hold

ASSUME PartsAssumption == Raw \subseteq Parts /\ Mtd \subseteq Raw /\ Emptied \subseteq Parts \ Raw

VARIABLES
    content,    \* Parts -> what the partition holds
    mounted     \* the file systems that are mounted

Holds(p) == IF p \in Raw THEN Pieces ELSE Files

VolumesTypeOK ==
    /\ content \in [Parts -> SUBSET (Files \cup Pieces)]
    /\ \A p \in Parts : content[p] \subseteq Holds(p)
    /\ mounted \subseteq Parts \ Raw

Put(p, files) == content' = [content EXCEPT ![p] = files]

(* Mounting p.  A volume that is mounted already is left as it is; the four *)
(* attempts on both devices and types count as one that works or does not.  *)
EnsureMounted(p) == mounted' = mounted \cup {p}
CannotMount(p)   == p \notin mounted /\ UNCHANGED mounted

EnsureUnmounted(p) == mounted' = mounted \ {p}
CannotUnmount(p)   == p \in mounted /\ UNCHANGED mounted    \* busy

(* format_device and format_volume on a file system: unmounted first, and   *)
(* made anew on the device, or handed to format_unknown_device, which       *)
(* mounts the volume and removes the files it can.  That one reports        *)
(* success whatever is left, all of it when the volume does not mount.      *)
FormatQuick(p) == EnsureUnmounted(p) /\ UNCHANGED content
Format(p) ==
    /\ EnsureUnmounted(p)
    /\ IF p \in Emptied THEN \E kept \in SUBSET content[p] : Put(p, kept) ELSE Put(p, {})

(* format_volume on a raw partition.  Nothing is ever mounted there.        *)
FormatRaw(p) == Put(p, IF p \in Mtd THEN {} ELSE content[p]) /\ UNCHANGED mounted
=============================================================================
