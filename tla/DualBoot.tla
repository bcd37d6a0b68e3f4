------------------------------ MODULE DualBoot ------------------------------
(* True Dual Boot: a phone with two systems, whose partitions come in pairs *)
(* (/system and /system1, /boot and /boot1, /radio and /radio1).  An        *)
(* installation is sent to one system by making the device nodes of both    *)
(* names lead to that system's partition (set_active_system, roots.cpp),    *)
(* and back home afterwards (file_install and sd_update_show, sd_ui.c).     *)
(*                                                                          *)
(* All of it runs in the UI thread, which waits for the installer; a node   *)
(* can fail to be replaced at three places, and no caller looks.  One that  *)
(* is gone stays gone until recovery starts again.                          *)
EXTENDS Naturals

CONSTANTS
    Pairs,      \* how many pairs of volumes the fstab has
    Boot,       \* the pair /boot, /boot1; the ones before it can be formatted too
    MaxMishaps  \* bound: failures

ASSUME DualBootAssumption == Pairs \in Nat /\ Boot \in 1 .. Pairs /\ MaxMishaps \in Nat

Systems == {0, 1}
Names   == (1 .. Pairs) \X Systems  \* the volumes, and as well the partitions
Items   == (1 .. Boot) \X Systems   \* the volumes the format menu names
Nothing == <<0, 0>>                 \* no node, not mounted
Modes   == {"both", "system0", "system1", "interchanged"}

VARIABLES
    node,       \* Names -> the partition the volume's device node leads to
    mounts,     \* Names -> the partition that is mounted there
    pc,         \* "menu", "switch", "confirm" or "install"
    mode,       \* what set_active_system makes the nodes lead to
    pair, half, \* the node it replaces next
    chosen,     \* the system the user chose, "none" without dual boot
    unsure,     \* history: pairs a replacement failed for, since the last good one
    astray,     \* history: pairs something was written to by the wrong name
    mishaps

nodes == <<node, mounts>>
vars  == <<nodes, pc, mode, pair, half, chosen, unsure, astray, mishaps>>

TypeOK ==
    /\ node \in [Names -> Names \cup {Nothing}]
    /\ mounts \in [Names -> Names \cup {Nothing}]
    /\ pc \in {"menu", "switch", "confirm", "install"}
    /\ mode \in Modes
    /\ pair \in 1 .. Pairs /\ half \in Systems
    /\ chosen \in {"none", "system0", "system1"}
    /\ unsure \subseteq 1 .. Pairs /\ astray \subseteq 1 .. Pairs
    /\ mishaps \in 0 .. MaxMishaps

Home == [v \in Names |-> v]

Init ==
    /\ node = Home /\ mounts = [v \in Names |-> Nothing]
    /\ pc = "menu" /\ mode = "both" /\ pair = 1 /\ half = 0 /\ chosen = "none"
    /\ unsure = {} /\ astray = {} /\ mishaps = 0

Mishap == mishaps < MaxMishaps /\ mishaps' = mishaps + 1

----------------------------------------------------------------------------
(* handle_volume_request: the partition a pair's node is to lead to. *)
Leads(num, p, s) ==
    <<p, IF num = "system0" THEN 0 ELSE IF num = "system1" THEN 1
         ELSE IF num = "both" THEN s ELSE 1 - s>>

SetActiveSystem(num) == pc' = "switch" /\ mode' = num /\ pair' = 1 /\ half' = 0

(* set_active_system is over: the question, or the menu again.  Its failure *)
(* to unmount /data changes nothing that is looked at later.                *)
SwitchDone ==
    /\ pc' = IF mode = "both" THEN "menu" ELSE "confirm"
    /\ UNCHANGED <<mode, pair, half>>
NextPair == IF pair = Pairs THEN SwitchDone ELSE pair' = pair + 1 /\ half' = 0 /\ UNCHANGED <<pc, mode>>

(* replace_device_node: unmounted, unlinked, made anew with the device      *)
(* number read when recovery started.                                       *)
LeaveMounted(v) == UNCHANGED mounts
Unmount(v) == mounts' = [mounts EXCEPT ![v] = Nothing]
ReplaceNode ==
    /\ pc = "switch"
    /\ LET v == <<pair, half>> IN
           node[v] # Nothing /\ Unmount(v) /\ node' = [node EXCEPT ![v] = Leads(mode, pair, half)]
    /\ IF half = 0 THEN half' = 1 /\ UNCHANGED <<pc, mode, pair, unsure>>
                   ELSE NextPair /\ unsure' = unsure \ {pair}
    /\ UNCHANGED <<chosen, astray, mishaps>>

(* It fails, the pair's second node is left alone, and the next pair's turn *)
(* has come: set_active_system ignores what handle_volume_request returns.  *)
(* There is nothing to unlink where an earlier mknod has failed.            *)
ReplaceFails ==
    /\ pc = "switch"
    /\ LET v == <<pair, half>> IN
           \/ node[v] = Nothing /\ Unmount(v) /\ UNCHANGED <<node, mishaps>>
           \/ mounts[v] # Nothing /\ Mishap /\ UNCHANGED nodes
           \/ Mishap /\ Unmount(v) /\ UNCHANGED node
           \/ Mishap /\ Unmount(v) /\ node' = [node EXCEPT ![v] = Nothing]
    /\ unsure' = unsure \cup {pair}
    /\ NextPair
    /\ UNCHANGED <<chosen, astray>>

----------------------------------------------------------------------------
(* The user picks a package to install.  With dual boot the system is asked *)
(* first; without, the package meets the nodes as they are.                 *)
ChooseSystem ==
    /\ pc = "menu"
    /\ chosen' \in {"system0", "system1"} /\ SetActiveSystem(chosen')
    /\ UNCHANGED <<nodes, unsure, astray, mishaps>>
ChooseNothing ==
    /\ pc = "menu" /\ pc' = "confirm" /\ chosen' = "none"
    /\ UNCHANGED <<nodes, mode, pair, half, unsure, astray, mishaps>>

StayThere == pc' = "menu" /\ UNCHANGED <<mode, pair, half>>
SwitchBack == SetActiveSystem("both")

Refuse ==
    /\ pc = "confirm" /\ SwitchBack
    /\ UNCHANGED <<nodes, chosen, unsure, astray, mishaps>>
Install ==
    /\ pc = "confirm" /\ pc' = "install"
    /\ UNCHANGED <<nodes, mode, pair, half, chosen, unsure, astray, mishaps>>

(* The package's program goes by the names of the volumes: it mounts, and   *)
(* writes to what is mounted there or to the device.                        *)
Meant(v) == IF chosen = "none" THEN v ELSE Leads(chosen, v[1], v[2])
Reached(v) == IF mounts[v] = Nothing THEN node[v] ELSE mounts[v]

MountVolume(v) ==
    /\ node[v] # Nothing
    /\ mounts[v] = Nothing /\ mounts' = [mounts EXCEPT ![v] = node[v]]
    /\ UNCHANGED <<node, pc, mode, pair, half, chosen, unsure, astray, mishaps>>
Write(v, meant) ==
    /\ Reached(v) # Nothing
    /\ astray' = IF Reached(v) = meant THEN astray ELSE astray \cup {v[1]}
    /\ UNCHANGED <<nodes, pc, mode, pair, half, chosen, unsure, mishaps>>

PackageMounts == pc = "install" /\ \E v \in Names : MountVolume(v)
PackageWrites == pc = "install" /\ \E v \in Names : Write(v, Meant(v))
PackageUnmounts ==
    /\ pc = "install" /\ \E v \in Names : mounts[v] # Nothing /\ Unmount(v)
    /\ UNCHANGED <<node, pc, mode, pair, half, chosen, unsure, astray, mishaps>>

(* However it ends, the nodes are sent home. *)
InstallEnds ==
    /\ pc = "install" /\ SwitchBack
    /\ UNCHANGED <<nodes, chosen, unsure, astray, mishaps>>

(* The menus' mounts, and their backups and restores by name. *)
MenuMounts == pc = "menu" /\ \E v \in Names : MountVolume(v)
MenuWrites == pc = "menu" /\ \E v \in Names : Write(v, v)

(* The format menu.  A format unmounts first, and goes to the device; the   *)
(* item for /boot1 was given the result of the one for /boot.               *)
Formatted(v) == IF v = <<Boot, 1>> THEN <<Boot, 0>> ELSE v
FormatItem(v) ==
    LET f == Formatted(v) IN
    /\ pc = "menu"
    /\ node[f] # Nothing /\ Unmount(f)
    /\ astray' = IF node[f] = v THEN astray ELSE astray \cup {v[1]}
    /\ UNCHANGED <<node, pc, mode, pair, half, chosen, unsure, mishaps>>
MenuFormats == \E v \in Items : FormatItem(v)

(* The nodes are made anew when recovery starts. *)
PowerLoss ==
    /\ Mishap
    /\ node' = Home /\ mounts' = [v \in Names |-> Nothing] /\ unsure' = {}
    /\ pc' = "menu" /\ mode' = "both" /\ chosen' = "none"
    /\ UNCHANGED <<pair, half, astray>>

Menu    == ChooseSystem \/ ChooseNothing \/ MenuMounts \/ MenuWrites \/ MenuFormats
Package == PackageMounts \/ PackageWrites \/ PackageUnmounts \/ InstallEnds
Next    == ReplaceNode \/ ReplaceFails \/ Refuse \/ Install \/ Menu \/ Package \/ PowerLoss

Spec == Init /\ [][Next]_vars

----------------------------------------------------------------------------
(* In the menu every name leads home, and nothing is mounted from anywhere  *)
(* else, unless a replacement of that pair has failed and no later switch   *)
(* has put it right (file_install, set_active_system).                      *)
HomeAgain ==
    pc = "menu" => \A v \in Names :
        v[1] \notin unsure => node[v] = v /\ mounts[v] \in {v, Nothing}

(* Nothing is written to the system the user did not choose, nor by a menu  *)
(* to another volume than the one it names, except through the names of a   *)
(* pair whose replacement has failed, and by the format menu's item for     *)
(* /boot1: one pair's failure does not spoil another's                      *)
(* (handle_volume_request, called once a pair).                             *)
OnlyChosenSystem == [][FormatItem(<<Boot, 1>>) \/ astray' \subseteq astray \cup unsure]_vars
=============================================================================
