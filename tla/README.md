# TLA+ models of the MIUI recovery

This directory keeps formal models of the recovery program in `src/`: TLA+
modules translated from the code, TLC configurations that check them on small
instances, and TLAPS proofs of what holds on every instance. `PROJECT.json`
says which lines of the source each definition models, which run checks which
property, with which mutation each property has been seen to fail, and which
hazards of the code are covered by what.

To check one module: `tlc -config RecoveryLogs.cfg RecoveryLogs.tla`; to prove
one: `tlapm RecoveryProofs.tla`.

## 1. Inventory

The program is the `recovery` binary of an Android phone, started by the
bootloader instead of the main system, together with the `updater` binary that
update packages bring along.

| part | source | state it keeps | operations | talks to |
|---|---|---|---|---|
| command flow | `recovery.cpp`, `bootloader.cpp` | the bootloader control block (BCB) on misc, `/cache/recovery/command`, `intent` | `get_args`, the dispatch of `main`, `erase_volume`, `finish_recovery` | main system and bootloader (through misc, /cache), volumes, UI |
| logs | `recovery.cpp` | `log`, `last_log`, `last_log.1`...; `tmplog_offset` | `copy_log_file`, `rotate_last_logs` | volumes |
| installation window | `miui_installer.c` | two threads, the result | `miui_start_install`, `miui_install_package` | key queue, windows, installer |
| key queue | `miui_input.c` | `key_queue`, `atouch_winmsg` | post, clear, wait, get | input thread, windows |
| windows and control threads | `miui_controls.c`, `miui_control_threads.c` | `isActived`, `threadnum` | `aw`, `aw_show`, `aw_destroy`, `aw_dispatch`; scroll, fling, bounce, tap threads | key queue |
| applypatch | `applypatch/applypatch.c`, `freecache.c` | files, partitions, `/cache/saved.file` | `applypatch`, `applypatch_check`, `GenerateTarget` | updater |
| updater, edify | `updater/`, `edify/` | the script's progress | the script functions | applypatch, minzip, volumes; the installer through a pipe |
| installer | `install.cpp`, `verifier.cpp` | child process, pipe | `install_package`, `try_update_binary` | updater, window |
| intents | `miui_intent.c` | table of functions, one global result | register, send | menu, scripts, everything |
| volumes | `roots.cpp`, `mtdutils/mounts.c` | fstab table, scan of the mounts | mount, unmount, format | everything |
| dual boot | `roots.cpp`, `sd_ui.c`, `Mi_TDB` | device nodes, mounts, the chosen system | `set_active_system`, `file_install` | volumes, installer, menus |
| Nandroid, dedupe | `nandroid.cpp`, `dedupe/` | backups, blobs, MD5 files, the chosen format | backup, restore, garbage collection | volumes, flash utilities |
| OpenRecoveryScript | `root_device.cpp` | the script | `check_for_script_file`, `run_ors_script` | intents |
| sideload, adb | `sideload.cpp`, `minadbd/` | sockets, pending events, transport, the sideload file | the packets SYNC, CNXN, OPEN, OKAY, CLSE, WRTE; `sideload_service` | the adb server on the host |
| MTD, BML | `mtdutils/`, `bmlutils/` | a write context: buffer, offset; the flash | read, write, erase | Nandroid, volumes, updater |
| zip | `minzip/` | hash table of entries | open, find, extract | installer, updater |

What is hard in it:

- *Power losses.* The header of `recovery.cpp` promises that a factory reset
  and an OTA installation are "safely restartable at any point"; `applypatch`
  promises to be "safe" and "idempotent". Both keep their progress in several
  places that cannot be written at once.
- *Ignored results.* Nobody looks at the result of `set_bootloader_message`;
  several erases' results are dropped, some formats report success whatever
  they did.
- *Threads without locks.* `atouch_winmsg` and `threadnum` are shared by
  threads and guarded by nothing; a bounded queue drops what does not fit.
- *Coupled state.* `tmplog_offset` is in memory and means something only as
  long as the file on /cache is there, and its own log the one that has the name. All dedupe backups share one directory
  of blobs; all sideload streams share one file; two names of a dual-boot
  volume may lead to one partition.
- *Flow control.* `minadbd` has one packet in flight in each direction of a
  stream; an OKAY too few stops it for good. Its events are collected and
  served later, when they may be old.
- *Bad blocks.* A flash writer and a flash reader must go past the same blocks,
  and neither writes down which.

What makes each part correct:

- command flow: a request is carried out or still on record (up to the erase of
  /cache, where the code can lose it); success is only
  reported for what was done; nothing is repeated after `finish_recovery`;
  recovery never keeps the phone for itself;
- logs: no session's log is lost before its time, the appended log is complete;
- window and queue: the outcome of an installation reaches the UI thread, once,
  and is that installation's own;
- control threads: none outlives its window;
- applypatch: at every moment each file is the target or can be made into it;
- installer: the child's commands are taken in order, and its end is noticed
  (not modelled);
- adb: every unit of a blob arrives once and in order, nothing of an old
  session is taken for the new one's, and every stream is answered;
- Nandroid: a restore that reports success is exact, one that fails damages one
  partition; the store keeps every blob a manifest needs;
- dual boot: an installation meets the chosen system and no other, and
  afterwards every name leads home;
- MTD: what was written stands on the flash whole and in order, and reads back.

## 2. Modules

| module | models |
|---|---|
| `RecoveryBoot` | a command's life, from the main system through `main()` and back, with power losses |
| `MCRecoveryBoot` | its constants for TLC: one request of each kind |
| `RecoveryLogs` | the log files over several sessions |
| `RecoveryProofs` | the theorems of `RecoveryBoot` and `RecoveryLogs` |
| `InstallWindow`, `InstallWindowProofs` | installer thread, input thread and UI thread around the key queue |
| `WindowThreads`, `WindowThreadsProofs` | a window and its helper threads |
| `ApplyPatch`, `ApplyPatchProofs` | an update script patching several files, interrupted and run again |
| `AtomicPatch` | the abstract specification `ApplyPatch` implements |
| `AdbSockets`, `AdbSocketsProofs` | the adb daemon in sideload mode: sockets, packets, event loop, service threads |
| `Volumes` | what mounting, unmounting and formatting do; operators for `Nandroid` |
| `DedupeStore` | the store of blobs and its garbage collection; operators for `Nandroid` |
| `Nandroid`, `NandroidProofs` | backup and restore, composed of the two, with the menu and Android around it |
| `MCNandroid` | its symmetry for TLC |
| `MtdFlash`, `MtdFlashProofs` | a raw image on NAND flash: written, erased, read back |
| `DualBoot`, `DualBootProofs` | the device nodes of two systems, and what is reached through them |

### RecoveryBoot

The persistent variables are `bcb` (the arguments next to "boot-recovery", or
`Absent` when zeroed), `cmdFile`, `files` (package, script, intent on /cache),
`cacheFs` and `data`. `args`, `status` and `ret` are those of `main()`; `pc`
names the next statement that touches persistent storage, and `ret` where
`erase_volume` or `finish_recovery` returns to, since both are called from
several places (`main`, the menu, a script). An action is one access: `get_args`
is one (read, then write back), `finish_recovery` three (intent, BCB,
COMMAND_FILE), an erase two (old contents gone; new file system there).
`PowerLoss` may come between any two: memory is lost, storage stays.
`set_bootloader_message` may fail at every call, and its result is ignored; a
mount of /cache may fail in `get_args`, `finish_recovery` and before a script.

The main system, the bootloader and the power are external: `AndroidRequest`
writes a request, `BootRecovery`/`BootAndroid` follow the BCB, the reboot
reason and the user's keys. `owed` is a history variable: the request `main()`
has neither carried out nor shown to the user as failed; `wiping` that it has
begun its own erase of /cache for that request.

`made` says of /data and /cache whether `format_volume` makes the file system
anew. Of another type ("auto", vfat, or /data with the sdcard on it) the volume
goes to `format_unknown_device`, which removes files with shell commands whose
result it ignores, or skips a volume that does not mount, and always returns 0.
On /cache any files may stay. On /data all stay: in `grep -v ^[media|share]$`
the shell reads the unquoted bar as a pipe, and the list of files to remove is empty.

Taken for granted: the two halves of the BCB are written at once; `android_reboot` does not fail; the shell commands of an
OpenRecoveryScript (`cmd`), its backups and its installs do nothing to the
modelled state; `intent_run_ors` from the menu is not included.

### RecoveryLogs

`slots[k]` is the session whose log `last_log.k` holds, `logged` the set of
lines of the current session in `LOG_FILE`, `offset` is `tmplog_offset` in
lines. `RotateOne` is one turn of the loop of `rotate_last_logs` (a session may
end between two turns), `AppendLog` and `CopyLastLog` are the two copies
`finish_recovery` makes, `EraseVolume` resets the offset and `FormatVolume`
(`INTENT_FORMAT`, Nandroid) does not. `Writes` are the copy's unchecked `fputs`:
any of the new lines may be missing, and the offset moves to the end all the
same. `OtherProcess` is `main()` of another process of the same binary
(`recovery --adbd` for a sideload, `dedupe`, `unyaffs`), which unlinks the
temporary log and opens a new one; recovery's own lines go on into the unlinked
file. `mishaps` (history) are the formats, short writes, other processes and
failed mounts of the session, as far as they still matter. `EndSession` is the
reboot or a power loss, which may cut an append short.

### InstallWindow

An action is one critical section of `key_queue_mutex`, or one store outside
of it: `atouch_winmsg_push` writes the cell and the length in an order the
compiler and the processor choose, so `PushFirst`/`PushSecond` allow both.
`PostEvent` drops the event when the queue is full. `aw_dispatch` starts with
`ui_clear_key_queue` (`ClearQueue`, `RepostNote`), and so can drop the notification
just posted. `ui` and `screen` are where the UI thread is (first loop,
or the one with the buttons). There is one message per installation, since only the
installer posts any. The thread that animates the progress bar, the canvas lock
and the text are not modelled.

### WindowThreads

A helper goes through `created`, `enter`, `storing_inc`, `work`, `leave`,
`storing_dec`, `ended`: `threadnum++` and `threadnum--` are a load and a store.
The UI thread shows, mutes, hides (end of an installation), shows again and
destroys the window; `Free` happens when the count is not positive or the wait has timed out.
`mishaps` records what came in between: a helper not counted yet (`late`), a
lost update (`torn`), a second `aw_show` (`reset`), the time-out. Use of a
freed window is undefined, and the model ends a window's story there: what a
late helper does to it is not modelled any further.

### ApplyPatch and AtomicPatch

The files `1..N` are patched in order by a script, which the user starts again
until it succeeds. A failed `apply_patch` returns "" and a sequence goes on with
the next file; only the calls in `Asserted`, which stand in an `assert()`, give the
script up (`Failed`). `skipped` (history) are the files passed over so. A file is in `Partitions` or in a file
system, and in `Elsewhere` if source and target have different names. `at[f]` is what the target
holds as its hash tells (`source`, `target`, `missing`, or `torn`: half
written), `kept` the separate sources that are there, `copyOf` whose source
`/cache/saved.file` holds. `pc`, `use`, `retry`, `madeCopy` are the local
variables of `applypatch` and `GenerateTarget`. `Fail` stands for every
operation that can fail, `PowerLoss` may come anywhere.

`AtomicPatch` is what the header of `applypatch()` promises: the files become
the target one after the other, each in one step, and none is lost, except
those of `Losable` and those from the first file of `Passable` on. `ApplyPatch`
implements it with `Losable` the partitions patched in place and `Passable` the
files outside an `assert()`, by the refinement mapping "the target; else the source if it
can still be had; else lost".

Taken for granted: `fsync`, `rename` and `unlink` are durable when they return;
nobody wipes /cache between two runs (a copy may be there); room on /cache is either made or the call
fails. `applypatch_check` of a partition is taken as an updater script calls it,
without a list of further hashes. The EMMC branch of `WriteToPartition` names
an undeclared variable (`applypatch.c:476`); it is modelled as the writes it
would do.

### AdbSockets

The main loop of `minadbd` is one thread: `Poll` is `fdevent_process`, which
notes what every descriptor is ready for (`ready`, `sock[k].pend`) when nothing
is left to serve; `Handle(t)` is `handle_packet` for the next packet of a
transport, `SocketEvent(k)` one call of `local_socket_event_func`. An event is
served as it was noted, however the socket has changed since, but for what
`fdevent_set` takes away (`FdeSet`: of a pending event it takes what *is* wanted
now, although its comment means what is no longer wanted; the model has what
the code does). A socket's `state` is `open` (found by id), `closing` (on the
closing list, without a peer), or `freed`; `backlog` is its queue of packets as
one sequence of units. `svc[k]` is the thread of `sideload_service` with the
two directions of the socket pair (`in` bounded by `Room`, `out`). All of them
write `file`; `owner` and `fouled` record who created it last and whether
another thread has written since.

The host's server is external: it follows the protocol, counts its ids from one
again when it restarts (`HostRestart`), and may be cut off (`Unplug`, where the
device's output thread posts SYNC). The two transport threads, the USB driver
and `start_adb_sideload`'s wait are not modelled.

### Volumes, DedupeStore and Nandroid

`Volumes` has `content` (of each partition of the fstab, by mount point) and
`mounted`; a format of a volume of `Emptied`, whose type has no formatter, may
leave any of its files and reports success. `DedupeStore` has `blobs` and `short`,
the ones a power loss has left in part; their operators are what the functions of
`roots.cpp` and `dedupe.c` do. `Nandroid` extends both. A directory of
`backups` holds an image for each partition: its format, the files it has, how
it ends (`tail`: whole, cut between lines, torn within a line, or of a newer
version) and whether MD5 files go with it. `act` is the operation in progress:
`todo` the partitions still to come, of which `First` is the next one in the
order of the code (`Order`); `pc` what comes next with it; `left` the files its handler has still to copy;
`ok` the result. A handler copies file by file, so an error or a power loss
can come between any two; a raw partition is one set of pieces, any subset of
which a failed write leaves. Errors that the code hides (a pipeline that
returns the status of its last command, unchecked writes of the manifest, of
the last buffer of a raw image) are `StoreMasked` and the second branch of
`DumpRaw`; `origin` then no longer vouches for the image. A restore hides errors
too: of the last buffer of a raw partition (the third branch of `WriteRaw`, on MTD and
on emmc), and of a blob that is short; `act.hushed` records them.

dedupe syncs neither blobs nor manifest. `act.fresh` are the blobs the backup
under way has stored: a `PowerLoss` may take any of them or leave it short, and
any files and lines of the backup's images, independently; `broken` marks such a
backup. Taken for granted: what an operation has written is on the card when the
next one begins (a backup ends with `sync`); a blob that has its size has its
data; errors that the kernel reports only after a file was extracted are left out; and
what a restore has written to /cache, which stays mounted, counts as written.

`GcReads` is the list of manifests `dedupe gc` reads before it deletes: all of
them, or, when a newer one is met, any part of the others; a torn one makes it
crash (`GcDies`). `Flags`, `FlagOf` and `Asked` are the menu's nine arguments
and what `nandroid_restore` makes of them. Around it: the user changes the
format, mounts and unmounts, deletes backups; Android changes files; a newer
recovery may use the same card (`OtherRecovery`, recorded in `mixed`); it
stores file systems only, of an item of the same menu.

### MtdFlash

`flash[b]` is what a block holds: `n` units of the image from `first` on.
`got`, `taken` and `stored` are how much `fread` has returned, how much
`mtd_write_data` has taken and what of it waits in the context's buffer; `pc`
and `caller` are where in `write_block` it is and for whom; `pos` is the loop's
block and `offset` the open device's, which differ: `write_block` starts from
the latter, and a failed comparison moves it. `try` counts its two attempts. A
block that fails twice is erased, remembered in the context and left behind,
unmarked (`skipped`). `NoSpace` has what each of the four callers makes of
ENOSPC: a restore whose last block finds no place still succeeds (`padFailed`).
The backup reads block by block past what is marked or cannot be read
(`unread`), and takes every end of the data for the end of the partition.
`placed`, `skipped`, `padFailed`, `restored` and `unread` are history.

### DualBoot

The volumes come in pairs `<<p, 0>>`, `<<p, 1>>`; `node` says which partition
the device node of a volume leads to, `mounts` which one is mounted there.
`set_active_system` is replayed node by node (`pair`, `half`): `ReplaceNode`
unmounts, unlinks and makes one anew; `ReplaceFails` is each of its three
failures, after which the pair's other node is skipped and the next pair's turn
comes. A node whose `mknod` failed is missing, and every later unlink of it
fails. `FormatItem(v)` is the format menu's item for `v`, which formats
`Formatted(v)`: for /boot1 that is /boot. `chosen` is the user's choice; the package and the menus mount and write
by name and reach whatever is mounted there, or what the node leads to. `unsure`
(history) are the pairs whose last switch failed, `astray` those where a write
has met another partition than the name, or the menu's item, meant.

## 3. Runs

| run | distinct states | shows |
|---|---|---|
| `recovery_boot` | 440,812 | all of `RecoveryBoot` but `SafelyRestartable` |
| `logs` | 100,852 | all of `RecoveryLogs` |
| `install_window` | 18,902 | all of `InstallWindow` |
| `window_threads` | 128,060 | all of `WindowThreads` |
| `apply_patch` | 9,402 | all of `ApplyPatch` but `NeverLost`; the refinement |
| `adb_sockets` | 787,104 | all of `AdbSockets` |
| `nandroid` | 4,656,524 | all of `Nandroid` |
| `nandroid_unformatted` | 2,492,478 | `RestoreExact` and `BlobsKept` for a /data whose files may stay, both backups in one store |
| `mtd_flash` | 2,290,225 | all of `MtdFlash` (`TypeOK` is proved) |
| `dual_boot` | 362,526 | all of `DualBoot` (`TypeOK` is proved) |

Two more runs show that the code does not do what its own texts say:

| run | the code | the text |
|---|---|---|
| `boot_not_restartable` | `main()` zeroes the BCB before it erases; after a power loss the main system runs on a half-erased /data, or, if /cache with COMMAND_FILE was being erased, on a phone that has forgotten the request | "must be safely restartable at any point" (`recovery.cpp:96`), "after this, rebooting will restart the erase" (`:103`), "until finish_recovery() is called" (`:226`) |
| `patch_never_lost` | the run after an interrupted partition write truncates the only good copy | "We still write the original source to cache, in case the partition write is interrupted" (`applypatch.c:855`) |

What the properties allow for, because the code does it:

- A volume that is not made anew is not erased, though success is reported:
  `made` in `SuccessMeansErased`. The header says of every volume "erase_volume()
  reformats /data" (`recovery.cpp:104`).
- From the moment `main()` erases /cache itself, COMMAND_FILE is gone and the BCB
  zeroed: `wiping` in `CommandKept`; the run `boot_not_restartable` is about it.
  `--update_package` with `--wipe_cache` destroys a package on /cache so as well
  (`recovery.cpp:883`).
- A script that goes on behind a failed file: `Excused` in `SourceSurvives` and
  `Completes`, `skipped` in `SuccessMeansTarget`, `Passable` in `AtomicPatch`.
  A plain file whose source was saved and unlinked for want of space is lost so,
  against "it's okay to run this program multiple times" (`applypatch.c:691-694`).
- The last buffer of a raw restore may be lost (`mtdutils.c:622-629`,
  `mmcutils.c:449`, `:462`), and files may stay on a volume without a formatter
  (`roots.cpp:628-648`): `hushed` and `Emptied` in `Brought`.
- A blob of a backup that a power loss broke off may be missing
  (`dedupe.c:154`): `broken` in `BlobsKept`.
- A tar that could not read a file looks finished (`nandroid.cpp:209`): `origin`
  in `RestoreExact`.
- The format menu's item for /boot1 (`wipe_ui.c:206`): it formats /boot,
  against "//format BOOT1" (`:202`), and is excepted by name in `OnlyChosenSystem`.
- The restore menu's item for /system1 restores nothing and reports success: it
  sends `restore_system1` (`backup_ui.c:90-92`), and `nandroid_restore` goes by
  `restore_system` there (`nandroid.cpp:905`). `FlagOf` and `Asked` have it so.
- The text of `--send_intent` is lost when a command ends in the menu, whose
  reboot calls `finish_recovery(NULL)` (`recovery.cpp:535`, against `:88`).
- A format outside `erase_volume` keeps `tmplog_offset`, and the next log misses
  its beginning (`recovery.cpp:527`, against `:361-363`); lines that could not be
  written are never written again (`:276-278`); another process takes the name of
  the temporary log (`:747`, against `:312` "copy our log file to cache as well"): `formatted`, `short` and `unlinked` in `LogComplete`.
- A helper that has not counted itself is not waited for
  (`miui_controls.c:275`, against `:273`): the mishap `late` of
  `ThreadsClosedOrMishap`; `ThreadsClosed` alone does not hold.
- Short of space, a source that is not the target is unlinked for good
  (`applypatch.c:907`, against `:705-706`).
- `dedupe gc` that meets a manifest of a newer version deletes by the list it
  has so far (`dedupe.c:541`): `mixed` in `BlobsKept` and `RestoreExact`.
- A restore to MTD succeeds although the last block found no place
  (`mtdutils.c:622-629`), and a backup from MTD ends at a failed read as at the
  end of the partition (`:685`): `padFailed` and `unread` in `SavedIsWritten`.
- `set_active_system` ignores what `handle_volume_request` returns, and
  `INTENT_SETSYSTEM` always reports 0: `unsure` in `HomeAgain`.
- Two sideload streams at once write one file (`services.c:54`): `owner` and
  `fouled` in `SuccessMeansWhole`.

Seen on the way, outside the models: a script's `restore` passes seven
arguments to an intent that wants nine, and says "Restore complete!"
(`root_device.cpp:495-496`); `copy_file` repeats a read that fails
(`dedupe.c:43-47`); /proc/mounts is read once, into 2047 bytes
(`mounts.c:80`); /cache is wiped after a failed installation too
(`miui_installer.c:164`).

Bounds, and why they are enough:

- `recovery_boot`: five kinds of request (every branch of the dispatch, with and
  without a lost package and an intent); three requests so that one can follow another
  and its successor; two power losses, since one can
  interrupt the repetition of what the first interrupted; two faults of misc or
  of a mount (the read and a write); scripts of two commands (an erase, then a
  reboot); every choice of `made`.
- `logs`: three old logs instead of five: the first, the last and one in between;
  six sessions, so that every slot is filled, dropped and refilled after a
  rotation cut short; two lines, so that a log can be partly copied.
- `install_window`: a queue of three (empty, partly full, full) instead of 256; five key events per
  installation overflow it; installations follow one another without bound.
- `window_threads`: three helpers: two can collide on the count while a third
  has not counted itself.
- `apply_patch`: five files: each of the four combinations of partition or
  file, in place or elsewhere, and a second plain file; two of them outside an
  `assert()`, one with files before and behind it, and the last; four faults.
- `adb_sockets`: two streams, so that an old one can linger under a new one;
  blobs of two units sent in one packet through a pair with room for one, so
  that a backlog forms, is written in part, and waits when the stream is closed;
  one restart of the host's server or of the cable.
- `nandroid`: a raw partition, which is erased, and a file system; two files, so
  that an image can be had in part; two backups, which share blobs and can be of
  either format; one error or power loss, since each ends an operation and the next
  begins from what it left. `nandroid_unformatted` has one file system without a
  formatter instead, so that both backups name the same blobs.
- `mtd_flash`: four blocks of two units, chunks of three (so that the buffer is
  filled in part, exactly, and bypassed), images up to one unit less than the
  partition and longer than what a marked block leaves; any set of marked blocks; two
  faults, which are needed for a block to fail both attempts.
- `dual_boot`: three pairs, as in the code; two failures or power losses, so
  that a switch can fail on the way there and on the way back; /boot is the second
  pair, so that one pair before it has its own format items and one behind it has none.

`CHECK_DEADLOCK FALSE` is set where the system may stop: after the last session,
when the UI thread sleeps for good because the notification was lost, after a window is freed, after a
script has succeeded, when adbd has exited. The other runs are checked for
deadlock.

Fairness:

- `RecoveryBoot`: `WF(RecoveryStep)`, since `main()` never waits except in the
  menu, whose actions are the user's and not fair; `WF(Boot)`: a phone that is
  off is turned on again some time. Nothing forces or forbids a power loss, up
  to its bound.
- `InstallWindow`: `WF` of the UI thread and of the posting of the outcome:
  both run whenever they are not asleep. The installation itself need not end,
  and key events are not forced; that the user lets go of the keys is the bound on them.
- `WindowThreads`: `WF` for each helper, which the scheduler runs; a helper
  need not come to the end of its scrolling as long as the window is active.
- `ApplyPatch`: `WF(Step)`: the program runs on, and the user has the update
  run again until it is through (`StartRun`).
- `AdbSockets`: `WF` of the main loop, of each service thread, and of the host
  reading what it is sent and sending what it has permission for. Nothing
  obliges the host to open, close or restart, or the cable to stay.

`Nandroid`, `MtdFlash`, `DualBoot` and `RecoveryLogs` have no liveness
properties and state no fairness.

## 4. Proofs

Eight modules hold theorems; every leaf is checked by `tlapm` with Z3, Zenon and
LS4, nothing is assumed but the named assumptions on the constants
(`BoundAssumption`, `LogAssumption`, `QueueAssumption`, `HelpersAssumption`,
`FilesAssumption`, `SocketsAssumption`, `MtdAssumption`, `DualBootAssumption`, and `Nandroid`'s
`PartsAssumption`, `OrderAssumption` and `FaultsAssumption`), which TLC
evaluates in the runs. So the results hold for any set of commands, any bounds,
any number of logs, any capacity of the queue, any finite set of helpers, any
script, any flash geometry and image, any number of volume pairs, any
partitions, files and backups, and any number of adb streams and sessions, size
of the blob, of the packets and of the socket pairs.

- `RecoveryProofs`, first half (`RecoveryBoot`). None of the properties is inductive. `Returns` ties each
  return address to its callers; `Reading` says that an owed request is on
  record, or its erase of /cache has begun, and that whoever holds arguments holds that request's; `EarlyClear` how far the
  BCB is set; `Telling` what each label says about `status`, `args` and what
  is erased; `Fresh` what holds if nothing went wrong. Type correctness
  together with `Returns` is proved first (`TypeCorrect`), then the whole
  (`Inductive`), then `BootTypes`, `CommandIsKept`, `SuccessIsErased` (of the volumes in `made`, whichever they are),
  `FinishClears`, `ErasesAreRequested`.
- `RecoveryProofs`, second half (`RecoveryLogs`). `Older` orders the kept logs below the current session,
  `Vacated` says that the slot the next turn of the loop renames to has just been
  emptied, and `Copied` that what lies before the offset is in `LOG_FILE`, unless a
  format, a short write or another process has come in between. From them
  `LogsOrdered`, `LogsComplete` and the action property `OnlyOldestDropped`;
  `LogTypes` apart from them. The two models share a source file but no state, and `RecoveryLogs`
  names its specification `LogSpec` so that one module can hold the theorems of both.
- `InstallWindowProofs`. `Posting` says what the cell and its length hold while
  the installer is at each label, `Notified` that a notification is in the
  queue or due. Lemmas on what a post adds to and a take leaves in a sequence. Results:
  `InstallTypes`, `CompletionStays`, `OwnResult`.
- `WindowThreadsProofs`. The count is the cardinality of the counted threads unless
  there was a mishap;
  lemmas on the cardinality of a set with one element more or less.
  Results: `WindowTypes`, `CountExact`, `ClosedOrMishap`.
- `ApplyPatchProofs`. All of it holds up to the first file that was passed over.
  `Prefix`: the files before the current one are the
  target; `Only`: a file without its source is the first that is not the target,
  and the copy is its own (or was overwritten); `Others`: while a file is patched
  the others have their source or do not need it; `Stages`: at each label what
  of source, copy and target is whole; `PartitionsKept` and `Result`.
  From the invariant: `SourcesSurvive`, `SuccessIsTarget`,
  and, step by step, the refinement `PatchIsAtomic`.

- `MtdFlashProofs`. `WrittenInOrder` is not inductive: that a block can be
  written without harm rests on `Above` (the image lies below the device's
  offset and below the block that is worked on, and has no unit that has not
  gone down), that none is passed over on `Behind`, and that the next units
  go down on `Calls` (what each caller of `write_block` holds). `AllDown`,
  `Ascend` and `NoGap` are the three conjuncts of the property. Two lemmas say
  what a step preserves that leaves the image alone (`Frame`) or writes above it
  (`Elsewhere`); then one lemma for each group of actions. Results:
  `MtdTypes`, `ImageInOrder`.

  `SavedIsWritten` compares what the backup has returned with the image, and
  marked blocks shift the two against each other. `Rank[b]` is the number of
  unmarked blocks below `b`, `Want[k]` what the block of rank `k` should hold.
  `Laid` says that every unmarked block below the one that is being worked on
  holds what its rank asks for, `Copied` that the backup's i-th block is the
  one wanted at i - 1 and that it has as many as the rank of where it stands;
  `Handed` and `Forward` say what each caller of `write_block` hands over and
  that a command never comes back to a block it has left behind. The lemmas `Counting` and
  `Starts` are the arithmetic of ranks. Result:
  `ImageComesBack`.
- `NandroidProofs`. A restore is judged at its end by what the partition held
  before and what the image has, neither of which the properties mention on the
  way. `StepsInv` says which operation can be at which step and what holds of
  the partition there; `ImagesInv` that an image holds only what has its place
  on its partition; `OriginInv` that the image in progress and the files
  the handler has still to copy are together what the partition held
  when it was begun; `RestoreInv` the same of a partition that is being
  restored, and that a partition whose turn has not come is as before;
  `BlobsInv` that the blobs of a manifest are in the store and whole, torn manifests
  included and those of broken backups not, and that those still to be written are on the partition, since
  garbage is collected around both. Lemmas on what
  the shared operators leave alone (`RestoreFrame`, `BackupFrame`, `Between`),
  then one for each action. `OrderAssumption` (each partition has one place in
  the code's order) is what makes `First` a partition of its set. Results:
  `NandroidTypes`, `RestoresAreExact`, `DamageStaysConfined`, `BlobsStay`. The
  proof also found a step the model should not have had: the other
  recovery stored a raw partition as a manifest.
- `DualBootProofs`. `Settled`: a pair without a failure leads where the mode
  says, as far as the switch has come; `Halfway`: so does the first node of the
  pair it is at; `ModeKnown`: the mode is home in the menu and the user's choice
  at an installation; `Mounted`: what is mounted by a name is what its node
  leads to. `FormatsInPair` is the lemma about the menu's items. Results:
  `DualBootTypes`, `HomeIsReached` and the action property
  `ChosenSystemOnly`.

- `AdbSocketsProofs`. The device gives ids to sockets, each server numbers its own
  streams from one, and packets carry both; what makes them fit is the number
  of the stream over all servers, which no packet carries. `Base` is how
  many streams the earlier servers opened. `SocketsInv` says that no two
  sockets are about one stream and `OpensInv` that no two OPENs on the way are, nor an
  OPEN and a socket. `DevInv` and `HostInv` divide what is on the way: a
  server that is connected finds only packets of streams after `Base`, with
  the id that stream has for it; before that, its own CNXN is the last packet it has sent, and
  the device's CNXN the last one it will get, when no packet and no open
  socket is left that could say anything of an earlier session. `SessionInv` says
  the same of the sockets. `ServedInv` says that an OKAY, as a service's unread
  output, as a packet (`Truthful`) or as the host's knowledge, is of a service that
  has received the whole blob, and that the file holds what its owner has
  received, unless another service wrote it since. Most steps of the device
  open no socket, and one lemma (`DeviceStep`) treats them all: packets
  are only taken from the front (`Shifted`), sockets only get closer
  to their end (`Wanes`), services keep their offset, and what is said is
  `Good`. `OpenStep`, the threads (`ThreadStep`) and the host (`HostUp`, `HostDown`) are treated
  apart. Results: `AdbTypes`, `AdbNoOldSession`, `AdbSuccessMeansWhole` and the
  action property `AdbBacklogDelivered`.

  `FlowControl` needs more, since it follows a permission that nobody keeps:
  it is a bit of the server, a flag of a socket, a packet or a backlog. `FInv` adds four
  parts to `IInv`. `AddressInv`: a packet for a socket is of that socket's stream,
  and only the cable in use carries the present server's. `KnownInv`: what the
  server knows of the device's id is true, and data reaches it only after the OKAY that
  names the stream. `PermitFlow`: the permission of each direction of a live stream is in
  exactly one of its places (`InPermit`, `OutPermit`, the cases of
  `OneOutstanding` one by one); and, of any open socket, that it has at most one
  packet under way and none beside a backlog, which is what keeps the order when the
  server has lost interest. `ContentFlow`: what a thread has read, its socket pair, the
  backlog and the packet under way are consecutive pieces of the blob (`Follows`).
  Numbers of packets are said as none, one and at most one, and each lemma about
  them is of one way a sequence changes: a packet is taken from the front
  (`Drops`) or some are added (`Grows`), which adds one packet of a kind
  (`GrowAdds`) or leaves a kind alone (`GrowKeeps`). A step that is not about a stream
  spares it (`Quiet`, `Spared`), so that what remains of each step is one socket
  (`OneSocket`), many for the end of a connection (`ManySockets`), or data on
  its way to a thread (`ContentMoves`). Results: `AdbFlowInductive` and
  `AdbFlowControl`, for every size of blob, packet and socket pair.

Every invariant and every action property of the passing runs is so proved for
all values of the constants. Only model-checked: the liveness properties
`ReturnsControl`, `InstallReported`, `WaitEnds`, `Completes` and `Answered`, since
liveness under fairness is out of the prover's reach here; and the violations of
the two runs that show one, which are about particular behaviours.

## 5. Plan

Done: 1 `RecoveryBoot`, 2 `RecoveryLogs`, 3 `InstallWindow`, `WindowThreads`,
4 `AtomicPatch`, `ApplyPatch`, 5 `AdbSockets`, 6 `Volumes`, `DedupeStore`,
`Nandroid`, 7 `MtdFlash`, 8 `DualBoot`; 9 all of them proved, but for the
liveness properties.

Next, most important first:

10. An abstract "replaces or leaves" specification of a restore, implemented by
    `Nandroid` for a single fault.
11. `Installer` (the command pipe and the child's end) and the transport threads
    of `minadbd`.

## 6. Not modelled

Rendering, fonts and languages; decoding of input events; the patch formats
(bsdiff, imgdiff) and inflation; RSA verification; the layout of the BCB; the
installer's pipe, the edify evaluator, the zip reader and the intent table
(reasons in `PROJECT.json`); third-party and generated code (pigz, yaffs2,
iniparser, digest, freetype, the parsers of edify); binaries, resources and device
configurations. Most of the repository's lines are of these kinds: vendored
libraries and their headers (freetype, png, pigz, iniparser, yaffs2), drawing, and the
interpreter's generated tables; they keep no state a property could be about, or are not this
program's own. The models cover the parts with state that survives a step,
failures or concurrency.
