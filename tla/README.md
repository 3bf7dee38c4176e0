# mkCDrec in TLA+

mkCDrec makes a bootable rescue medium of a running Linux system, with
backups of its file systems, and restores a machine from it. What a user
relies on is one sentence: *every file system that was backed up comes back
whole*. This directory models the parts of the repository on which that
sentence rests, checks them with TLC on small instances, and proves with TLAPS
what holds for all sizes.

## 1. The system

| Component | State it keeps | Operations | Correct when |
|---|---|---|---|
| `cutstream/cutstream.c` | buffer, bytes in the piece, capacity, volume number; the destination and `${VOLNO_FILE}` | copy, cut, number, run makeISO9660.sh, reopen, exit | the pieces are the stream, each as large as its volume allows |
| `scripts/tar-it.sh` | position in `To_Backup`, `${ISOFS_DIR}`, `${TMP_DIR}/volno`, `DONE` | back up each file system, log, last volume | nothing that left the pipeline is lost |
| `scripts/makeISO9660.in` | `${ISOFS_DIR}`, `CDrec.iso`, the media, `failcount` | name, rename, image, test, blank, burn, save, empty | the volumes are a set that can be restored, none is destroyed |
| `scripts/start-restore.sh`, `restore_common.sh` | disc in the drive, `To_Restore`, `/tmp/restore`, `/tmp/more_to_come` | find a file, send it to tar, ask for discs | tar gets every stream from its first byte to its last |
| `scripts/ask.for.cd.sh` | the same two files | ask for the next disc until it is there | the next part follows |
| tape and OBDR (both sides) | position on the tape | write, rewind, forward | the restore stops at the file it wants |
| `linuxrc*` | root device candidates | probe, mount, unpack, pivot | the image is found wherever it is |
| `pastestream-0.3/pastestream.c` | the same two files | send the parts of a file, in C | as `restore_split_file` |
| restore steps 1-9 | disks, hidden disks, mounts, `/tmp/ROOTDEV` | locate, ask, partition, mkfs, swap, restore, boot loader | only disks that were agreed to are written; what is called restored is |
| `restore-fs.sh`, `restore_boot_loader.sh` | - | one file system, or the boot loader alone | as steps 7 and 8 |
| `Resize_partition_layout` | sums of sizes, the input of sfdisk | add up, scale, lay out | the result fits the disk and holds the data |
| `clone-dsk.sh` | two disks | copy a disk's layout and contents | the copy is bootable |
| `mediacheck/` | ISO image, its application data | implant, check | what was implanted is accepted, anything else is not |
| `busybox/init/init.c` | list of actions, their pids, a delayed signal | run, wait, respawn, reload, stop, halt, restart | order of the stages, every console alive, a clean shutdown |
| `rd-base.sh`, `make_common.sh`, `initrd.sh`, `boot*.sh` | the rescue image | copy programs, libraries, modules | - |
| `test.sh`, `Config.sh` | settings | - | - |

How they interact: `rd-base.sh` writes 0 to `${TMP_DIR}/volno`, the size of a
medium to `/tmp/cutstream.h` and copies `To_Backup` to `To_Restore`.
`tar-it.sh` pipes tar into `cutstream`, which gets its room in `${CAPACITY}`
and calls `makeISO9660.sh` through `system()` whenever the room is used up;
the script finds the number in `volno`, and `DONE=N` in its environment tells
it to rename the file to `<name>_`, "to be continued". `tar-it.sh` itself
sources the script for the last volume. The restore finds all of it again by
the names of files: `CDrec-<date>_<n>`, `<name>_` and `LAST_CD`.
`makeISO9660.sh` has `implantisomd5` stamp an image before it is burnt; the user
checks the medium with `checkisomd5` or `mediacheck`. The rescue system that is
booted from it runs busybox's `init`, whose inittab starts `rc.sysinit` and the
consoles on which `start-restore.sh` or `clone-dsk.sh` is run.

What is hard to test here: boundaries (a stream that ends with a piece, an
empty piece, a full volume), the order of rename, truncation and deletion
across two processes, statuses nobody looks at, images that fail or media
that do not take them, wrong discs, files in `/tmp` and working directories that
outlive their purpose, counters that overflow, and, in init, signals and deaths
of children between any two steps. `PROJECT.json` lists them under "hazards", line by line.

## 2. The modules

| Module | Models |
|---|---|
| `StreamCut` | what a stream cutter promises: abstract specification |
| `Cutstream` | `cutstream.c`, one action per statement group |
| `CutstreamProofs` | its proofs |
| `Discs` | the media set: pieces, labels, `LAST_CD`; when it is well formed |
| `Backup` | `tar-it.sh` to CD and `makeISO9660.in` |
| `Restore`, `RestoreProofs` | step 7 of `start-restore.sh`, `Get_backup_back`, `restore_split_file`, `pastestream.c`, `ask.for.cd.sh` |
| `Tape`, `TapeProofs` | tapes: `tar-it.sh`, OBDR, `linuxrc_find_and_prep_root`, `start-restore.sh`, `restore-fs.sh` |
| `RestoreSteps`, `RestoreStepsProofs` | `start-restore.sh` with `Step1` .. `Step9` |
| `Resize`, `ResizeProofs` | `Resize_partition_layout` |
| `Md5` | `md5.c`: blocks, counters, padding |
| `Mediacheck`, `MediacheckProofs` | `implantisomd5.c`, `checkisomd5.c`, `mediacheck.c` |
| `BusyInit`, `BusyInitProofs` | `busybox/init/init.c` |
| `Recovery`, `RecoveryProofs` | `Backup`, then a disaster, then `Restore` from what the backup left; the proofs of `Backup` are in `RecoveryProofs` too |
| `MC*` | instances for TLC |

Operators whose comment says *mutant* are deliberately wrong variants of the
action after them. Nothing uses them; put in its place, each breaks the
property it is listed with in `PROJECT.json`, which shows that the property
depends on that code.

**Cutstream.** Bytes are numbers: byte *k* of the input is *k*. `out` is all
that was written, over all pieces; `sealed` records where `makeISO9660.sh`
took a piece away and under which number. `pc` names the statement: "read"
(147-153), "write" (154-164), "cut" (165-173), "iso" (174), "reopen"
(178-190), "end" (83-88). Bytes are kept rather than Kb because the buffer's
size, the capacity and the short write interact. After a cut, `main` uses a
`FILE` that `filepipe` has closed: `Exit` then ends in "exit0" or "crash". The
exit with 2 after an error of the destination (83-88), which is only looked for at
the end, is left out: what is claimed of an exit is claimed of an exit with 0.

**Backup.** Sizes are in Kb. cutstream is reduced to `Fill` and `Drain`, as
`StreamCut` allows. `isofs` is the content of `${ISOFS_DIR}` with its size as
du counts it; a piece is `[fs, lo, hi, more]`, `more` standing for the `_`.
`iso` is `CDrec.iso`, `saved` the images with a name of their own, `burnt`
and `drive` the media. `accepted` remembers the warnings the user went on
after (and exits that cutstream ignores): the properties say what holds as
long as nobody did. A Ctrl-C at a prompt ends the whole run (`Abort`).
mkisofs or growisofs may fail at any volume, a burn may fail twice. The test
for a missing mkisofs (makeISO9660.in:332) is `[ ! -f ]` of an empty string
and never true; it has no action. Integrity tests whose result is only logged,
checksums and `split_file` leave the pieces as they are and are part of
`Prepare`. When `CDrec.iso` cannot be moved (598-600) there is one more warning
that the user may accept, after which the properties claim nothing; `Save` has no
branch for it. Before a CDRW is blanked for a further volume the script asks for
another one (575-579): `BlankCdrw` takes it that the user has changed it.

**Restore.** `out` is what was sent down the pipe for the current file
system, piece by piece, `restored` what was sent for the ones before it.
`Get_backup_back`'s loop is `Look` and `Swap`; `restore_split_file` is `Cat`
and `CatFails`, `pastestream` is `Paste`, and `paster` says which of them reads
the parts; `ask.for.cd.sh` is `AskForCd`, `Insert` and `InsertOther`
(a wrong disc). At the prompt of `Get_backup_back`, which does not look at
the label, the user is assumed to insert the disc asked for. `disk` assigns
file systems to target disks, which gives the order of the restore; `Restart`
is Ctrl-C and a second `start-restore.sh`, after a reboot or in the same
session. A stream cut short counts as restored, as in the code: the exit in
the pipe ends a subshell, and tar's 2 is not the 1 that is tested for.

**Tape.** `tape` is the sequence of tape files, `at` the number of them in
front of the head, `inside` whether a read broke off within the next one. An
archive is `[kind |-> "fs", fs, whole]`. Backup, boot and any number of
restores follow each other: `Select` to `BackupDone`, `Boot`, then `Step2` for
every script that is started, also in the middle of another one. `layout[f]`
is the disk of the f-th line of `To_Backup`, numbered in the order in which
`start-restore.sh` lists disks. `WriteFsFull` is the end of the tape, which
the script does not notice. `plan` are the file systems the script has still to
restore or has restored; a mount with status 1 (`MountFails`) or the answer No
after a failing tar (`LoopGoesOn`) ends the loop over the lines of one disk only
(`LoopEnds`), which takes the rest of that disk out of `plan` while its archives
stay on the tape. Tape drives are external: mt and dd do what their
use in the scripts takes for granted, on a device that does not rewind.
Statuses of mt that end the script, block sizes and remote drives change
nothing of this and are left out.

**Discs.** `WellFormed` is the contract between the two sides: volumes are
numbered (`Numbered`), every stream is a chain of files (`Chained`), and what is
on a later disc belongs to a later file system or goes on from a `_` file
(`InTurn`). `Backup` is checked to leave such a set, `Restore` starts from any.

**RestoreSteps.** One archive is one step here; what the module has is all that
surrounds it. `hidden` are the disks whose files were moved to `.hide`, so that
the later loops do not see them; `agreed` the disks the user said yes to;
`content` what every partition holds: "old", "lost" after partitioning, nothing
after mkfs, an archive or part of one. `touched` are the disks written to in this
run in any way: `Mkswap` and `Label` write to the disks of `mkswap.sh` and
`mke2label.sh`, whether they are hidden or not. A line's `names` are the disks whose
name grep finds in it. `found` says that the backups are at
hand. `Locate` fails with 1, an error, or otherwise, and then the script goes on
without them, which `blind` remembers over all runs: the disk with the backups is
then not in use. `mounts` is the stack of what is mounted
on `LOCALFS`. A command fails with 1, for which the scripts test, or with
another status, which passes for success; `overlooked` remembers the disks of
failures that the script went on after. The loops over disks, and over disks and
lines in step 7, keep the set of positions still to do in `todo` and take the
least (`Turn`; `Loop` and `Row`). `Rerun` starts the script again with
the disks, `.hide`, mounts and `/tmp` as they were left.

**Resize.** Sizes are in sectors. The first round is `First...`, one action for
each kind of partition, with the user's answers as choices; `Add` keeps the
sums. The second writes the lines of sfdisk's input to `out`, `SecondDone` is the
final test. `Share` is the size of a partition in proportion, `Sized` what is made
of it: no less than what it holds, and no logical partition without a sector.
bc's fractions have four digits here (`Digits`). It prints no 0 before the point, and
sed cuts off what is behind the point: a product between -1 and 1 other than 0 is an
empty string (`Vanishes`, `Blank`). A test with it is an error and its branch not
taken, expr prints nothing (or, GNU's with the first operand missing, the second:
`GnuExpr`), and sums, starts and sizes made of it are blank in their turn. `Whole`
says that this has happened to no share. Where sfdisk puts the logical partitions is
external (`Added`, `Before`, `Lo`, `Hi`), and so is what it lists of the source
disk: `IsTable` is what the code takes for granted of it.

**Md5, Mediacheck.** A digest is the sequence of the blocks that were
transformed, that is, MD5 without collisions; what is modelled of `md5.c` is the
buffering, the counters with their width, and the padding. An image is a sequence
of cells in sectors; `fed` is what was summed. `Burn` is the medium: good,
padded, short, or with one wrong cell. `Region` is the expression that finds the
digits in a buffer; an end before its start is a memset out of bounds ("crash").
`MaskFits` says when that cannot be: in real images the descriptor is at the
beginning of the second buffer. `IsImage` is what mkisofs makes: whole sectors, and
as many at least as the descriptor says are summed. A buffer is a number of sectors,
as 32768 is of 2048.

**BusyInit.** `list` is `init_action_list`; the commands and terminals of an
entry are its `id`. `proc` are init's children with zombies, `pc` what init is
doing, `inWait` whether it is inside a blocking call, which a handler interrupts.
A console is started in two steps, `RunKept` (fork) and `Keep` (`a->pid =`), as
`run()` unblocks signals before it returns: a stop_handler in between may reap the
child, and `missed` are the numbers that got into the list after that. The kernel is
taken not to give a number again to another process while init remembers it in an
entry.
`Record` is the delayed handler, `GoDown` the immediate ones that never return,
`Stop`, `StopReaps` and `Cont` the SIGTSTP handler, which may reap what somebody
else is waiting for. `CheckHup`, `Parse`, `KillStale`, `Purge` and `PurgeDone` are
`reload_inittab`, one step per line of the file and per entry that is removed, so
that a halt can fall into it.

## 3. Runs

| Run | Checks | Bounds |
|---|---|---|
| `cutstream` | order and completeness of the bytes, full and numbered pieces, sizes, termination, refinement of `StreamCut` | buffer 3, volume 4, first piece 0, 2, 4 or 6, streams of 0 to 14 bytes |
| `backup_cd` | nothing lost, volumes that fit, a restorable set, no volume destroyed, termination | volume 4 Kb, rescue system 1, log 2, no or two file systems of 0 to 6 Kb, all settings |
| `restore` | whole streams, the handshake through /tmp, no shuffled stream, unsplit ones whole, termination | one or two disks, three file systems of 0 to 4 Kb on discs of 3, either reader, one reboot or rerun |
| `restore_order` | *violated:* a file without `_` is whole | two disks |
| `tape` | the tape's files, the root image, every file system its own archive | one to three file systems on two disks in all orders, up to two old tape files, two restores |
| `steps` | backups safe, agreed disks only, nothing called restored that is not | three disks, four file systems, three failures, three runs; one disk's name is the beginning of another's |
| `steps_reboot` | *violated:* all disks were restored | one failure, one run |
| `resize` | no overlap, room for the data, nothing shrinks without need | up to 3 primary or 2 logical partitions of 4 to 10 sectors, also an empty logical one and a primary one behind the extended; targets of 12 to 40 |
| `mediacheck` | implanted sums accepted, damage detected, chunks, only application data written, termination | 6 to 9 sectors of 7 cells, blocks of 4, counters that wrap at 16 and 49 |
| `mediacheck_large` | *violated:* images of any size are accepted | the same |
| `init` | pids, stages, shutdown, reload, respawning, signals | two inittabs with all types, two signals, one failing fork, one daemon |
| `recovery` | all data back, end to end | two file systems of 0 to 6 Kb, with and without a burner |

The bounds let the cases that matter happen: the buffer does not divide the
volume; a stream is cut zero to three times, ends before, on and after a
boundary; first pieces may be empty or larger than a volume; two file systems
share a volume and are split over three; four discs make the search wrap
round `LAST_CD`. A further file system or volume repeats them. In `steps` a
failure can leave something behind in the first run that the second meets and the
third; in `init` two signals are needed for every race between them, a reload
followed by a halt among them; in `mediacheck` images lie on both sides of the
overflow, the descriptor follows none, one or two others, or is missing.

Where DVDs are written directly, `makeISO9660.in` says "Currently we do not care
for multiple volume sets!"; `NothingLost` and `RestorableSet` claim the first
volume only there. `RestoredWhole` is about restores in the order of the backup;
`RightArchive` about tapes that start at their beginning, and about file systems
before which as many archives were read as stand in front of theirs (`InStep`): not
those behind a disk that was skipped, ended early or restored out of order.
`BackupsSafe` is about machines on which no run has gone on without having mounted
the backups (`blind`); `AgreedOnly` excepts swap partitions and labels, lines that
grep finds by another disk's name and archives whose own mount has failed.
`ListedSpared`, `ShutdownDone`, `PidsRight` and `ConsolesRespawned` except a failed fork, a halt in the middle of a reload, the window
between a fork and the note of its pid, and those between a look at a variable and a
blocking call, all of which the code has; each exception is listed as a hazard.
`NoOverlap` and `RoomForData` are about layouts whose shares are numbers (`Whole`).
`RoomForData` and `NeverShrinks` except what the sums of
`Resize_partition_layout` do not know of, always at the expense of the last
partition: the tables of logical partitions and the track that is passed over
twice (`Lost`), a logical partition that is made larger than its share because of
what it holds, and an empty one that gets a sector.

Every module states its type invariant `TypeOK`. Configurations list it for
`Cutstream` and for `Backup`, where it bounds the attempts to burn; elsewhere it is
part of the inductive invariants of section 4.

**Fairness.** The scripts are sequential and keep running, so weak fairness of
their next step is what the machine gives. It includes the user, who answers
prompts: `Steps` contains going on after a warning and inserting the disc that
is asked for. Wrong discs and Ctrl-C are never assumed to end or to happen. In
`Cutstream` it also assumes that the destination takes bytes: on a full disk
the inner loop of fwrite has no exit. In `BusyInit` it is that of init's own next
step, of the end of the script that `waitfor` waits for, and of a SIGCONT after a
SIGTSTP; no console or daemon is assumed to end.

**Findings.** Three runs expect a violation:

* `restore_order`: the backup is made in the order of `To_Backup`, the restore
  disk by disk. The disc in the drive may hold the tail of the next file
  system, whose name has no `_`: it is taken for the whole. `RestoredWhole`
  therefore holds in the order of the backup, while in any order only
  `StreamInOrder` and `UnsplitWhole` do. (On tape, where archives have no names,
  the same order exchanges whole file systems.)
* `steps_reboot`: a mount that fails is noticed only when its status is 1, and
  then ends only the subshell of the loop; Step 9 follows in both cases and says
  that the system has been successfully restored.
* `mediacheck_large`: `total` in implantisomd5 is an `unsigned int`; at 2^32 bytes
  it wraps and the whole image is summed, which no checker does.

Some of the exceptions above are promises of the code's own comments and messages that
it does not keep. The modules state them without the exception, next to the property
that has it; no configuration lists them, as TLC refutes each of them when it is put
in place of the invariants of the module's own configuration:

* `FirstSkipped` (`MCTape.cfg`): "tape is sequential, meaning you can skip the first
  disk" (restore_common.sh:202). The files to pass over are counted in a directory
  that there is not when the backups are on tape (201), and the count is reset for the
  next disk (193), which is restored from the archives of the skipped one.
* `BackupsKept` (`MCRestoreSteps.cfg`): "Disk /dev/${dsk} contain also the backups! I
  will prevent the restore of the disk automagically" (221). mount fails with 32, for
  which Step 2 does not test (122); the disk is then not in use, by which Step 3 would
  recognise it, and is partitioned when the user agrees to it.
* `RefusedKept` (`MCRestoreSteps.cfg`): "NO, do not restore this disk! (hide all
  data)" (197). `mkswap.sh` and `mke2label.sh` are not split by disk and are run for
  refused ones too (336, 342); and `grep sda` (start-restore.sh:85) finds the lines of
  sdaa.
* `EverythingFits` (`MCResize.cfg`): "checks to see if everything fits" (913). A share
  of less than one sector becomes an empty string (1002), and the last test (1024) an
  error.
* `BehindExtended` (`MCResize.cfg`): "above is probably wrong" (987). A primary
  partition behind the extended one begins within it.
* `PidRuns` (`MCBusyInit.cfg`): "If pid != 0, it is already running" (init.c:572). A
  console that ends at once and is reaped by stop_handler before its pid is noted (453,
  576, 871) is never started again.

## 4. Proofs

Every safety property of the passing runs is proved for all values of the
constants. The constants are only restricted by the assumption of each module (`CutstreamAssumption`,
`BackupAssumption`, ...), which TLC evaluates in every run and which states what
kind of value a constant is; further conditions are named in the theorems and
listed here.

| Module | Theorems | Conditions |
|---|---|---|
| `CutstreamProofs` | `TypeOK`, `OutputIsInput`, `PiecesFull`, `PieceFits`, `CompleteAtExit`, refinement of `StreamCut` | - |
| `RestoreProofs` | `TypeOK`, `StreamInOrder`, `UnsplitWhole`, `RestoredWhole`, `Handshake` | well-formed media sets |
| `RecoveryProofs` | of `Backup`: `TypeOK`, `NoVolumeDestroyed`, `VolumeFits`, `NothingLost`, `RestorableSet`; of `Recovery`: `DataSurvives` | `DisksInOrder`, not `Skip` (for `DataSurvives`) |
| `RestoreStepsProofs` | `TypeOK`, `BackupsSafe`, `AgreedOnly`, `RestoredOrExcused` | `OwnNames` (for `BackupsSafe`, `RestoredOrExcused`) |
| `TapeProofs` | `TypeOK`, `TapeComplete`, `RootImage`, `RightArchive` | a tape has something to hold |
| `BusyInitProofs` | `TypeOK`, `PidsRight`, `Stages`, `ShutdownDone`, `ListedSpared` | `SameKind` (for `PidsRight`) |
| `ResizeProofs` | `TypeOK`, `NoOverlap`, `RoomForData`, `NeverShrinks` | source tables with `IsTable` |
| `MediacheckProofs` | `TypeOK`, `Md5Chunks`, `ImplantedAccepted`, `DamageDetected`, `OnlyAppdata` | images with `IsImage` |

The conditions, and why they are there:

* `OwnNames`: the name of a disk occurs only in the lines of `To_Restore` of its own
  partitions. Step 7 finds a disk's lines with `grep ${dsk}`; with `sda` and a line
  of another disk in which `sda` occurs the line is restored once more, and to
  whatever disk it names, also one that was refused. `AgreedOnly` says what is written
  in that case and needs no such condition.
* `DisksInOrder`: `To_Backup` lists the disks in the order of `ls`. Without it
  the run `restore_order` shows a stream that is cut short. `Skip` are the DVDs
  that are written directly, for which the script does not make volume sets.
* `SameKind`: no command is a console in one version of inittab and a sysinit
  script in another. `reload_inittab` removes sysinit entries, and does so while
  the console of the old entry is running, without a SIGTERM; a third version
  would start it again.
* In `Tape`, `To_Backup` is not empty.

**Cutstream.** The inductive invariant is
`IInv == TypeOK /\ OutputIsInput /\ PiecesFull /\ LoopInvariant`. The
properties are not inductive alone: that a cut happens exactly at the end of a
piece depends on `i`, the buffer and the position in the input adding up at
every statement, and that the last piece is complete depends on `feof` being
set exactly by a short read. `LoopInvariant` says that, statement by
statement. The lemmas say that ends of pieces are one volume apart
(`PieceEndStep`) and that the current piece ends one capacity after it starts
(`CurrentPiece`). The refinement maps `state` from `pc` and everything else by
name: fwrite delivers, makeISO9660.sh seals, all other statements stutter.

**Backup.** `BasicInv` has the types, where cutstream is in its stream
(`StreamInv`) and what lies in `${ISOFS_DIR}` under which name (`DirInv`).
`DriveInv` (no volume in the drive before the first is burnt) gives
`NoVolumeDestroyed`; `FitInv` bounds the directory by the capacity that was
computed from it, which gives `VolumeFits`; `KeepInv` says that the image in work
is a copy of the directory until it is saved, so that emptying the directory loses
nothing. `RestorableSet` needs most: the invariant follows the chain of `_`
files over the volumes made so far, with numbers 1 to `volno`, and says where it
goes on in the directory.

**Restore.** `BaseInv` has the types and that every file system is waiting, in
work or restored. `SentInv` and `PlaceInv` tie what was sent to the disc in the
drive: the next part is looked for on the disc after that of the last part,
which is all `StreamInOrder` needs, in any order of restoring. For
`RestoredWhole` the order of the restore is needed: `todo` is sorted by disk and
line (lemmas on insertion and on the sorted list), and `OrderInv` says that the
disc in the drive is never behind the first part of the next file system, so that
the first file found is the beginning of the stream; `InTurn` of `Discs` is used
there. `RestoredWhole` and `Handshake` speak of restores in the order of the
backup that are taken up again, if at all, after a reboot (`InOrder`): a second
`start-restore.sh` in the same session finds the files of the first in `/tmp`.
Lemmas on media sets show that labels and discs determine each other.

**Recovery.** `RecoveryInv` is the backup's invariant and, once the restore has
begun, the restore's with the discs that the backup left; the theorems of
both modules are composed at the disaster, where `RestorableSet` is exactly what
the restore starts from.

**RestoreSteps.** `Asked`: behind step 3 every disk is hidden or agreed to, and the
positions in `todo` are those of visible disks. `FoundInv`: a run that is past its
first step has the backups at hand, or it is blind and all its disks are overlooked,
since what it restores is nothing. `BackupsInv`: as long as no run was blind
(`BlindStays`: once is for ever), the backups' disk is in use, hence never agreed to,
mounted or taken for the root disk. `MountsInv`: a
disk of which something is left mounted cannot be agreed to, so that stale mounts
belong to hidden or overlooked disks. `FilledInv`: step 5 has emptied what is
behind it and step 7 has filled what is behind it.

**Tape.** `WriteInv` says which files are on the tape while it is written
(`Recorded`: the archives follow each other from some position on), `PlaceInv`
where the head is: after `n` unbroken reads of a script, `n` files behind the first
archive it wants. Loops that end early shorten `plan` and do not move the head, so
that `PlaceInv` counts reads and not file systems.

**BusyInit.** `EntryInv`: entries are distinct, a pid in the list is that of the
entry's own child or a missed one that is nobody's since (`Own`), the lines parsed so far stand at the end of the list in their
order behind the stale ones. `WaitInv`: what init waits for is the only waited-for
process that runs. `OrderInv` and `RanInv`: while the system goes down the list
holds the shutdown commands of `loaded` in its order, and those before `i`
have run. `KeepInv`: between a fork and the note of its pid no entry has that number.
`ConsolesListed` completes `PidsRight` and is where `SameKind` enters. For
`ListedSpared` the stale entries are shown to be those whose command the new inittab
does not have, once it is read to its end (`StaleGone`).

**Resize.** `ResizeInv` has the rows of the first round (`Rows`: what each answer
of the user may have made of a partition), the sums as sums over these rows
(`Sums`), and the lines of the second round (`Layout`): line `k` starts where the
sizes before it add up to (`Upto`), one track further behind the extended partition
(`Shift`), and `total` is that sum. `NoOverlap` follows because the sums grow with
`k` and the last one is compared with the disk. All of this is about numbers, that is,
layouts with `Whole`; without it the lines only have their types. For the other two properties shares
are compared with sums: what all logical partitions get by their shares is no more
than what the extended partition gets by the share of their sum, since a sum of
numbers cut off is no more than their sum cut off, so that the last one keeps the
rest, less `Lost`; and where the disk has room for all, the ratio is at least 1 with
its digits cut off too, so that no share vanishes. Sums over a prefix are given by their recursion only
(`Runs`); monotony, addition and the comparison of two sums are lemmas on that.

**Mediacheck.** The lower half is about `md5.c`. `Digest(c, f)` says that the
context `c` stands for the message `f`: its whole blocks are digested, the rest
is in the buffer, and the two counters are its length modulo the square of a word.
`DigestUpdate` shows that MD5_Update takes `Digest(c, f)` to `Digest(.., f \o d)`
for a chunk of any length, with the cases of a chunk that does not fill the buffer,
fills it, or meets an empty one; `DigestFinal` that MD5_Final then yields
`Reference(f)`, in one block or two. `ReferenceInjective` (different messages have
different references: the padding can be taken off again) is what stands for the
absence of collisions. The upper half has `MediaInv`, by the phases of a run:
`Summing` (what was summed is the image from its beginning, and `total` is its
length unless it can wrap), `Imprint` (what the sum in an image was made of), `Burnt`
(how a medium may differ from its image), `Reading` (what the checker summed is the
medium, with blanks only in the application data) and, for good media, `Exact` (it
is blank there, and buffers begin at multiples of their size). `DamageDetected`
follows: equal sums are equal messages, so the medium is the image, except in the
area that was blanked; were that the area of another descriptor than the image's, two
cells would be wrong. `ImplantedAccepted` needs in addition that `Region` covers the
digits, which `MaskFits` gives (`GoodBuffer`, `RegionFacts`); the rest of the area is
blank in the image already.

Induction over numbers is done in set form: a set of numbers that has 0 and with
each number the next (`SetInduction`, from the library's theorems on least
elements), or, for a statement on the first `n` members of a sequence, up to `n`
(`PrefixInduction`).

Only model-checked: liveness (`Termination`, `BackupEnds`, `RestoreEnds`,
`Recovers`, `CheckEnds`, `ConsolesRespawned`, `SignalsActedUpon`), which is outside
the prover's reach. The three violations are counterexamples and need no proof.

## 5. Plan, and what is not modelled

Done: the path of the data from tar to a CD or tape and back, with the steps
around it, the checking of media, the layout of new disks, and init; proofs of
the safety of all of them.

Next, if the code changes: `clone-dsk.sh` around `Resize` and the steps of
`RestoreSteps`; and, where a finding is repaired, its property in the passing run.

Not modelled:

* `busybox/` other than init. It is vendored, third-party code and nearly all
  (99 %) of the C lines of the repository: shells, editors, file system checkers.
  A share of the repository's lines that is modelled is therefore small whatever
  is done about mkCDrec; mkCDrec's own logic is in shell scripts and in
  `cutstream`, `pastestream` and `mediacheck`, which are modelled entirely.
* `linuxrc*` beyond the tape, the construction of the rescue image, `test.sh`:
  straight lines of copying, probing and unpacking; a failing command is a failing
  command, and no later step meets a state it did not expect.
* `clone-dsk.sh`, `restore-fs.sh`, `restore_boot_loader.sh`: menus around functions
  that are modelled. Between runs they keep nothing, but for the flag
  `/tmp/SFDISK.done.manual` of `clone-dsk.sh`, which is removed only where it does not
  exist (line 320): once a disk was partitioned by hand, later runs skip that step.
* Disk and NFS as destination or source of CD-less backups: one file per file
  system, no volumes. `split_file` for files over 2 Gb, the USB branch, block
  sizes and remote tape drives, software RAID, LVM, ia64 and DevFS names.
* The rounds of md5, screen output, front ends to commercial backup products.
