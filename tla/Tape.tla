-------------------------------- MODULE Tape --------------------------------
(***************************************************************************)
(* Backups on tape: scripts/tar-it.sh writing one tape file per line of    *)
(* To_Backup, after the three files of an OBDR tape if that is wanted;     *)
(* linuxrc_find_and_prep_root reading the root image of an OBDR tape; and  *)
(* start-restore.sh and restore-fs.sh finding the archives again, which    *)
(* have no name on a tape, by their position alone.                        *)
(*                                                                         *)
(* The tape is a sequence of tape files and the head is after the first    *)
(* at of them.  The device does not rewind when it is closed.              *)
(***************************************************************************)
EXTENDS Integers, Sequences, FiniteSets, FiniteSetsExt

CONSTANTS
    Layouts,            \* possible To_Backups: the disk of every file system
    Modes,              \* how the tape was chosen: "menu", "device" or "OBDR"
    MaxOld,             \* bound on the tape files of an earlier use
    MaxRuns             \* bound on the restore scripts started

\* To_Backup comes into being with its first line, and without it tar-it.sh
\* makes no backup.
ASSUME TapeAssumption ==
    /\ Layouts \subseteq Seq(Nat) /\ <<>> \notin Layouts
    /\ Modes \subseteq {"menu", "device", "OBDR"}
    /\ MaxOld \in Nat /\ MaxRuns \in Nat

VARIABLES
    mode, layout,
    pc,                 \* where the scripts are
    tape,               \* the tape files
    at,                 \* tape files before the head
    inside,             \* the head is not at the beginning of a file
    full,               \* whether the end of the tape was met: "no", "near", "end"
    cur,                \* the file system being backed up
    root,               \* what linuxrc has loaded as the root image
    script,             \* the restore script that runs, or ran last
    FSF,                \* files to skip
    skipped,            \* disks the user does not want to restore
    plan,               \* file systems the script restores, in its order
    restored,           \* for those that are done: what they were given
    runs                \* scripts started

vars == <<mode, layout, pc, tape, at, inside, full, cur, root, script, FSF,
          skipped, plan, restored, runs>>
settings == <<mode, layout>>
head == <<at, inside>>
writing == <<full, cur>>
running == <<script, FSF, skipped, plan, restored, runs>>
session == <<root, running>>

File(kind, f, whole) == [kind |-> kind, fs |-> f, whole |-> whole]
Archive(f) == File("fs", f, TRUE)
Nothing == File("nothing", 0, FALSE)

Disks == {layout[f] : f \in DOMAIN layout}

Init ==
    /\ mode \in Modes /\ layout \in Layouts
    /\ pc = "select"
    /\ \E n \in 0 .. MaxOld : tape = [k \in 1 .. n |-> File("old", 0, TRUE)]
    /\ at \in 0 .. Len(tape)
    /\ inside = FALSE /\ full = "no"
    /\ cur = 1 /\ root = Nothing
    /\ script = "none" /\ FSF = 0 /\ skipped = {} /\ plan = <<>> /\ restored = <<>> /\ runs = 0

-----------------------------------------------------------------------------
(* rd-base.sh and tar-it.sh *)

\* dd to the tape: what was after the head is gone.
Written(file) == Append(SubSeq(tape, 1, at), file)

\* "make device" and "make OBDR" rewind; the menu looks at the status only
\* (an OBDR tape chosen there is rewound by tar-it.sh before the header).
Select ==
    /\ pc = "select"
    /\ at' = IF mode = "menu" THEN at ELSE 0
    /\ pc' = IF mode = "OBDR" THEN "header" ELSE "write"
    /\ UNCHANGED <<settings, tape, inside, writing, session>>

\* OBDR 1): an empty header at the beginning of the tape.
WriteHeader ==
    /\ pc = "header"
    /\ tape' = <<File("header", 0, TRUE)>>
    /\ at' = 1
    /\ pc' = "image"
    /\ UNCHANGED <<settings, inside, writing, session>>

\* 2): the boot image.
WriteIso ==
    /\ pc = "image"
    /\ tape' = Written(File("iso", 0, TRUE)) /\ at' = at + 1
    /\ pc' = "root"
    /\ UNCHANGED <<settings, inside, writing, session>>

\* makeISO9660.sh has left none.
IsoMissing ==
    /\ pc = "image"
    /\ pc' = "stopped"
    /\ UNCHANGED <<settings, tape, head, writing, session>>

\* 3): the root image.
WriteRoot ==
    /\ pc = "root"
    /\ tape' = Written(File("root", 0, TRUE)) /\ at' = at + 1
    /\ pc' = "write"
    /\ UNCHANGED <<settings, inside, writing, session>>

\* Mutant of WriteFs: the device rewinds when dd closes it.
WriteFsRewinds ==
    /\ pc = "write" /\ cur <= Len(layout)
    /\ tape' = Written(Archive(cur)) /\ at' = 0
    /\ cur' = cur + 1
    /\ UNCHANGED <<settings, pc, inside, full, session>>

\* 4): one tape file for a line of To_Backup.
WriteFs ==
    /\ pc = "write" /\ cur <= Len(layout)
    /\ full = "no"
    /\ tape' = Written(Archive(cur)) /\ at' = at + 1
    /\ cur' = cur + 1
    /\ UNCHANGED <<settings, pc, inside, full, session>>

\* dd meets the end of the tape; its message goes to the log, and the loop
\* goes on with file systems that do not fit either.
WriteFsFull ==
    /\ pc = "write" /\ cur <= Len(layout)
    /\ \/ /\ full # "end"
          /\ tape' = Written(File("fs", cur, FALSE)) /\ at' = at + 1
          /\ full' = "near"
       \/ /\ full # "no"
          /\ full' = "end"
          /\ UNCHANGED <<tape, at>>
    /\ cur' = cur + 1
    /\ UNCHANGED <<settings, pc, inside, session>>

BackupDone ==
    /\ pc = "write" /\ cur > Len(layout)
    /\ pc' = "boot"
    /\ UNCHANGED <<settings, tape, head, writing, session>>

-----------------------------------------------------------------------------
(* The rescue system *)

\* mt fsf n: at most to the end of the recorded tape.
Forward(from, n) == IF from + n <= Len(tape) THEN from + n ELSE Len(tape)

Rewound == 0

\* The rest of the file the head is in, or the one it is in front of.
Under(p) ==
    IF p >= Len(tape) THEN Nothing
    ELSE IF inside THEN [tape[p + 1] EXCEPT !.whole = FALSE]
    ELSE tape[p + 1]

\* Mutant of Boot: the header is taken for part of the boot image.
BootSkipsOne ==
    /\ pc = "boot"
    /\ IF mode = "OBDR"
       THEN /\ root' = tape[Forward(Rewound, 1) + 1]
            /\ at' = Forward(Rewound, 2)
       ELSE root' = File("root", 0, TRUE) /\ at' \in {at, 0}
    /\ inside' = FALSE
    /\ pc' = "idle"
    /\ UNCHANGED <<settings, tape, writing, running>>

\* linuxrc: an OBDR tape is rewound and two files forward is the root image;
\* otherwise it is on the CD, and the tape may have been put in anew.
Boot ==
    /\ pc = "boot"
    /\ IF mode = "OBDR"
       THEN /\ root' = tape[Forward(Rewound, 2) + 1]
            /\ at' = Forward(Rewound, 3)
       ELSE root' = File("root", 0, TRUE) /\ at' \in {at, 0}
    /\ inside' = FALSE
    /\ pc' = "idle"
    /\ UNCHANGED <<settings, tape, writing, running>>

\* Mutant of Step2: it does not move an OBDR tape on.
Step2NotForward ==
    /\ pc \in {"idle", "read"}
    /\ runs < MaxRuns
    /\ at' = Rewound
    /\ inside' = FALSE
    /\ restored' = <<>> /\ plan' = <<>> /\ FSF' = 0
    /\ runs' = runs + 1
    /\ script' \in {"start-restore.sh", "restore-fs.sh"}
    /\ pc' = "ask"
    /\ UNCHANGED <<settings, tape, writing, root, skipped>>

\* start-restore.sh or restore-fs.sh is started, for the first time or after
\* another one ended or was aborted: rewind, and past the files of OBDR.
Step2 ==
    /\ pc \in {"idle", "read"}
    /\ runs < MaxRuns
    /\ at' = IF mode = "OBDR" THEN Forward(Rewound, 3) ELSE Rewound
    /\ inside' = FALSE
    /\ restored' = <<>> /\ plan' = <<>> /\ FSF' = 0
    /\ runs' = runs + 1
    /\ script' \in {"start-restore.sh", "restore-fs.sh"}
    /\ pc' = "ask"
    /\ UNCHANGED <<settings, tape, writing, root, skipped>>

\* The file systems in the order of start-restore.sh: disk by disk, each in
\* the order of To_Restore, without the disks that are hidden.
PlanOf(hidden) ==
    LET S == {f \in 1 .. Len(layout) : layout[f] \notin hidden}
        Before(f, g) == layout[f] < layout[g] \/ (layout[f] = layout[g] /\ f < g)
    IN  [k \in 1 .. Cardinality(S) |->
            CHOOSE f \in S : Cardinality({g \in S : Before(g, f)}) = k - 1]

\* ls ${RESTORE_PATH}/<disk>*.log* | wc -l: on tape RESTORE_PATH is empty, and
\* no log is in the root directory of the rescue system.
LogsOf(d) == 0

\* Disk by disk the user is asked; a disk that is not wanted is hidden, for
\* later scripts too.  FSF is set to 0 for every disk, so the last one decides.
Step3 ==
    /\ pc = "ask" /\ script = "start-restore.sh"
    /\ LET asked == Disks \ skipped
       IN  \E no \in SUBSET asked :
              /\ skipped' = skipped \cup no
              /\ FSF' = IF asked # {} /\ Max(asked) \in no
                        THEN LogsOf(Max(asked)) ELSE 0
    /\ plan' = PlanOf(skipped')
    /\ pc' = "read"
    /\ UNCHANGED <<settings, tape, head, writing, root, script, restored, runs>>

\* restore-fs.sh, step 9: "When backup is on tape position to FS".
Positioned(n) == Forward(at, n)

\* restore-fs.sh: a line of To_Restore is chosen, and the tape is moved on.
Choose ==
    /\ pc = "ask" /\ script = "restore-fs.sh"
    /\ \E f \in 1 .. Len(layout) :
          /\ plan' = <<f>>
          /\ FSF' = f - 1
          /\ at' = Positioned(FSF')
    /\ pc' = "read"
    /\ UNCHANGED <<settings, tape, inside, writing, root, script, skipped,
                   restored, runs>>

\* Before the first file system of every disk start-restore.sh skips FSF tape
\* files: BACKUPS_ON_MT is reset in the subshell of a pipe.
Wound ==
    LET j == Len(restored) + 1
        first == j = 1 \/ layout[plan[j]] # layout[plan[j - 1]]
    IN  IF script = "start-restore.sh" /\ first THEN Forward(at, FSF) ELSE at

\* The next file system of the script, and what it is given.
Given(broken) ==
    [fs |-> plan[Len(restored) + 1], got |-> Under(Wound), broken |-> broken]

\* The last line of the disk whose lines are being read.
LastOfDisk(e) ==
    LET d == layout[plan[Len(restored) + 1]]
    IN  /\ \A k \in Len(restored) + 1 .. e : layout[plan[k]] = d
        /\ e < Len(plan) => layout[plan[e + 1]] # d

\* "error 1" ends only the subshell that the pipe makes of the loop over the
\* lines of a disk: those that are left are not read, and the next disk follows.
LoopEnds(done) ==
    \E e \in Len(restored) + 1 .. Len(plan) :
        /\ LastOfDisk(e)
        /\ plan' = SubSeq(plan, 1, done) \o SubSeq(plan, e + 1, Len(plan))

\* After an archive: the next line, or where tar returns 1 and the user does not
\* want to continue, the next disk.  restore-fs.sh has one line only.
LoopGoesOn == UNCHANGED plan \/ LoopEnds(Len(restored) + 1)

\* mount returns 1 and the file system's archive is not read; with any other
\* status it is.  In restore-fs.sh the user may also not want to read it.
MountFails ==
    /\ pc = "read" /\ Len(restored) < Len(plan)
    /\ at' = Wound
    /\ LoopEnds(Len(restored))
    /\ UNCHANGED <<settings, pc, tape, inside, writing, root, script, FSF,
                   skipped, restored, runs>>

\* dd of a tape file into tar, to its end.
ReadFs ==
    /\ pc = "read" /\ Len(restored) < Len(plan)
    /\ at' = Forward(Wound, 1)
    /\ inside' = FALSE
    /\ restored' = Append(restored, Given(FALSE))
    /\ LoopGoesOn
    /\ UNCHANGED <<settings, pc, tape, writing, root, script, FSF, skipped,
                   runs>>

\* tar fails, and dd has died of the broken pipe, somewhere in the file.
ReadFsFails ==
    /\ pc = "read" /\ Len(restored) < Len(plan)
    /\ Wound < Len(tape)
    /\ at' = Wound
    /\ inside' = TRUE
    /\ restored' = Append(restored, Given(TRUE))
    /\ LoopGoesOn
    /\ UNCHANGED <<settings, pc, tape, writing, root, script, FSF, skipped,
                   runs>>

RestoreDone ==
    /\ pc = "read" /\ Len(restored) = Len(plan)
    /\ pc' = "idle"
    /\ UNCHANGED <<settings, tape, head, writing, session>>

Stopped == pc = "stopped" \/ (pc = "idle" /\ runs = MaxRuns)
Terminated == Stopped /\ UNCHANGED vars

Next ==
    \/ Select \/ WriteHeader \/ WriteIso \/ IsoMissing \/ WriteRoot
    \/ WriteFs \/ WriteFsFull \/ BackupDone
    \/ Boot \/ Step2 \/ Step3 \/ Choose
    \/ MountFails \/ ReadFs \/ ReadFsFails \/ RestoreDone
    \/ Terminated

Spec == Init /\ [][Next]_vars

-----------------------------------------------------------------------------

Files == [kind : {"old", "header", "iso", "root", "fs", "nothing"},
          fs : 0 .. Len(layout), whole : BOOLEAN]

\* The types; the head never leaves the recorded tape, and nothing is read
\* for a file system that To_Restore does not have.
TypeOK ==
    /\ mode \in Modes /\ layout \in Layouts
    /\ pc \in {"select", "header", "image", "root", "write", "boot", "idle",
               "ask", "read", "stopped"}
    /\ tape \in Seq(Files) /\ at \in 0 .. Len(tape)
    /\ inside \in BOOLEAN /\ full \in {"no", "near", "end"}
    /\ cur \in 1 .. Len(layout) + 1
    /\ root \in Files
    /\ script \in {"none", "start-restore.sh", "restore-fs.sh"}
    /\ FSF \in Nat /\ skipped \subseteq Disks
    /\ plan \in Seq(1 .. Len(layout)) /\ Len(restored) <= Len(plan)
    /\ restored \in Seq([fs : 1 .. Len(layout), got : Files, broken : BOOLEAN])
    /\ runs \in 0 .. MaxRuns

\* Tape files in front of the first archive of this backup, if the tape was
\* at its beginning.
Ahead == IF mode = "OBDR" THEN 3 ELSE 0
Fresh == Len(tape) > Ahead => tape[Ahead + 1].kind # "old"

BackedUp == pc \in {"boot", "idle", "ask", "read"}

\* tar-it.sh: after a backup that fitted, its archives are whole, each on the
\* tape once, in the order of To_Backup, up to the end of the tape, and on an
\* OBDR tape directly behind the three files that linuxrc expects.
TapeComplete ==
    BackedUp /\ full = "no" =>
        \E from \in 0 .. Len(tape) :
            /\ mode # "menu" => from = Ahead
            /\ SubSeq(tape, from + 1, Len(tape)) =
                   [f \in 1 .. Len(layout) |-> Archive(f)]

\* linuxrc: what is unpacked into the RAM disk is the root image, however many
\* archives follow it and wherever the tape was left.
RootImage == pc \in {"idle", "ask", "read"} => root.kind = "root"

\* What the j-th file system of the script was given is its own archive; on a
\* tape that was too short, as much of it as there is.
Right(j) ==
    LET r == restored[j]
    IN  \/ r.got = Archive(r.fs)
        \/ full # "no" /\ r.got \in {Nothing, File("fs", r.fs, FALSE)}

\* Every read of the script before its j-th got to the end of the tape file.
Unbroken(j) == \A k \in 1 .. j - 1 : ~restored[k].broken

\* restore-fs.sh moves to the archive that was chosen; start-restore.sh counts
\* on having read as many archives as To_Backup has in front of this one.
InStep(j) == script = "restore-fs.sh" \/ restored[j].fs = j

\* start-restore.sh and restore-fs.sh: a file system is given its own archive,
\* in any number of restores after each other, aborted ones included, on a
\* plain and on an OBDR tape, and never that of another one if the tape was too
\* short.  It takes a tape that was at its beginning when the backup started, no
\* read before it that broke off within a tape file, and that the disks up to it
\* are restored in the order of To_Backup, none of them skipped or ended early.
RightArchive ==
    Fresh =>
        \A j \in 1 .. Len(restored) : Unbroken(j) /\ InStep(j) => Right(j)

\* "tape is sequential, meaning you can skip the first disk": when nothing fails,
\* the disks are in the order of To_Backup and the user refuses the first of them,
\* the others are given their own archives.  They are not, as the count of the
\* files to skip is 0 on tape, and set to 0 again for the next disk.
FirstSkipped ==
    /\ Fresh /\ full = "no"
    /\ script = "start-restore.sh" /\ skipped = {Min(Disks)}
    /\ \A f, g \in 1 .. Len(layout) : f < g => layout[f] <= layout[g]
    /\ \A k \in 2 .. Len(restored) : restored[k].fs = restored[k - 1].fs + 1
    => \A j \in 1 .. Len(restored) : Unbroken(j) => Right(j)
=============================================================================
