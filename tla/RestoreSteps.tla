---------------------------- MODULE RestoreSteps ----------------------------
(***************************************************************************)
(* scripts/start-restore.sh and the functions Step1 .. Step9 of            *)
(* scripts/restore_common.sh: the way from a booted rescue system to       *)
(* "System has been successfully restored".  How one archive is read is    *)
(* module Restore; here an archive is unpacked in one step, which may      *)
(* fail.                                                                   *)
(*                                                                         *)
(* A command that is tested has a status: the scripts test for 1, and      *)
(* anything else passes for success.  Step 7's loop over the file systems  *)
(* is the right side of a pipe, so that "error 1" ends only that loop.     *)
(***************************************************************************)
EXTENDS Naturals, Sequences, FiniteSetsExt, SequencesExt

CONSTANTS
    Disks,              \* the disks in the order of ls
    Lines,              \* To_Restore: [dev, fs, disk, names], in its order
    Sources,            \* where the backups may be: "cdrom", "tape" or a path
    BackupDisk,         \* the disk that path is on, or "nfs"
    SwapDisks,          \* disks with a swap partition in mkswap.sh
    LabelDisks,         \* disks with a file system in mke2label.sh
    LsStatus,           \* what ls returns when there is no such file
    MaxFaults,          \* bound on the commands that fail
    MaxRuns             \* bound on the number of times the script is started

AllDisks == ToSet(Disks)
Devs == {Lines[n].dev : n \in DOMAIN Lines}
Statuses == {1, 32}     \* how a command may fail: 32 stands for any but 1

ASSUME StepsAssumption ==
    /\ Disks \in Seq(STRING)
    /\ Lines \in Seq([dev : STRING, fs : STRING, disk : STRING,
                      names : SUBSET STRING])
    /\ Devs \cap {"none", "old", "lost", "part"} = {}
    /\ \A n \in DOMAIN Lines : /\ Lines[n].disk \in AllDisks
                               /\ Lines[n].disk \in Lines[n].names
    /\ \A m, n \in DOMAIN Lines : Lines[m].dev = Lines[n].dev => m = n
    /\ Sources \subseteq {"cdrom", "tape", "path"}
    /\ BackupDisk \in AllDisks \cup {"nfs"}
    /\ SwapDisks \subseteq AllDisks /\ LabelDisks \subseteq AllDisks
    /\ LsStatus \subseteq {1, 2}
    /\ MaxFaults \in Nat /\ MaxRuns \in Nat \ {0}

VARIABLES
    source,             \* RESTORE_DEV
    found,              \* the backups are at hand: path mounted, tape rewound
    blind,              \* some run went on although they were not
    pc,                 \* the step
    todo,               \* positions that the step's loop has still to do
    cwd,                \* the working directory: "recovery" or "backups"
    listed,             \* NormalDevFound
    hidden,             \* disks whose files are in /etc/recovery/.hide
    agreed,             \* disks the user has agreed to restore in this run
    content,            \* archives on every partition; "old" is what was there
    touched,            \* disks something was written to in this run
    swaps,              \* disks whose swap partition is made and in use
    mounts,             \* what is mounted on LOCALFS, the last one on top
    rootdev,            \* /tmp/ROOTDEV
    says,               \* how the last run ended
    overlooked,         \* disks with a failure the script went on after
    faults, runs        \* failures and runs so far

vars == <<source, found, blind, pc, todo, cwd, listed, hidden, agreed, content,
          touched, swaps, mounts, rootdev, says, overlooked, faults, runs>>
kept == <<source, found, blind, runs>>
written == <<content, touched>>

\* Mutant of Left: the files of a refused disk are copied, not moved.
LeftAll == DOMAIN Disks

\* The files of a kind that are left in /etc/recovery: one for every disk that
\* is not hidden.
Left == {k \in DOMAIN Disks : Disks[k] \notin hidden}

\* "for mdsk in `ls mkfs.*`", "cat To_Restore | grep ${dsk}": the disks, and for
\* each of them the lines in which its name is found.
Selected ==
    {t \in Left \X (DOMAIN Lines) : Disks[t[1]] \in Lines[t[2]].names}

\* The disk whose turn it is in a loop over the disks.
Turn == Min(todo)
Disk == Disks[Turn]
NextDisk == todo' = todo \ {Turn}

Init ==
    /\ source \in Sources
    /\ found = FALSE /\ blind = FALSE
    /\ pc = "locate" /\ todo = {} /\ cwd = "recovery" /\ listed = FALSE
    /\ hidden = {} /\ agreed = {}
    /\ content = [d \in Devs |-> {"old"}] /\ touched = {}
    /\ swaps = {} /\ mounts = <<>> /\ rootdev = "none"
    /\ says = "nothing" /\ overlooked = {} /\ faults = 0 /\ runs = 1

\* error: "Press [ENTER] to exit".
Quit(why) == pc' = "ended" /\ says' = why

Fault == faults < MaxFaults /\ faults' = faults + 1
NoFault == UNCHANGED faults

-----------------------------------------------------------------------------
\* Step3 begins in /etc/recovery.
AskNext == pc' = "disks" /\ todo' = Left /\ listed' = (Left # {})

\* Steps 1 and 2: the tape is rewound or the path mounted.  Where that returns 1,
\* or the path is not known, it is an error; with any other status, or when the
\* directory is there with nothing mounted on it, the script goes on.
Locate ==
    /\ pc = "locate"
    /\ \/ /\ NoFault
          /\ found' = TRUE
          /\ AskNext
          /\ UNCHANGED <<blind, says, overlooked>>
       \/ /\ Fault /\ source # "cdrom" /\ ~found
          /\ \/ Quit("error") /\ UNCHANGED <<blind, todo, listed, overlooked>>
             \/ /\ blind' = TRUE
                /\ AskNext
                /\ overlooked' = AllDisks
                /\ UNCHANGED says
          /\ UNCHANGED found
    /\ cwd' = "recovery"
    /\ UNCHANGED <<source, runs, hidden, agreed, written, swaps, mounts, rootdev>>

\* A disk is in use when something on it is mounted or swapped to.
InUse(d) ==
    \/ d \in swaps \/ (source = "path" /\ found /\ d = BackupDisk)
    \/ \E n \in DOMAIN Lines : Lines[n].disk = d /\ Lines[n].dev \in ToSet(mounts)

Asking == pc = "disks" /\ todo # {}

\* Step 3: there is no such disk.
DiskMissing ==
    /\ Asking /\ Fault /\ Quit("error")
    /\ UNCHANGED <<kept, todo, cwd, listed, hidden, agreed, written, swaps,
                   mounts, rootdev, overlooked>>

\* A smaller disk is found out by a comparison with a file of /etc/recovery.
DiskSmaller ==
    /\ Asking /\ Fault
    /\ IF cwd = "recovery" THEN Quit("error") /\ UNCHANGED overlooked
       ELSE /\ overlooked' = overlooked \cup {Disk}
            /\ UNCHANGED <<pc, says>>
    /\ UNCHANGED <<kept, todo, cwd, listed, hidden, agreed, written, swaps,
                   mounts, rootdev>>

\* "NO, do not restore this disk! (hide all data)"
Refuse ==
    /\ Asking /\ NoFault
    /\ hidden' = hidden \cup {Disk}
    /\ NextDisk
    /\ UNCHANGED <<kept, pc, cwd, listed, agreed, written, swaps, mounts,
                   rootdev, says, overlooked>>

\* Mutant of Agree: a disk in use is taken as well.
AgreeInUse ==
    /\ Asking /\ NoFault
    /\ agreed' = agreed \cup {Disk}
    /\ NextDisk
    /\ UNCHANGED <<kept, pc, cwd, listed, hidden, written, swaps, mounts,
                   rootdev, says, overlooked>>

Agree ==
    /\ Asking /\ NoFault /\ ~InUse(Disk)
    /\ agreed' = agreed \cup {Disk}
    /\ NextDisk
    /\ UNCHANGED <<kept, pc, cwd, listed, hidden, written, swaps, mounts,
                   rootdev, says, overlooked>>

\* The disk is in use: where the backups are on it, "I will prevent the restore
\* of the disk automagically", and the script is left in their directory.  If
\* there is no such directory the disk is taken all the same.
AgreeButInUse ==
    /\ Asking /\ NoFault /\ InUse(Disk)
    /\ \/ /\ source = "path" /\ found /\ Disk = BackupDisk
          /\ cwd' = "backups"
          /\ hidden' = hidden \cup {Disk}
          /\ NextDisk
          /\ UNCHANGED <<pc, says, agreed>>
       \/ /\ ~(source = "path" /\ found /\ Disk = BackupDisk)
          /\ Quit("error")
          /\ UNCHANGED <<todo, cwd, hidden, agreed>>
       \/ /\ source = "path" /\ ~found
          /\ agreed' = agreed \cup {Disk}
          /\ NextDisk
          /\ UNCHANGED <<pc, says, cwd, hidden>>
    /\ UNCHANGED <<kept, listed, written, swaps, mounts, rootdev, overlooked>>

\* The end of step 3 and the first lines of step 4: "No disks left to restore.
\* I quit!" when ls does not find a file here and returns 1.
DisksDone ==
    /\ pc = "disks" /\ todo = {} /\ NoFault
    /\ IF ~listed
       THEN pc' = "swap" /\ UNCHANGED <<todo, cwd, says>>
       ELSE \/ /\ (cwd = "backups" \/ Left = {}) /\ 1 \in LsStatus
               /\ Quit("none left") /\ UNCHANGED <<todo, cwd>>
            \/ /\ (cwd = "backups" \/ Left = {}) => 2 \in LsStatus
               /\ pc' = "parts" /\ todo' = Left /\ cwd' = "recovery"
               /\ UNCHANGED says
    /\ UNCHANGED <<kept, listed, hidden, agreed, written, swaps, mounts, rootdev,
                   overlooked>>

-----------------------------------------------------------------------------
OnDisk(dev, d) == \E n \in DOMAIN Lines : Lines[n].dev = dev /\ Lines[n].disk = d

\* Step 4: "Are you ready to partition (No to skip) ?"; what was on the disk is
\* lost when it is partitioned.
Partition ==
    /\ pc = "parts" /\ todo # {}
    /\ \/ NoFault /\ UNCHANGED <<pc, says, written, overlooked>>
          /\ NextDisk
       \/ /\ NoFault
          /\ content' = [p \in Devs |-> IF OnDisk(p, Disk) THEN {"lost"}
                                        ELSE content[p]]
          /\ touched' = touched \cup {Disk}
          /\ NextDisk
          /\ UNCHANGED <<pc, says, overlooked>>
       \/ \E status \in Statuses :
             /\ Fault
             /\ IF status = 1
                THEN Quit("error") /\ UNCHANGED <<todo, overlooked>>
                ELSE /\ NextDisk
                     /\ overlooked' = overlooked \cup {Disk}
                     /\ UNCHANGED <<pc, says>>
             /\ UNCHANGED written
    /\ UNCHANGED <<kept, cwd, listed, hidden, agreed, swaps, mounts, rootdev>>

\* Mutant of PartsDone: no mkfs.
PartsDoneUnformatted ==
    /\ pc = "parts" /\ todo = {} /\ NoFault
    /\ pc' = "swap"
    /\ UNCHANGED <<kept, todo, cwd, listed, hidden, agreed, written, swaps,
                   mounts, rootdev, says, overlooked>>

PartsDone ==
    /\ pc = "parts" /\ todo = {} /\ NoFault
    /\ pc' = "mkfs" /\ todo' = Left
    /\ UNCHANGED <<kept, cwd, listed, hidden, agreed, written, swaps, mounts,
                   rootdev, says, overlooked>>

\* Step 5: mkfs.${_dsk} formats the partitions of a disk; nothing is tested.
Mkfs ==
    /\ pc = "mkfs" /\ todo # {}
    /\ \/ /\ NoFault
          /\ content' = [p \in Devs |-> IF OnDisk(p, Disk) THEN {}
                                        ELSE content[p]]
          /\ touched' = touched \cup {Disk}
          /\ UNCHANGED overlooked
       \/ /\ Fault
          /\ overlooked' = overlooked \cup {Disk}
          /\ UNCHANGED written
    /\ NextDisk
    /\ UNCHANGED <<kept, pc, cwd, listed, hidden, agreed, swaps, mounts, rootdev,
                   says>>

MkfsDone ==
    /\ pc = "mkfs" /\ todo = {} /\ NoFault
    /\ pc' = "swap"
    /\ UNCHANGED <<kept, todo, cwd, listed, hidden, agreed, written, swaps,
                   mounts, rootdev, says, overlooked>>

\* Step 6: mkswap.sh makes the swap partitions of all disks and swaps to them.
Mkswap ==
    /\ pc = "swap" /\ NoFault
    /\ swaps' = swaps \cup SwapDisks
    /\ touched' = touched \cup SwapDisks
    /\ pc' = "label"
    /\ UNCHANGED <<kept, todo, cwd, listed, hidden, agreed, content, mounts,
                   rootdev, says, overlooked>>

\* Step 6bis: mke2label.sh labels the file systems of all disks.
Label ==
    /\ pc = "label" /\ NoFault
    /\ touched' = touched \cup LabelDisks
    /\ pc' = "restore"
    /\ todo' = Selected
    /\ UNCHANGED <<kept, cwd, listed, hidden, agreed, content, swaps, mounts,
                   rootdev, says, overlooked>>

-----------------------------------------------------------------------------
\* Step 7: todo is the rest of both loops, over the disks and over the lines of
\* To_Restore.
Loop == Min({t[1] : t \in todo})
Row == Min({t[2] : t \in {u \in todo : u[1] = Loop}})
Now == Lines[Row]
NextLine == todo' = todo \ {<<Loop, Row>>}
Restoring == pc = "restore" /\ todo # {}

\* "error 1" inside the loop over the lines: on with the next disk.
NextLoop == todo' = {t \in todo : t[1] # Loop}

\* The partition is mounted on LOCALFS.  A status other than 1 is not noticed.
Mount ==
    /\ Restoring
    /\ \/ /\ NoFault
          /\ mounts' = Append(mounts, Now.dev)
          /\ pc' = "unpack"
          /\ UNCHANGED <<todo, overlooked>>
       \/ \E status \in Statuses :
             /\ Fault
             /\ IF status = 1
                THEN NextLoop /\ UNCHANGED pc
                ELSE pc' = "astray" /\ UNCHANGED todo
             /\ overlooked' = overlooked \cup {Now.disk}
             /\ UNCHANGED mounts
    /\ UNCHANGED <<kept, cwd, listed, hidden, agreed, written, swaps, rootdev,
                   says>>

\* An archive comes to lie on what is mounted last, or in the rescue system's
\* own directory.
Unpacked(archives) ==
    /\ content' = IF mounts = <<>> THEN content
                  ELSE [content EXCEPT ![Last(mounts)] = @ \cup archives]
    /\ touched' = touched \cup
          {Lines[n].disk : n \in {m \in DOMAIN Lines :
                                    mounts # <<>> /\ Lines[m].dev = Last(mounts)}}

Umounted == IF mounts = <<>> THEN mounts ELSE Front(mounts)

Unpacking == pc \in {"unpack", "astray"}

\* Get_backup_back, umount and fsck.
Unpack ==
    /\ Unpacking /\ NoFault /\ found
    /\ Unpacked({Now.dev})
    /\ mounts' = Umounted
    /\ NextLine
    /\ pc' = "restore"
    /\ UNCHANGED <<kept, cwd, listed, hidden, agreed, swaps, rootdev, says,
                   overlooked>>

\* Only part of the archive arrives, or nothing as it is not there.  err is the
\* status of tar, the last of the pipe: when it is 1 the user is asked, who may
\* end the loop, which leaves the file system mounted.
UnpackFails ==
    /\ Unpacking /\ (Fault \/ (~found /\ NoFault))
    /\ Unpacked({"part"})
    /\ \/ mounts' = Umounted /\ NextLine
       \/ UNCHANGED mounts /\ NextLoop
    /\ pc' = "restore"
    /\ overlooked' = overlooked \cup {Now.disk}
    /\ UNCHANGED <<kept, cwd, listed, hidden, agreed, swaps, rootdev, says>>

-----------------------------------------------------------------------------
\* Step 8: the root partition, as it was last written to /tmp/ROOTDEV, is mounted
\* and the boot loader run.  Step 9: the last words.
RootLines == {t \in Selected : Lines[t[2]].fs = "/"}
LastRoot ==
    LET loop == Max({t[1] : t \in RootLines})
    IN  Max({t[2] : t \in {u \in RootLines : u[1] = loop}})
RootDev == IF RootLines = {} THEN rootdev ELSE Lines[LastRoot].dev

Boot ==
    /\ pc = "restore" /\ todo = {}
    /\ rootdev' = RootDev
    /\ \/ /\ NoFault
          /\ pc' = "ended"
          /\ IF rootdev' = "none"
             THEN says' = "error" /\ UNCHANGED mounts
             ELSE says' \in {"reboot", "unsure"} /\ mounts' = Append(mounts, rootdev')
       \/ /\ Fault /\ rootdev' # "none"
          /\ pc' = "ended" /\ says' \in {"error", "unsure", "reboot"}
          /\ UNCHANGED mounts
    /\ UNCHANGED <<kept, todo, cwd, listed, hidden, agreed, written, swaps,
                   overlooked>>

\* The script is started again, perhaps after umount and swapoff.
Rerun ==
    /\ pc = "ended" /\ runs < MaxRuns
    /\ runs' = runs + 1
    /\ pc' = "locate" /\ todo' = {} /\ cwd' = "recovery" /\ listed' = FALSE
    /\ agreed' = {} /\ says' = "nothing" /\ overlooked' = {} /\ touched' = {}
    /\ \/ /\ found' = (found /\ source = "path")
          /\ UNCHANGED <<mounts, swaps>>
       \/ found' = FALSE /\ mounts' = <<>> /\ swaps' = {}
    /\ UNCHANGED <<source, blind, hidden, content, rootdev, faults>>

Ended == pc = "ended" /\ runs = MaxRuns /\ UNCHANGED vars

Next ==
    \/ Locate \/ DiskMissing \/ DiskSmaller \/ Refuse \/ Agree
    \/ AgreeButInUse \/ DisksDone
    \/ Partition \/ PartsDone \/ Mkfs \/ MkfsDone \/ Mkswap \/ Label
    \/ Mount \/ Unpack \/ UnpackFails \/ Boot
    \/ Rerun \/ Ended

Spec == Init /\ [][Next]_vars

-----------------------------------------------------------------------------
\* Types.
TypeOK ==
    /\ source \in Sources
    /\ found \in BOOLEAN /\ blind \in BOOLEAN
    /\ pc \in {"locate", "disks", "parts", "mkfs", "swap", "label", "restore",
              "unpack", "astray", "ended"}
    /\ pc \in {"disks", "parts", "mkfs"} => todo \subseteq DOMAIN Disks
    /\ pc \in {"restore", "unpack", "astray"} =>
          todo \subseteq (DOMAIN Disks) \X (DOMAIN Lines)
    /\ Unpacking => todo # {}
    /\ cwd \in {"recovery", "backups"} /\ listed \in BOOLEAN
    /\ hidden \subseteq AllDisks /\ agreed \subseteq AllDisks
    /\ swaps \subseteq AllDisks /\ overlooked \subseteq AllDisks
    /\ touched \subseteq AllDisks
    /\ content \in [Devs -> SUBSET (Devs \cup {"old", "lost", "part"})]
    /\ mounts \in Seq(Devs) /\ rootdev \in Devs \cup {"none"}
    /\ says \in {"nothing", "error", "none left", "reboot", "unsure"}
    /\ faults \in 0 .. MaxFaults /\ runs \in 1 .. MaxRuns

\* The line of an agreed disk, or one in which grep finds the name of one.
Named(n) == Lines[n].names \cap agreed # {}

\* No file system is written unless the user has agreed, in this run, to restore
\* its disk; or, in step 7, a disk whose name grep finds in its line; or its own
\* mount has failed and the archive lands on what an earlier run has left
\* mounted.  Nor is anything else written to other disks, but for what step 6
\* does to all disks alike, the refused ones included.
AgreedOnly ==
    [][/\ \A n \in DOMAIN Lines :
             content'[Lines[n].dev] # content[Lines[n].dev] =>
                 Lines[n].disk \in agreed \/ (pc = "unpack" /\ Named(n)) \/ pc = "astray"
       /\ \A d \in touched' \ (touched \cup agreed) :
             \/ pc = "unpack" /\ \E n \in DOMAIN Lines : Lines[n].disk = d /\ Named(n)
             \/ pc = "astray"
             \/ pc = "swap" /\ d \in SwapDisks
             \/ pc = "label" /\ d \in LabelDisks]_vars

\* The file systems of the disk that the backups are read from.
BackupsKept ==
    source = "path" =>
        \A p \in Devs : OnDisk(p, BackupDisk) => content[p] = {"old"}

\* "Disk contain also the backups! I will prevent the restore of the disk":
\* whatever is answered and however often the script is run, the file systems of
\* the disk that the backups are read from stay as they are; as long as no run
\* has gone on without having mounted it.
BackupsSafe == ~blind => BackupsKept

\* "NO, do not restore this disk! (hide all data)": nothing is written to a disk
\* that the user has refused.  mkswap.sh and mke2label.sh do, and step 7 does
\* where grep finds the name of another disk in its lines.
RefusedKept == touched \cap hidden = {}

\* "You may reboot the system now": every partition of a disk that was to be
\* restored holds its own archive and nothing else, neither what was there
\* before nor what an earlier run has left, unless the script went on after a
\* failure on that disk.
RestoredOrExcused ==
    says = "reboot" =>
        \A n \in DOMAIN Lines :
            \/ Lines[n].disk \in hidden \cup overlooked
            \/ content[Lines[n].dev] = {Lines[n].dev}

\* "Step 9: all disks were restored": with a failure or without.
AllRestored ==
    says = "reboot" =>
        \A n \in DOMAIN Lines :
            \/ Lines[n].disk \in hidden
            \/ content[Lines[n].dev] = {Lines[n].dev}
=============================================================================
