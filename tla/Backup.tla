------------------------------- MODULE Backup -------------------------------
(***************************************************************************)
(* scripts/tar-it.sh backing up to CD, with cutstream at the end of its    *)
(* pipeline, and scripts/makeISO9660.in, which turns ${ISOFS_DIR} into a   *)
(* volume: at every cut (called by cutstream) and once at the end (sourced *)
(* by tar-it.sh).                                                          *)
(*                                                                         *)
(* Sizes are in Kb.  The backup streams of the file systems in To_Backup   *)
(* are the numbers in sizes; cutstream's copy loop is the two steps Fill   *)
(* and Drain, as StreamCut specifies it.                                   *)
(***************************************************************************)
EXTENDS Discs

CONSTANTS
    MAXCDSIZE,          \* room for files on a volume
    BootSize,           \* rescue system in ${ISOFS_DIR} before the backups
    LogSize,            \* a compressed tar log
    SizeLists,          \* possible backup sizes, in the order of To_Backup
    Configs             \* possible settings of Config.sh and of the menu

ASSUME BackupAssumption ==
    /\ MAXCDSIZE \in Nat \ {0}
    /\ BootSize \in 0 .. MAXCDSIZE
    /\ LogSize \in Nat
    /\ SizeLists \subseteq Seq(Nat)
    /\ Configs \subseteq [BURNCDR : BOOLEAN, BLANK_CDRW : BOOLEAN,
                          DVD_Drive : BOOLEAN, Iso_only : BOOLEAN]

VARIABLES
    pc,                 \* where tar-it.sh, cutstream or makeISO9660.sh is
    sizes,              \* the backup sizes of this run
    conf,               \* the settings of this run
    cur,                \* the file system being backed up
    pos,                \* how much of its stream has been written
    capacity,           \* room for the current piece
    volno,              \* the number in ${TMP_DIR}/volno
    final,              \* makeISO9660.sh is called after the loop, DONE unset
    isofs,              \* ${ISOFS_DIR}: labels, files, last, logs and du
    iso,                \* CDrec.iso in ${CDREC_ISO_DIR}
    saved,              \* images moved to a name of their own
    burnt,              \* volumes on media, the one in the drive included
    drive,              \* the medium in the writer
    failcount,          \* failed attempts to burn this volume
    accepted            \* the warnings the user chose to go on after

vars == <<pc, sizes, conf, cur, pos, capacity, volno, final, isofs, iso, saved,
          burnt, drive, failcount, accepted>>
config == <<sizes, conf>>

NoImage == [image |-> "none"]
BadImage == [image |-> "bad"]
Blank == [medium |-> "blank"]   \* an empty medium
Used == [medium |-> "used"]     \* one with contents that are not of this set

Init ==
    /\ pc = "fs"
    /\ sizes \in SizeLists
    /\ conf \in Configs
    /\ cur = 1 /\ pos = 0 /\ capacity = 0
    /\ volno = 0 /\ final = FALSE
    /\ isofs = [labels |-> {}, files |-> {}, last |-> FALSE,
                logs |-> {}, kb |-> BootSize]
    /\ iso = NoImage /\ saved = {} /\ burnt = {}
    /\ drive \in {Blank, Used}
    /\ failcount = 0
    /\ accepted = {}

-----------------------------------------------------------------------------
(* tar-it.sh and cutstream *)

\* cutstream opens ${DESTINATION} for writing, which empties it, and copies
\* Kb lo+1 .. hi of the stream to it.
Store(files, lo, hi) ==
    {p \in files : p.fs # cur \/ p.more}
        \cup {[fs |-> cur, lo |-> lo, hi |-> hi, more |-> FALSE]}

\* The tar log of the current file system is compressed into ${ISOFS_DIR}.
LogKb == IF cur \in isofs.logs THEN 0 ELSE LogSize

\* Mutant of StartFs: the files already on the volume are not counted.
StartFsWholeVolume ==
    /\ pc = "fs" /\ cur <= Len(sizes)
    /\ capacity' = MAXCDSIZE
    /\ pc' = "copy"
    /\ UNCHANGED <<config, cur, pos, volno, final, isofs, iso, saved, burnt,
                   drive, failcount, accepted>>

\* The next line of To_Backup: the room left is what du does not count.
StartFs ==
    /\ pc = "fs" /\ cur <= Len(sizes)
    /\ capacity' = MAXCDSIZE - isofs.kb
    /\ pc' = IF capacity' < 0 THEN "weird" ELSE "copy"
    /\ UNCHANGED <<config, cur, pos, volno, final, isofs, iso, saved, burnt,
                   drive, failcount, accepted>>

\* "The capacity left on CD is ..., which is weird.": with a negative capacity
\* cutstream never cuts, and reads into its buffer without a limit; the whole
\* stream ends up in one file, or the program dies.
Overrun ==
    /\ pc = "weird"
    /\ accepted' = accepted \cup {"weird"}
    /\ \E n \in {0, sizes[cur]} :
          isofs' = [isofs EXCEPT !.files = Store(@, 0, n),
                                 !.logs = @ \cup {cur},
                                 !.kb = @ + n + LogKb]
    /\ pos' = 0
    /\ cur' = cur + 1
    /\ pc' = "fs"
    /\ UNCHANGED <<config, capacity, volno, final, iso, saved, burnt, drive,
                   failcount>>

\* The stream fills the room: cutstream cuts and calls makeISO9660.sh.
Fill ==
    /\ pc = "copy"
    /\ sizes[cur] - pos >= capacity
    /\ isofs' = [isofs EXCEPT
                    !.files = Store(@, pos, pos + capacity),
                    !.kb = @ + capacity]
    /\ pos' = pos + capacity
    /\ volno' = volno + 1
    /\ pc' = "prepare"
    /\ UNCHANGED <<config, cur, capacity, final, iso, saved, burnt, drive,
                   failcount, accepted>>

\* The stream ends before that; its log joins the files of the volume.
Drain ==
    /\ pc = "copy"
    /\ sizes[cur] - pos < capacity
    /\ isofs' = [isofs EXCEPT
                    !.files = Store(@, pos, sizes[cur]),
                    !.logs = @ \cup {cur},
                    !.kb = @ + (sizes[cur] - pos) + LogKb]
    /\ pos' = 0
    /\ cur' = cur + 1
    /\ pc' = "fs"
    /\ UNCHANGED <<config, capacity, volno, final, iso, saved, burnt, drive,
                   failcount, accepted>>

\* Mutant of Finish: the last volume gets the number of the one before it.
FinishKeepsVolno ==
    /\ pc = "fs" /\ cur > Len(sizes)
    /\ isofs' = [isofs EXCEPT !.last = TRUE]
    /\ final' = TRUE
    /\ pc' = "prepare"
    /\ UNCHANGED <<config, cur, pos, capacity, volno, iso, saved, burnt, drive,
                   failcount, accepted>>

\* No more backups: LAST_CD, the last volume number, the last image.
Finish ==
    /\ pc = "fs" /\ cur > Len(sizes)
    /\ isofs' = [isofs EXCEPT !.last = TRUE]
    /\ volno' = IF volno > 0 THEN volno + 1 ELSE volno
    /\ final' = TRUE
    /\ pc' = "prepare"
    /\ UNCHANGED <<config, cur, pos, capacity, iso, saved, burnt, drive,
                   failcount, accepted>>

-----------------------------------------------------------------------------
(* makeISO9660.sh *)

Volume(dir) == [labels |-> dir.labels, files |-> dir.files, last |-> dir.last,
                kb |-> dir.kb]

\* "mv ${DESTINATION} ${DESTINATION}_" when a backup is in progress; an
\* earlier file of that name is overwritten.
Rename(files) ==
    {p \in files : p.fs # cur}
        \cup {[p EXCEPT !.more = TRUE] : p \in {q \in files : q.fs = cur /\ ~q.more}}

\* du of the file that Rename overwrites.
Overwritten(files) ==
    IF \E p \in files : p.fs = cur /\ p.more
    THEN LET p == CHOOSE q \in files : q.fs = cur /\ q.more IN p.hi - p.lo
    ELSE 0

\* Mutant of Prepare: the file keeps its name when it goes on on the next volume.
PrepareKeepsName ==
    /\ pc = "prepare"
    /\ isofs' = IF final
                THEN [isofs EXCEPT !.labels = @ \cup {volno}]
                ELSE [isofs EXCEPT
                         !.labels = @ \cup {volno},
                         !.logs = @ \cup {cur},
                         !.kb = @ + LogKb]
    /\ pc' = "image"
    /\ UNCHANGED <<config, cur, pos, capacity, volno, final, iso, saved, burnt,
                   drive, failcount, accepted>>

\* Name and label the volume, add the log so far and the checksums.
Prepare ==
    /\ pc = "prepare"
    /\ isofs' = IF final
                THEN [isofs EXCEPT !.labels = @ \cup {volno}]
                ELSE [isofs EXCEPT
                         !.files = Rename(@),
                         !.labels = @ \cup {volno},
                         !.logs = @ \cup {cur},
                         !.kb = @ + LogKb - Overwritten(isofs.files)]
    /\ pc' = "image"
    /\ UNCHANGED <<config, cur, pos, capacity, volno, final, iso, saved, burnt,
                   drive, failcount, accepted>>

\* growisofs writes the first volume to a DVD instead of to CDrec.iso.
Grow == /\ conf.DVD_Drive /\ conf.BURNCDR /\ ~conf.Iso_only
        /\ volno <= 1

\* The tests, the burning, the renaming and the cleaning of ${ISOFS_DIR} are
\* skipped when "DVD write directly to media".
Skip == conf.DVD_Drive /\ conf.BURNCDR

AfterImage == IF Skip THEN "return" ELSE "test"

Image ==
    /\ pc = "image"
    /\ IF Grow
       THEN /\ burnt' = burnt \cup {Volume(isofs)}
            /\ drive' = Volume(isofs)
            /\ iso' = iso
       ELSE /\ iso' = Volume(isofs)
            /\ UNCHANGED <<burnt, drive>>
    /\ pc' = AfterImage
    /\ UNCHANGED <<config, cur, pos, capacity, volno, final, isofs, saved,
                   failcount, accepted>>

\* mkisofs or growisofs fails, and the user goes on all the same.
ImageFails ==
    /\ pc = "image"
    /\ IF Grow THEN iso' = iso ELSE iso' \in {iso, BadImage}
    /\ accepted' = accepted \cup {"image"}
    /\ pc' = AfterImage
    /\ UNCHANGED <<config, cur, pos, capacity, volno, final, isofs, saved,
                   burnt, drive, failcount>>

\* "error 1" or "exit 1" on the bootable volume: no way to make it bootable, the
\* rescue system does not mount, an encrypted tarball cannot be listed.  The
\* script exits; cutstream does not look at its status and goes on.  (The test
\* for a missing mkisofs, "[ ! -f ]" of an empty string, is never true.)
ErrorExit ==
    /\ pc \in {"image", "test"}
    /\ volno <= 1
    /\ accepted' = accepted \cup {"error"}
    /\ pc' = IF final THEN "stopped" ELSE "return"
    /\ UNCHANGED <<config, cur, pos, capacity, volno, final, isofs, iso, saved,
                   burnt, drive, failcount>>

AfterTest == IF conf.BURNCDR THEN "blank" ELSE "save"

\* The image is mounted; the user may go on with one that does not mount.
MountTest ==
    /\ pc = "test"
    /\ accepted' = IF iso \in {NoImage, BadImage}
                   THEN accepted \cup {"mount"} ELSE accepted
    /\ pc' = AfterTest
    /\ UNCHANGED <<config, cur, pos, capacity, volno, final, isofs, iso, saved,
                   burnt, drive, failcount>>

\* Mutant of BlankCdrw: the user is not asked to replace the medium.
BlankCdrwInDrive ==
    /\ pc = "blank"
    /\ IF conf.BLANK_CDRW
       THEN drive' = Blank /\ burnt' = burnt \ {drive}
       ELSE UNCHANGED <<drive, burnt>>
    /\ failcount' = 0
    /\ pc' = "burn"
    /\ UNCHANGED <<config, cur, pos, capacity, volno, final, isofs, iso, saved,
                   accepted>>

\* The user replaces the medium of the previous volume, and what is in the
\* drive is blanked.
BlankCdrw ==
    /\ pc = "blank"
    /\ LET medium == IF volno > 1 THEN Blank ELSE drive
       IN  IF conf.BLANK_CDRW
           THEN /\ drive' = Blank
                /\ burnt' = burnt \ {medium}
           ELSE UNCHANGED <<drive, burnt>>
    /\ failcount' = 0
    /\ pc' = "burn"
    /\ UNCHANGED <<config, cur, pos, capacity, volno, final, isofs, iso, saved,
                   accepted>>

\* cdrecord writes an empty medium.
BurnCdr ==
    /\ pc = "burn"
    /\ drive = Blank
    /\ iso # NoImage
    /\ burnt' = IF iso = BadImage THEN burnt ELSE burnt \cup {iso}
    /\ drive' = IF iso = BadImage THEN Used ELSE iso
    /\ pc' = "save"
    /\ UNCHANGED <<config, cur, pos, capacity, volno, final, isofs, iso, saved,
                   failcount, accepted>>

\* Mutants of BurnRetry: the loop does not give up, or does not count.
BurnRetryForever ==
    /\ pc = "burn"
    /\ failcount' = failcount + 1
    /\ drive' \in {Blank, Used}
    /\ UNCHANGED <<pc, config, cur, pos, capacity, volno, final, isofs, iso,
                   saved, burnt, accepted>>

BurnRetryUncounted ==
    /\ pc = "burn"
    /\ failcount = 0
    /\ drive' \in {Blank, Used}
    /\ UNCHANGED <<pc, config, cur, pos, capacity, volno, final, isofs, iso,
                   saved, burnt, failcount, accepted>>

\* The first failure: the user puts another medium into the writer.
BurnRetry ==
    /\ pc = "burn"
    /\ failcount = 0
    /\ failcount' = 1
    /\ drive' \in {Blank, Used}
    /\ UNCHANGED <<pc, config, cur, pos, capacity, volno, final, isofs, iso,
                   saved, burnt, accepted>>

\* The second: the image is kept as CDrec.iso.${VOLID}.
BurnNOK ==
    /\ pc = "burn"
    /\ failcount = 1
    /\ failcount' = 2
    /\ saved' = IF iso \in {NoImage, BadImage} THEN saved ELSE saved \cup {iso}
    /\ iso' = NoImage
    /\ drive' = IF drive = Blank THEN Used ELSE drive
    /\ pc' = "save"
    /\ UNCHANGED <<config, cur, pos, capacity, volno, final, isofs, burnt,
                   accepted>>

EmptyDir == [labels |-> {}, files |-> {}, last |-> FALSE, logs |-> {}, kb |-> 0]

\* Mutant of Save: the image is left to be overwritten by the next one.
SaveForgetsImage ==
    /\ pc = "save"
    /\ isofs' = IF volno > 0 THEN EmptyDir ELSE isofs
    /\ pc' = "return"
    /\ UNCHANGED <<config, cur, pos, capacity, volno, final, iso, saved, burnt,
                   drive, failcount, accepted>>

\* An image of a set is given its name, ${ISOFS_DIR} is emptied for the next.
Save ==
    /\ pc = "save"
    /\ IF volno > 0 /\ ~conf.BURNCDR
       THEN /\ saved' = IF iso \in {NoImage, BadImage} THEN saved
                        ELSE saved \cup {iso}
            /\ iso' = NoImage
       ELSE UNCHANGED <<saved, iso>>
    /\ isofs' = IF volno > 0 THEN EmptyDir ELSE isofs
    /\ pc' = "return"
    /\ UNCHANGED <<config, cur, pos, capacity, volno, final, burnt, drive,
                   failcount, accepted>>

\* Back to cutstream, which opens a new destination and has a whole volume
\* for it, or to the end of tar-it.sh.
Return ==
    /\ pc = "return"
    /\ IF final THEN pc' = "end" /\ capacity' = capacity
       ELSE pc' = "copy" /\ capacity' = MAXCDSIZE
    /\ UNCHANGED <<config, cur, pos, volno, final, isofs, iso, saved, burnt,
                   drive, failcount, accepted>>

-----------------------------------------------------------------------------
\* The user answers a prompt with Ctrl-C.
Abort ==
    /\ pc \in {"weird", "image", "test", "blank", "burn"}
    /\ pc' = "stopped"
    /\ UNCHANGED <<config, cur, pos, capacity, volno, final, isofs, iso, saved,
                   burnt, drive, failcount, accepted>>

Stopped == pc \in {"end", "stopped"}
Terminated == Stopped /\ UNCHANGED vars

Steps ==
    \/ StartFs \/ Overrun \/ Fill \/ Drain \/ Finish
    \/ Prepare \/ Image \/ ImageFails \/ ErrorExit \/ MountTest
    \/ BlankCdrw \/ BurnCdr \/ BurnRetry \/ BurnNOK \/ Save \/ Return

Next == Steps \/ Abort \/ Terminated

Spec == Init /\ [][Next]_vars

\* The scripts keep running and the user answers every prompt.
FairSpec == Spec /\ WF_vars(Steps)
-----------------------------------------------------------------------------
Images == IF iso \in {NoImage, BadImage} THEN {} ELSE {iso}

\* What the user has in the end: media, named images and CDrec.iso.
Product == saved \cup burnt \cup Images

\* How much of the stream of f has left the pipeline.
Written(f) == IF f < cur THEN sizes[f] ELSE IF f = cur THEN pos ELSE 0

PieceType == [fs : 1 .. Len(sizes), lo : Nat, hi : Nat, more : BOOLEAN]

\* Types; the burn loop makes at most two attempts per volume.
TypeOK ==
    /\ pc \in {"fs", "weird", "copy", "prepare", "image", "test", "blank",
               "burn", "save", "return", "end", "stopped"}
    /\ sizes \in SizeLists /\ conf \in Configs
    /\ cur \in 1 .. Len(sizes) + 1
    /\ pos \in Nat /\ capacity \in Int /\ volno \in Nat
    /\ final \in BOOLEAN
    /\ \A p \in isofs.files \cup Pieces(Product) : p \in PieceType
    /\ isofs.kb \in Nat /\ isofs.logs \subseteq 1 .. Len(sizes)
    /\ failcount \in 0 .. 2
    /\ accepted \subseteq {"weird", "image", "mount", "error"}

\* As long as the user has not gone on after a warning, every Kb that has left
\* the pipeline is in ${ISOFS_DIR}, in an image or on a medium, whatever burn
\* fails and wherever the cuts fall: the renaming at a cut, the reopening of
\* the destination and the emptying of ${ISOFS_DIR} never race with the image.
\* Where DVDs are written directly, makeISO9660.sh does not save CDrec.iso, and
\* this is claimed for the first volume only.
NothingLost ==
    accepted = {} /\ (Skip => volno <= 1) =>
        \A f \in 1 .. Len(sizes) : \A k \in 1 .. Written(f) :
            Holds(isofs.files \cup Pieces(Product), f, k)

\* A volume exceeds MAXCDSIZE by no more than the log that makeISO9660.sh or
\* tar-it.sh adds after the capacity was computed, even when several file
\* systems share it (a directory that was not emptied after an error, or an
\* accepted negative capacity, excepted).
VolumeFits ==
    accepted \subseteq {"image", "mount"} =>
        \A v \in saved \cup burnt : v.kb <= MAXCDSIZE + LogSize

\* A backup that ends without a warning leaves a set that can be restored:
\* labels 1, 2, ..., LAST_CD on the last volume only, and for every file
\* system a chain of "_" files on consecutive volumes ended by one without;
\* again for single volumes only where DVDs are written directly.
RestorableSet ==
    pc = "end" /\ accepted = {} /\ (Skip => volno <= 1) => WellFormed(Product, sizes)

\* A volume once written to a medium or saved under its name is never erased
\* or overwritten by a later one: blank_cdrw waits for another medium.
NoVolumeDestroyed == [][burnt \subseteq burnt' /\ saved \subseteq saved']_vars

\* The backup ends: every cut makes progress and the burn loop gives up.
BackupEnds == <>Stopped
=============================================================================
