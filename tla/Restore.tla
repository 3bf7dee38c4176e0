------------------------------ MODULE Restore ------------------------------
(***************************************************************************)
(* Restoring from CD: step 7 of scripts/start-restore.sh with              *)
(* Get_backup_back, Restore_Splitted_Backup and restore_split_file of      *)
(* scripts/restore_common.sh, and scripts/ask.for.cd.sh, which             *)
(* restore_split_file runs to have the next disc inserted.  The two        *)
(* scripts communicate through /tmp/restore and /tmp/more_to_come, which   *)
(* outlive both.  pastestream.c, for which ask.for.cd.sh was written and   *)
(* which is still on the rescue system, may take restore_split_file's      *)
(* place in Restore_Splitted_Backup.                                       *)
(*                                                                         *)
(* The stream that tar gets for a file system is the sequence of the       *)
(* pieces that were sent down the pipe for it.                             *)
(***************************************************************************)
EXTENDS Discs

CONSTANTS
    Sets,               \* possible media sets: their discs and sizes
    Pasters,            \* what joins the parts of a split file
    Disks,              \* names of the target disks, in the order of ls
    Restarts,           \* how an aborted restore is taken up again
    MaxRestarts         \* bound on the number of aborted restores

ASSUME RestoreAssumption ==
    /\ \A s \in Sets :
          MediaType(s.discs, s.sizes) /\ WellFormed(s.discs, s.sizes)
    /\ Pasters \subseteq {"restore_split_file", "pastestream"}
    /\ Disks \subseteq Nat /\ Disks # {}
    /\ Restarts \subseteq {"reboot", "rerun"} /\ MaxRestarts \in Nat

VARIABLES
    sizes,              \* sizes of the backup streams, in the order of To_Backup
    discs,              \* the media set
    paster,             \* the program that joins the parts of a split file
    disk,               \* the target disk of every file system
    rpc,                \* where the scripts are
    todo,               \* file systems still to be restored
    fs,                 \* the one being restored
    cdrom,              \* the disc in the drive
    volno,              \* the volume asked for
    suffix,             \* FILE_TO_RESTORE ends in "_"
    tmpMore,            \* /tmp/more_to_come
    tmpRestore,         \* /tmp/restore: the file system, and whether with "_"
    out,                \* pieces sent to tar for fs
    restored,           \* pieces sent for every file system that is done
    restarts            \* how each aborted restore was taken up again

vars == <<sizes, discs, paster, disk, rpc, todo, fs, cdrom, volno, suffix,
          tmpMore, tmpRestore, out, restored, restarts>>
media == <<sizes, discs, paster, disk>>
tmp == <<tmpMore, tmpRestore>>

NoFile == [fs |-> 0, suffix |-> FALSE]

Label(disc) == CHOOSE k \in disc.labels : TRUE
Labelled(k) == {d \in discs : d.labels = {k}}

\* The files on the disc in the drive that are called fs without or with "_".
Found(more) == Files(cdrom, fs, more)

\* Who gets the next file: a split file goes through the program that joins
\* its parts, one without "_" through restore_split_file.
Reader(split) ==
    IF split /\ paster = "pastestream" THEN "paste" ELSE "cat"

\* The file that /tmp/restore names.
Named == Files(cdrom, tmpRestore.fs, tmpRestore.suffix)

\* For every disk in turn, its file systems in the order of To_Restore.
RestoreOrder(n, target) ==
    CHOOSE s \in [1 .. n -> 1 .. n] :
        \A i, j \in 1 .. n : i < j =>
            \/ target[s[i]] < target[s[j]]
            \/ target[s[i]] = target[s[j]] /\ s[i] < s[j]

\* The rescue system has booted from the first disc of the set.
FirstDisc == CHOOSE d \in discs : d.labels \in {{0}, {1}}

Init ==
    /\ \E s \in Sets : sizes = s.sizes /\ discs = s.discs
    /\ paster \in Pasters
    /\ disk \in [1 .. Len(sizes) -> Disks]
    /\ rpc = "next"
    /\ todo = RestoreOrder(Len(sizes), disk)
    /\ fs = 0 /\ volno = 0
    /\ cdrom = FirstDisc
    /\ suffix = FALSE
    /\ tmpMore = 0 /\ tmpRestore = NoFile
    /\ out = <<>>
    /\ restored = <<>>
    /\ restarts = <<>>

-----------------------------------------------------------------------------
\* start-restore.sh goes on with the next file system; Check_Multi_volume and
\* Current_VolID look at the disc in the drive.
NextFs ==
    /\ rpc = "next" /\ todo # <<>>
    /\ fs' = Head(todo)
    /\ todo' = Tail(todo)
    /\ out' = <<>>
    /\ volno' = Label(cdrom)
    /\ suffix' = FALSE
    /\ rpc' = IF Label(cdrom) = 0 THEN "cat" ELSE "look"
    /\ UNCHANGED <<media, cdrom, tmp, restored, restarts>>

\* Mutant of Look: the search ends at the disc with LAST_CD.
LookGivesUp ==
    /\ rpc = "look"
    /\ tmpMore' = IF Found(FALSE) = {} /\ Found(TRUE) # {} THEN 1 ELSE tmpMore
    /\ tmpRestore' = IF Found(FALSE) = {} /\ Found(TRUE) # {}
                     THEN [fs |-> fs, suffix |-> TRUE] ELSE tmpRestore
    /\ suffix' = (Found(FALSE) = {} /\ Found(TRUE) # {})
    /\ rpc' = IF Found(FALSE) \cup Found(TRUE) = {} /\ ~cdrom.last
              THEN "swap" ELSE Reader(suffix')
    /\ volno' = IF rpc' = "swap" THEN volno + 1 ELSE volno
    /\ UNCHANGED <<media, todo, fs, cdrom, out, restored, restarts>>

\* "Endless loop until we break from it": the file is on this disc, or its
\* first part is, or another disc is asked for.
Look ==
    /\ rpc = "look"
    /\ \/ /\ Found(FALSE) # {}
          /\ suffix' = FALSE /\ rpc' = "cat"
          /\ UNCHANGED <<volno, tmp>>
       \/ /\ Found(FALSE) = {} /\ Found(TRUE) # {}
          /\ suffix' = TRUE /\ rpc' = Reader(TRUE)
          /\ tmpRestore' = [fs |-> fs, suffix |-> TRUE] /\ tmpMore' = 1
          /\ UNCHANGED volno
       \/ /\ Found(FALSE) = {} /\ Found(TRUE) = {}
          /\ volno' = IF cdrom.last THEN 1 ELSE volno + 1
          /\ rpc' = "swap"
          /\ UNCHANGED <<suffix, tmp>>
    /\ UNCHANGED <<media, todo, fs, cdrom, out, restored, restarts>>

\* The user inserts the disc asked for; the script does not look at its label.
Swap ==
    /\ rpc = "swap"
    /\ cdrom' \in Labelled(volno)
    /\ rpc' = "look"
    /\ UNCHANGED <<media, todo, fs, volno, suffix, tmp, out, restored, restarts>>

\* Mutant of Cat: more_to_come is not looked at.
CatOnce ==
    /\ rpc = "cat"
    /\ LET more == suffix /\ Found(TRUE) # {}
       IN  /\ Found(more) # {}
           /\ suffix' = more
           /\ out' = Append(out, CHOOSE p \in Found(more) : TRUE)
           /\ rpc' = "done"
    /\ UNCHANGED <<media, todo, fs, cdrom, volno, tmp, restored, restarts>>

\* One round of restore_split_file: the name without "_" when the one with it
\* is not on the disc, the file to the pipe, then done or the next disc.
Cat ==
    /\ rpc = "cat"
    /\ LET more == suffix /\ Found(TRUE) # {}
           mtc  == IF cdrom.last THEN 0 ELSE tmpMore
       IN  /\ Found(more) # {}
           /\ suffix' = more
           /\ out' = Append(out, CHOOSE p \in Found(more) : TRUE)
           /\ rpc' = IF mtc > 0 THEN "ask" ELSE "done"
    /\ UNCHANGED <<media, todo, fs, cdrom, volno, tmp, restored, restarts>>

\* "Cannot find ... Are you sure this is the right CD ?": the exit ends only
\* the pipe's subshell, tar sees the end of its input.
CatFails ==
    /\ rpc = "cat"
    /\ Found(FALSE) = {} /\ (suffix => Found(TRUE) = {})
    /\ rpc' = "done"
    /\ UNCHANGED <<media, todo, fs, cdrom, volno, suffix, tmp, out, restored,
                   restarts>>

\* One round of pastestream's loop: the number in /tmp/more_to_come is read and
\* the file that /tmp/restore names copied to stdout.  If it is not there the
\* program exits with 1, which the pipe hides.
Paste ==
    /\ rpc = "paste"
    /\ out' = IF Named = {} THEN out
              ELSE Append(out, CHOOSE p \in Named : TRUE)
    /\ rpc' = IF Named # {} /\ tmpMore > 0 THEN "ask" ELSE "done"
    /\ UNCHANGED <<media, todo, fs, cdrom, volno, suffix, tmp, restored,
                   restarts>>

\* Mutants of AskForCd: it asks for the disc that is in the drive, or finds no
\* number in the label.
AskForSameCd ==
    /\ rpc = "ask"
    /\ volno' = Label(cdrom)
    /\ rpc' = "insert"
    /\ UNCHANGED <<media, todo, fs, cdrom, suffix, tmp, out, restored, restarts>>

AskForCdUnnumbered ==
    /\ rpc = "ask"
    /\ volno' = 0
    /\ rpc' = "insert"
    /\ UNCHANGED <<media, todo, fs, cdrom, suffix, tmp, out, restored, restarts>>

\* ask.for.cd.sh asks for the disc after the one in the drive.
AskForCd ==
    /\ rpc = "ask"
    /\ volno' = IF cdrom.last THEN 1 ELSE Label(cdrom) + 1
    /\ rpc' = "insert"
    /\ UNCHANGED <<media, todo, fs, cdrom, suffix, tmp, out, restored, restarts>>

\* Mutant of Insert: more_to_come is left as it was.
InsertKeepsMore ==
    /\ rpc = "insert"
    /\ cdrom' \in Labelled(volno)
    /\ rpc' = Reader(suffix)
    /\ UNCHANGED <<media, todo, fs, volno, suffix, tmp, out, restored, restarts>>

\* It goes on only with that disc, and looks what /tmp/restore finds there.
Insert ==
    /\ rpc = "insert"
    /\ cdrom' \in Labelled(volno)
    /\ IF Files(cdrom', tmpRestore.fs, tmpRestore.suffix) # {}
       THEN tmpMore' = 1 /\ UNCHANGED tmpRestore
       ELSE tmpMore' = 0 /\ tmpRestore' = [tmpRestore EXCEPT !.suffix = FALSE]
    /\ rpc' = Reader(suffix)
    /\ UNCHANGED <<media, todo, fs, volno, suffix, out, restored, restarts>>

\* Any other disc makes it ask again.
InsertOther ==
    /\ rpc = "insert"
    /\ cdrom' \in discs \ Labelled(volno)
    /\ UNCHANGED <<media, rpc, todo, fs, volno, suffix, tmp, out, restored,
                   restarts>>

\* tar's status is 2, not the 1 that is tested for, when the stream is cut
\* short: the file system counts as restored.
FsDone ==
    /\ rpc = "done"
    /\ restored' = Append(restored, [fs |-> fs, out |-> out])
    /\ rpc' = "next"
    /\ UNCHANGED <<media, todo, fs, cdrom, volno, suffix, tmp, out, restarts>>

\* Every disk is done.
Finish ==
    /\ rpc = "next" /\ todo = <<>>
    /\ rpc' = "end"
    /\ UNCHANGED <<media, todo, fs, cdrom, volno, suffix, tmp, out, restored,
                   restarts>>

\* Ctrl-C at a prompt, and start-restore.sh once more from the beginning with
\* the first disc mounted again; a reboot starts with an empty /tmp.
Restart ==
    /\ rpc \in {"swap", "insert"}
    /\ Len(restarts) < MaxRestarts
    /\ \E how \in Restarts :
          /\ restarts' = Append(restarts, how)
          /\ IF how = "reboot" THEN tmpMore' = 0 /\ tmpRestore' = NoFile
             ELSE UNCHANGED tmp
    /\ cdrom' = FirstDisc
    /\ rpc' = "next"
    /\ todo' = RestoreOrder(Len(sizes), disk)
    /\ restored' = <<>>
    /\ out' = <<>>
    /\ UNCHANGED <<media, fs, volno, suffix>>

Terminated == rpc = "end" /\ UNCHANGED vars

Steps ==
    \/ NextFs \/ Look \/ Swap \/ Cat \/ CatFails \/ Paste \/ AskForCd
    \/ Insert \/ FsDone \/ Finish

Next == Steps \/ InsertOther \/ Restart \/ Terminated

Spec == Init /\ [][Next]_vars
\* The scripts go on, and the user inserts the disc that is asked for, if not
\* at the first request: InsertOther leaves Insert enabled.
FairSpec == Spec /\ WF_vars(Steps)

-----------------------------------------------------------------------------
\* Types; no file system is restored more often than it was backed up.
TypeOK ==
    /\ rpc \in {"next", "look", "swap", "cat", "paste", "ask", "insert", "done",
                "end"}
    /\ Len(todo) + Len(restored) <= Len(sizes)
    /\ fs \in 0 .. Len(sizes) /\ volno \in Nat
    /\ cdrom \in discs
    /\ suffix \in BOOLEAN /\ tmpMore \in {0, 1}
    /\ tmpRestore.fs \in 0 .. Len(sizes) /\ tmpRestore.suffix \in BOOLEAN
    /\ Len(restarts) <= MaxRestarts

\* The pieces are the whole stream, in order.
Whole(pieces, size) ==
    /\ pieces # <<>>
    /\ pieces[1].lo = 0
    /\ pieces[Len(pieces)].hi = size
    /\ \A j \in 1 .. Len(pieces) - 1 : pieces[j].hi = pieces[j + 1].lo

\* Disk by disk is also the order of To_Backup, and every aborted restore was
\* taken up again after a reboot.
InOrder ==
    /\ \A f, g \in 1 .. Len(sizes) : f < g => disk[f] <= disk[g]
    /\ \A j \in 1 .. Len(restarts) : restarts[j] = "reboot"

\* Every file system that start-restore.sh goes on from has been given to tar
\* from its first byte to its last, across any number of discs, by either
\* program, with wrong discs inserted at ask.for.cd.sh's prompt and restores
\* taken up again.
RestoredWhole ==
    InOrder => \A j \in 1 .. Len(restored) :
        Whole(restored[j].out, sizes[restored[j].fs])

\* Whenever restore_split_file or pastestream is about to send a file down the pipe,
\* /tmp/more_to_come says whether that file is continued on the next disc.
Handshake ==
    InOrder /\ rpc \in {"cat", "paste"} /\ Found(FALSE) \cup Found(TRUE) # {} =>
        (tmpMore = 1 <=> Found(TRUE) # {})

\* In whatever order file systems are restored and whatever an aborted restore
\* left in /tmp, tar never gets the parts of a stream out of order, twice or
\* with a part missing in between.
StreamInOrder ==
    \A j \in 1 .. Len(out) - 1 :
        out[j].fs = fs /\ out[j + 1].fs = fs /\ out[j].hi = out[j + 1].lo

\* Nor does a file system on a single disc ever suffer.
UnsplitWhole ==
    \A j \in 1 .. Len(restored) :
        LET f == restored[j].fs
        IN  (\A p \in Pieces(discs) : p.fs = f => ~p.more)
                => Whole(restored[j].out, sizes[f])

\* The restore ends: the disc that is asked for always exists.
RestoreEnds == <>(rpc = "end")

\* Get_backup_back's comment on the file without "_": "easy part ($Fs) is on
\* this CD and is NOT splitted up".
EasyPartIsWhole ==
    rpc = "cat" /\ ~suffix /\ out = <<>> =>
        \A p \in Found(FALSE) : p.lo = 0 /\ p.hi = sizes[fs]
=============================================================================
