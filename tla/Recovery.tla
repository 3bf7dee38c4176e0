------------------------------ MODULE Recovery ------------------------------
(***************************************************************************)
(* Disaster recovery end to end: a backup as tar-it.sh, cutstream and      *)
(* makeISO9660.sh make it, the disaster, and the restore that              *)
(* start-restore.sh makes from whatever media and images the backup left.  *)
(* The sides share nothing but those and the order of the file systems     *)
(* (To_Backup, which rd-base.sh copies to To_Restore).                     *)
(***************************************************************************)
EXTENDS Backup

CONSTANTS
    Pasters,            \* what joins the parts of a split file
    Disks               \* names of the disks that are restored

ASSUME RecoveryAssumption ==
    /\ Pasters \subseteq {"restore_split_file", "pastestream"}
    /\ Disks \subseteq Nat /\ Disks # {}

VARIABLES
    discs, paster, disk, rpc, todo, fs, cdrom, wanted, suffix, tmpMore,
    tmpRestore, out, restored, restarts

rvars == <<discs, paster, disk, rpc, todo, fs, cdrom, wanted, suffix, tmpMore,
           tmpRestore, out, restored, restarts>>

R == INSTANCE Restore WITH
        Sets <- {}, Restarts <- {"reboot"}, MaxRestarts <- 1, volno <- wanted

RInit ==
    /\ Init
    /\ discs = {} /\ paster \in Pasters /\ disk \in [1 .. Len(sizes) -> Disks]
    /\ rpc = "idle" /\ todo = <<>> /\ fs = 0
    /\ cdrom = R!NoFile /\ wanted = 0
    /\ suffix = FALSE /\ tmpMore = 0 /\ tmpRestore = R!NoFile
    /\ out = <<>> /\ restored = <<>> /\ restarts = <<>>

BackupStep == rpc = "idle" /\ Next /\ UNCHANGED rvars

\* The backup has ended without a warning.  Named images are burnt before they
\* are needed; the rescue system boots from the first disc.
Disaster ==
    /\ rpc = "idle" /\ pc = "end" /\ accepted = {}
    /\ discs' = Product
    /\ cdrom' \in {d \in discs' : d.labels \in {{0}, {1}}}
    /\ todo' = R!RestoreOrder(Len(sizes), disk)
    /\ rpc' = "next"
    /\ UNCHANGED <<vars, paster, disk, fs, wanted, suffix, tmpMore, tmpRestore,
                   out, restored, restarts>>

RestoreStep == rpc # "idle" /\ R!Next /\ UNCHANGED vars

RNext == BackupStep \/ Disaster \/ RestoreStep

RSpec ==
    /\ RInit /\ [][RNext]_<<vars, rvars>>
    /\ WF_<<vars, rvars>>(BackupStep /\ Steps)
    /\ WF_<<vars, rvars>>(Disaster)
    /\ WF_<<vars, rvars>>(RestoreStep /\ R!Steps)

-----------------------------------------------------------------------------
\* What the two sides promise each other: when the restore has ended, every
\* file system in To_Backup has been given back to tar from its first byte to
\* its last, in the order in which it was backed up, however the backup was
\* cut, burnt again or kept as an image, and whatever wrong discs were tried.
DataSurvives ==
    rpc = "end" =>
        /\ Len(restored) = Len(sizes)
        /\ \A f \in 1 .. Len(sizes) :
              restored[f].fs = f /\ R!Whole(restored[f].out, sizes[f])

\* The first disc can be found among what the backup left, and a restore that
\* has begun ends.
Recovers == (pc = "end" /\ accepted = {}) ~> (rpc = "end")
=============================================================================
