----------------------------- MODULE MCBackup -----------------------------
(***************************************************************************)
(* Volumes of 4 Kb of which the rescue system takes 1, and every pair of   *)
(* backups of 0 to 6 Kb: a file system may lie on one to three volumes,    *)
(* two may share a volume, and every boundary is met.                      *)
(***************************************************************************)
EXTENDS Backup

MCSizeLists == {<<>>} \cup {<<a, b>> : a, b \in 0 .. 6}

Settings == [BURNCDR : BOOLEAN, BLANK_CDRW : BOOLEAN, DVD_Drive : BOOLEAN,
             Iso_only : BOOLEAN]

\* Iso_only makes a difference only where DVDs are written directly.
MCConfigs == {c \in Settings : c.Iso_only => c.DVD_Drive /\ c.BURNCDR}
=============================================================================
