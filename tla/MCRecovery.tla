---------------------------- MODULE MCRecovery ----------------------------
(***************************************************************************)
(* Two file systems of 0 to 6 Kb on volumes of 4 Kb of which the rescue    *)
(* system takes 1: sets of one to four discs, with every way the backup    *)
(* can cut them.                                                           *)
(***************************************************************************)
EXTENDS Recovery

MCSizeLists == {<<a, b>> : a, b \in 0 .. 6}
MCConfigs ==
    [BURNCDR : BOOLEAN, BLANK_CDRW : {TRUE}, DVD_Drive : {FALSE},
     Iso_only : {FALSE}]
MCPasters == {"restore_split_file", "pastestream"}
MCDisks == {1}
=============================================================================
