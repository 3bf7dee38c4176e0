--------------------------- MODULE MCRestoreSteps ---------------------------
(***************************************************************************)
(* Three disks: hda with the backups when they are on a path, sda with the *)
(* root file system, and sdaa, whose lines grep finds for sda as well.     *)
(***************************************************************************)
EXTENDS RestoreSteps

Line(dev, fs, disk) == [dev |-> dev, fs |-> fs, disk |-> disk, names |-> {disk}]

MCDisks == <<"hda", "sda", "sdaa">>
MCLines == << Line("sda1", "/", "sda"), Line("hda1", "/data", "hda"),
              Line("sda2", "/usr", "sda"),
              [Line("sdaa1", "/home", "sdaa") EXCEPT !.names = {"sda", "sdaa"}] >>
=============================================================================
