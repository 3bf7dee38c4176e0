---------------------------- MODULE MCCutstream ----------------------------
(***************************************************************************)
(* cutstream on small volumes: a buffer of 3 bytes against pieces of 4, so *)
(* that neither divides the other; first pieces that are empty, smaller    *)
(* and larger than a volume; every stream from the empty one to one that   *)
(* ends on the boundary of the fourth piece.                               *)
(***************************************************************************)
EXTENDS Cutstream

MCCapacities == {0, 1, 3}
MCLengths == 0 .. 14
MCVolnos == {0, 2}
=============================================================================
