------------------------------- MODULE MCTape -------------------------------
(* All ways to spread up to three file systems over two disks, or over a   *)
(* single one of them.                                                     *)
EXTENDS Tape

MCLayouts == UNION {[1 .. n -> {1, 2}] : n \in 1 .. 3}
MCModes == {"menu", "device", "OBDR"}
=============================================================================
