----------------------------- MODULE MCRestore -----------------------------
(***************************************************************************)
(* Media sets of one to four discs of 3 Kb with three file systems of 0 to *)
(* 4 Kb: unsplit ones, ones split over two or three discs, several on a    *)
(* disc, cuts on every boundary with the empty pieces they leave.          *)
(***************************************************************************)
EXTENDS Restore

Room == 3

\* Where the stream of f starts when all streams are put one after the other.
Start(list, f) == IF f = 1 THEN 0 ELSE IF f = 2 THEN list[1]
                  ELSE IF f = 3 THEN list[1] + list[2]
                  ELSE list[1] + list[2] + list[3]

\* The disc on which a position lies; a stream that ends where a disc does is
\* continued by an empty file on the next one.
DiscOf(position) == position \div Room + 1

Disc(list, k, n) ==
    [labels |-> {IF n = 1 THEN 0 ELSE k},
     last   |-> k = n,
     files  |->
        {[fs |-> f,
          lo |-> IF k = DiscOf(Start(list, f)) THEN 0
                 ELSE (k - 1) * Room - Start(list, f),
          hi |-> IF k = DiscOf(Start(list, f + 1)) THEN list[f]
                 ELSE k * Room - Start(list, f),
          more |-> k < DiscOf(Start(list, f + 1))] :
            f \in {g \in 1 .. 3 : /\ DiscOf(Start(list, g)) <= k
                                  /\ k <= DiscOf(Start(list, g + 1))}}]

MediaSet(list) ==
    LET n == DiscOf(Start(list, 4))
    IN  [sizes |-> list, discs |-> {Disc(list, k, n) : k \in 1 .. n}]

MCSets == {MediaSet(list) : list \in [1 .. 3 -> 0 .. 4]}

TwoDisks == {1, 2}
Script == {"restore_split_file"}
Both == {"restore_split_file", "pastestream"}
Reboot == {"reboot"}
Either == {"reboot", "rerun"}
=============================================================================
