------------------------------ MODULE MCResize ------------------------------
(***************************************************************************)
(* Disks with three primary or two logical partitions, whole or half full, *)
(* on targets from too small to twice the size.                            *)
(***************************************************************************)
EXTENDS Resize

Part(id, size, used, backup, fixed) ==
    [start |-> 0, size |-> size, id |-> id, used |-> used, backup |-> backup,
     fixed |-> fixed]
Empty == Part("0", 0, 0, FALSE, FALSE)
At(start, p) == [p EXCEPT !.start = start]

Saved == {Part("83", size, used, TRUE, fixed) :
             size \in {6, 10}, used \in {2, 5}, fixed \in BOOLEAN}
Unsaved == {Part("dos", 4, 0, FALSE, FALSE), Part("82", 4, 0, FALSE, FALSE)}

\* Primary partitions only.
Plain == {<<At(1, a), b, c, Empty>> : a \in Saved \cup Unsaved, b \in Unsaved, c \in Saved}
\* Logical partitions, the last of them to be restored or swap.
Split == {<<At(1, a), Part("5", 20, 0, FALSE, FALSE), Empty, Empty, b, c>> :
             a \in Saved, b \in Saved, c \in Saved \cup {Part("82", 4, 0, FALSE, FALSE)}}
\* A primary partition behind the extended one.
Behind == {<<At(1, a), Part("5", 20, 0, FALSE, FALSE), b, Empty, c>> :
              a, b, c \in {Part("83", 6, 5, TRUE, FALSE)}}
\* A primary partition behind an extended one that has no logical ones.
Bare == {<<At(1, a), Part("5", 20, 0, FALSE, FALSE), b, c>> :
            a, b, c \in {Part("83", 6, 5, TRUE, FALSE)}}
\* An empty logical partition.
Hollow == {<<At(1, a), Part("5", 20, 0, FALSE, FALSE), Empty, Empty,
             Part("83", 0, 0, FALSE, FALSE), b>> : a, b \in Saved}
MCTables == Plain \cup Split \cup Behind \cup Bare \cup Hollow

None == [id |-> "0", start |-> 0, size |-> 0]
Dos == [id |-> "dos", start |-> 1, size |-> 3]
MCTargets == {[size |-> size, first |-> <<f, None>>] :
                 size \in {12, 15, 20, 25, 31, 40}, f \in {None, Dos}}
=============================================================================
