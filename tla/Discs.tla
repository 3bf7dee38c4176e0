------------------------------- MODULE Discs -------------------------------
(***************************************************************************)
(* The media set that a backup leaves and a restore reads.                 *)
(*                                                                         *)
(* The backup of file system f is a stream of size Kb.  A piece            *)
(*     [fs, lo, hi, more]                                                  *)
(* is the file that holds Kb lo+1 .. hi of it; more stands for the         *)
(* trailing "_" of the file's name, "to be continued on the next volume".  *)
(* A disc [labels, files, last] has the files CDrec-<date>_<volno> for the *)
(* volume numbers in labels (0: the label of a single volume, which has no *)
(* underscore), the pieces in files, and LAST_CD when last is TRUE.        *)
(***************************************************************************)
EXTENDS Integers, Sequences, FiniteSets

Pieces(discs) == UNION {d.files : d \in discs}

\* The files of file system fs on a disc, without and with the "_".
Files(disc, fs, more) == {p \in disc.files : p.fs = fs /\ p.more = more}

\* Kb k of the stream of fs is in a piece of this set.
Holds(pieces, fs, k) == \E p \in pieces : p.fs = fs /\ p.lo < k /\ k <= p.hi

\* The shape of a media set.
MediaType(discs, sizes) ==
    /\ sizes \in Seq(Nat) /\ IsFiniteSet(discs)
    /\ \A d \in discs :
          /\ d.labels \subseteq Nat /\ d.last \in BOOLEAN
          /\ d.files \subseteq [fs : 1 .. Len(sizes), lo : Nat, hi : Nat,
                                more : BOOLEAN]

\* A single volume has the label without a number; the volumes of a set are
\* labelled 1, 2, ..., one label each.  LAST_CD is on the last volume only.
Numbered(discs) ==
    LET n == Cardinality(discs) IN
    \/ \E d \in discs : discs = {d} /\ d.labels = {0} /\ d.last
    \/ /\ n > 1
       /\ \A k \in 1 .. n : \E d \in discs : d.labels = {k}
       /\ \A d \in discs : d.last <=> d.labels = {n}

\* The pieces of every file system, in the order of the discs, are its
\* stream: one file per disc, each "_" file continued on the next disc by the
\* file that starts where it ends, the file without "_" ending the stream.
Chained(discs, sizes) ==
    \A f \in DOMAIN sizes :
        /\ \A k \in 1 .. sizes[f] : Holds(Pieces(discs), f, k)
        /\ \E d \in discs : \E p \in d.files : p.fs = f /\ p.lo = 0
        /\ \A d \in discs : \A p, q \in d.files :
               p.fs = f /\ q.fs = f => p = q
        /\ \A d \in discs : \A p \in d.files :
               p.fs = f =>
                  /\ p.lo <= p.hi
                  /\ IF p.more
                     THEN \E e \in discs : \E q \in e.files :
                             /\ q.fs = f /\ q.lo = p.hi
                             /\ \E k \in d.labels : e.labels = {k + 1}
                     ELSE p.hi = sizes[f]

\* The file systems lie on the discs in their order, and a file on a later
\* disc is of a later file system or goes on where a "_" file ends.
InTurn(discs) ==
    \A d, e \in discs : \A k \in d.labels, m \in e.labels :
        k < m => \A p \in d.files, q \in e.files :
                    p.fs < q.fs \/ (p.fs = q.fs /\ p.more)

WellFormed(discs, sizes) ==
    Numbered(discs) /\ Chained(discs, sizes) /\ InTurn(discs)
=============================================================================
