------------------------------- MODULE Resize -------------------------------
(***************************************************************************)
(* Resize_partition_layout of scripts/restore_common.sh: the partitions of *)
(* a disk that was backed up are laid out on another disk, larger or       *)
(* smaller, for clone-dsk.sh.  The first round adds up sizes, the second   *)
(* writes the input of sfdisk, line by line.  All sizes are in sectors.    *)
(*                                                                         *)
(* A partition is [start, size, id, used, backup, fixed]: used is what the *)
(* files took, backup that it is in To_Restore, fixed that it is in        *)
(* FIXED_SIZE.  id is "0" for an empty entry, "5" for an extended          *)
(* partition, "82" for swap, "dos" or "83" for others.                     *)
(***************************************************************************)
EXTENDS Integers, Sequences, FiniteSetsExt

CONSTANTS
    Tables,             \* partition tables of the source disk
    Targets,            \* target disks: [size, first] with its first partition
    Track,              \* sectors sfdisk leaves free before a logical partition
    Digits,             \* 10 to the number of digits that bc -l keeps
    Blank,              \* an empty string where a number should be
    GnuExpr             \* that expr prints n for "+ n", as the one of GNU does

Ids == {"0", "5", "82", "83", "dos"}
Partition == [start : Nat, size : Nat, id : Ids, used : Nat, backup : BOOLEAN,
              fixed : BOOLEAN]

\* What sfdisk lists of a disk: four entries of the main table, which are empty
\* or have a size, and the logical partitions if one of the four is extended.
\* Sector 0 is the table itself.
IsTable(t) ==
    /\ t \in Seq(Partition) /\ Len(t) >= 4
    /\ t[1].id # "0" => t[1].start > 0
    /\ \A k \in 1 .. Len(t) :
          /\ t[k].used <= t[k].size
          /\ t[k].id = "0" => t[k].size = 0
          /\ k <= 4 /\ t[k].size = 0 => t[k].id = "0"
          /\ t[k].backup => t[k].id \in {"83", "dos"}
          /\ t[k].id = "5" => k <= 4
    /\ \A j, k \in 1 .. Len(t) : t[j].id = "5" /\ t[k].id = "5" => j = k
    /\ Len(t) > 4 => \E k \in 1 .. 4 : t[k].id = "5"

ASSUME ResizeAssumption ==
    /\ \A t \in Tables : IsTable(t)
    /\ \A t \in Targets :
          /\ t.size \in Nat
          /\ \A k \in 1 .. 2 : /\ t.first[k].start \in Nat /\ t.first[k].size \in Nat
                               /\ t.first[k].id = "dos" => t.first[k].start > 0
    /\ Track \in Nat
    /\ Digits \in Nat \ {0} /\ Blank \notin Int /\ GnuExpr \in BOOLEAN

VARIABLES
    source, target,     \* the two disks
    step,               \* "first", "second", "done" or "failed"
    ipart,              \* the partition being looked at
    tmp,                \* /tmp/sfdisk.tmp
    sum,                \* total_scalable, total_fixed, extended_scalable, ...
    ext,                \* ScaledExtendedSize
    next, total,        \* next_sector and new_total
    out                 \* the input of sfdisk: [start, size, id]

vars == <<source, target, step, ipart, tmp, sum, ext, next, total, out>>
disks == <<source, target>>

LastPartNr == Len(source)
Logical(k) == k > 4

Init ==
    /\ source \in Tables /\ target \in Targets
    /\ step = "first" /\ ipart = 1 /\ tmp = <<>>
    /\ sum = [scalable |-> 0, fixed |-> 0, extScalable |-> 0, extFixed |-> 0,
              extUsed |-> 0]
    /\ ext = 0 /\ next = 0 /\ total = 0 /\ out = <<>>

-----------------------------------------------------------------------------
\* First round

\* A partition in To_Restore is scalable unless it is in FIXED_SIZE.
Scalable(p) == p.backup /\ ~p.fixed

Count(n) == IF n THEN 1 ELSE 0

\* The line for /tmp/sfdisk.tmp and the sums, for a partition p as it is to be
\* made; it is counted in total_scalable or total_fixed when counted is set.
Add(p, counted) ==
    LET s == IF Scalable(p) THEN p.size ELSE 0
        f == IF Scalable(p) THEN 0 ELSE p.size
        l == Count(Logical(ipart))
    IN  /\ tmp' = Append(tmp, p)
        /\ sum' = [scalable |-> sum.scalable + Count(counted) * s,
                   fixed |-> sum.fixed + Count(counted) * f
                             + Count(ipart = 1) * p.start
                             + l * Count(p.size = 0),
                   extScalable |-> sum.extScalable + l * s,
                   extFixed |-> sum.extFixed + l * f,
                   extUsed |-> sum.extUsed + l * p.used]
        /\ ipart' = ipart + 1

\* One of the first two partitions that is not restored: what is on the target
\* disk in its place, if it is a DOS file system, can be kept or emptied.
FirstUnsaved ==
    /\ step = "first" /\ ipart <= 2
    /\ ~source[ipart].backup /\ source[ipart].id # "5"
    /\ IF target.first[ipart].id = "dos"
       THEN \/ Add([source[ipart] EXCEPT !.start = 0, !.size = 0, !.id = "0"], FALSE)
            \/ Add([source[ipart] EXCEPT !.start = target.first[ipart].start,
                                         !.size = target.first[ipart].size,
                                         !.id = "dos"], TRUE)
       ELSE Add(source[ipart], TRUE)
    /\ UNCHANGED <<disks, step, ext, next, total, out>>

\* A swap partition: five sizes, from a half to one and a half, are offered.
FirstSwap ==
    /\ step = "first" /\ ipart <= LastPartNr /\ ipart > 2
    /\ source[ipart].id = "82"
    /\ \E choice \in 1 .. 5 :
          LET size == (source[ipart].size * (choice + 1)) \div 4
          IN  Add([source[ipart] EXCEPT !.size = size, !.used = size], TRUE)
    /\ UNCHANGED <<disks, step, ext, next, total, out>>

\* Any other partition; empty and extended ones do not count.
FirstOther ==
    /\ step = "first" /\ ipart <= LastPartNr
    /\ source[ipart].backup \/ source[ipart].id = "5"
       \/ (ipart > 2 /\ source[ipart].id # "82")
    /\ Add(source[ipart], source[ipart].id \notin {"0", "5"})
    /\ UNCHANGED <<disks, step, ext, next, total, out>>

-----------------------------------------------------------------------------
\* bc -l: Divide keeps the first digits, Multiply's fraction is cut off by sed.
Cut(a, b) == IF a >= 0 THEN a \div b ELSE -((-a) \div b)

\* "exclude fixed-size partitions from the calculation"
Ratio ==
    IF sum.scalable < 1 THEN 0
    ELSE Cut((target.size - sum.fixed) * Digits, sum.scalable)
\* A product below one sector: bc prints .5 and not 0.5, so that sed leaves an
\* empty string (or of -.5 a lone "-", which no more is a number).
Vanishes(n) == n * Ratio # 0 /\ -Digits < n * Ratio /\ n * Ratio < Digits
Multiply(n) == IF Vanishes(n) THEN Blank ELSE Cut(n * Ratio, Digits)

\* expr a + b: a syntax error, and no output, without b.
Plus(a, b) ==
    IF b = Blank \/ (a = Blank /\ ~GnuExpr) THEN Blank
    ELSE IF a = Blank THEN b ELSE a + b

\* ScaledExtendedSize; expr takes "+ n", but not "- + n".
ScaledExtended ==
    IF Vanishes(sum.extScalable) /\ Ratio < 0 THEN Blank
    ELSE Plus(Multiply(sum.extScalable), sum.extFixed)

\* "End of first round": the size of the extended partition.  A test of an empty
\* string is an error and not true, here and below.
FirstDone ==
    /\ step = "first" /\ ipart > LastPartNr
    /\ step' = "second" /\ ipart' = 1
    /\ ext' = IF ScaledExtended = Blank THEN Blank
              ELSE Max({ScaledExtended, sum.extUsed})
    /\ UNCHANGED <<disks, tmp, sum, next, total, out>>

-----------------------------------------------------------------------------
\* Second round

Row == tmp[ipart]
\* next_sector and new_total, which the line of the first partition sets.
Start == IF ipart = 1 THEN Row.start ELSE next
\* Mutant of Total1: a sector is counted for every boundary.
Total1Between == IF ipart = 1 THEN Row.start ELSE Plus(total, 1)
Total1 == IF ipart = 1 THEN Row.start ELSE total
Second(id) == step = "second" /\ ipart <= LastPartNr /\ Row.id \in id

SecondEmpty ==
    /\ Second({"0"})
    /\ out' = Append(out, [start |-> 0, size |-> 0, id |-> "0"])
    /\ next' = Start /\ total' = Total1 /\ ipart' = ipart + 1
    /\ UNCHANGED <<disks, step, tmp, sum, ext>>

\* The extended partition may take what is left of the disk; the next one
\* "should be next_sector+start1".
SecondExtended ==
    /\ Second({"5"})
    /\ ext' = IF Blank \in {ext, Start} THEN ext ELSE Min({ext, target.size - Start})
    /\ out' = Append(out, [start |-> Start, size |-> ext', id |-> "5"])
    /\ next' = Plus(Start, tmp[1].start) /\ total' = Total1 /\ ipart' = ipart + 1
    /\ UNCHANGED <<disks, step, tmp, sum>>

\* The size of partition k in proportion.
Share(k) == IF Scalable(tmp[k]) THEN Multiply(tmp[k].size) ELSE tmp[k].size

\* Mutant of Sized: a partition may become smaller than what it has to hold.
SizedDown(k) ==
    IF Share(k) = Blank THEN Blank
    ELSE IF Scalable(tmp[k]) THEN Max({Share(k), 1}) ELSE Share(k)

\* A scalable partition is scaled, but not below what it has to hold, unless its
\* share is blank; "may not be 0 as sfdisk will skip empty logical p".
Sized(k) ==
    LET scaled == IF Share(k) # Blank /\ Scalable(tmp[k]) /\ Share(k) < tmp[k].used
                  THEN (tmp[k].used * 111) \div 100 ELSE Share(k)
    IN  IF tmp[k].id # "82" /\ k >= 4 /\ scaled = 0 THEN 1 ELSE scaled

\* Swap and all others; the last one gets the rest.
SecondOther ==
    /\ Second({"82", "83", "dos"})
    /\ LET size == Sized(ipart)
       IN  /\ total' = Plus(Total1, size)
           /\ next' = IF ipart # LastPartNr THEN Plus(Start, size) ELSE Start
           /\ out' = Append(out,
                 [start |-> Start,
                  size |-> IF ipart # LastPartNr THEN size ELSE Blank,
                  id |-> Row.id])
    /\ ipart' = ipart + 1
    /\ UNCHANGED <<disks, step, tmp, sum, ext>>

\* Mutant of SecondDone: the sum is not compared.
SecondDoneAnyway ==
    /\ step = "second" /\ ipart > LastPartNr
    /\ step' = "done"
    /\ UNCHANGED <<disks, ipart, tmp, sum, ext, next, total, out>>

\* "Automatic resizing failed" when the sum of all is more than the disk.
SecondDone ==
    /\ step = "second" /\ ipart > LastPartNr
    /\ step' = IF total # Blank /\ target.size < total THEN "failed" ELSE "done"
    /\ UNCHANGED <<disks, ipart, tmp, sum, ext, next, total, out>>

Stop == step \in {"done", "failed"} /\ UNCHANGED vars

Next ==
    \/ FirstUnsaved \/ FirstSwap \/ FirstOther \/ FirstDone
    \/ SecondEmpty \/ SecondExtended \/ SecondOther \/ SecondDone
    \/ Stop

Spec == Init /\ [][Next]_vars

-----------------------------------------------------------------------------
\* sfdisk: where the partitions come to lie.  Logical ones have no start, they
\* follow one another in the extended one.  A blank size is whatever is left.

Extended == {k \in 1 .. 4 : out[k].id = "5"}
Used == {k \in 1 .. Len(out) : out[k].id # "0"}
Primaries == {k \in Used : k <= 4}

\* g[1] + ... + g[n]
Added(g, n) == LET to[k \in 0 .. n] == IF k = 0 THEN 0 ELSE to[k - 1] + g[k]
               IN  to[n]

Before(k) == Added([m \in 1 .. k - 5 |-> out[m + 4].size + Track], k - 5)
Lo(k) == IF Logical(k) THEN out[Max(Extended)].start + Before(k) + Track
         ELSE out[k].start
Hi(k) == IF out[k].size # Blank THEN Lo(k) + out[k].size
         ELSE IF Logical(k) THEN out[Max(Extended)].start + out[Max(Extended)].size
         ELSE target.size

-----------------------------------------------------------------------------
\* Types.
TypeOK ==
    /\ step \in {"first", "second", "done", "failed"}
    /\ ipart \in 1 .. LastPartNr + 1
    /\ Len(tmp) = IF step = "first" THEN ipart - 1 ELSE LastPartNr
    /\ Len(out) = IF step = "first" THEN 0 ELSE ipart - 1
    /\ \A k \in 1 .. Len(tmp) : tmp[k].size \in Nat /\ tmp[k].start \in Nat
    /\ \A k \in 1 .. Len(out) : /\ out[k].size \in Int \cup {Blank}
                                /\ out[k].start \in Nat \cup {Blank}

Finished == step \in {"done", "failed"}

\* Every share is a number: none of them is less than one sector.
Whole ==
    /\ ~Vanishes(sum.extScalable)
    /\ \A k \in 1 .. Len(tmp) : Scalable(tmp[k]) => ~Vanishes(tmp[k].size)

Room(k) == Hi(k) - Lo(k)

\* What the sums do not know of, at the expense of the last partition: the
\* tables of all logical ones, or for a primary one behind the extended
\* partition the first track, which next_sector passes over once more.
Lost(k) ==
    IF k # LastPartNr THEN 0
    ELSE IF Logical(k) THEN Track * (LastPartNr - 4)
    ELSE IF \E j \in Extended : j < k THEN tmp[1].start ELSE 0

\* In a layout that is not refused, of shares that are numbers, no partition of
\* the main table overlaps another, begins in sector 0 or ends behind the disk;
\* unless the first one is empty, when the second begins where it would, or a
\* primary partition follows the extended one (see BehindExtended).
NoOverlap ==
    step = "done" /\ Whole /\ out[1].id # "0"
    /\ (\A j \in Extended, k \in Primaries : k <= j) =>
        \A k \in Primaries :
            /\ 0 < Lo(k) /\ Lo(k) <= Hi(k) /\ Hi(k) <= target.size
            /\ \A j \in Primaries : j < k => Hi(j) <= Lo(k)

\* In a layout that is not refused, of shares that are numbers, every partition to
\* be restored has room for what was on it, although "automatic resizing" has
\* scaled it; unless it is the last logical one and the share of some logical
\* partition was less than it holds, or nothing, which makes that one larger but
\* not the extended partition.
RoomForData ==
    step = "done" /\ Whole =>
        \A k \in Used :
            \/ ~source[k].backup
            \/ Room(k) >= source[k].used - Lost(k)
            \/ /\ Logical(k) /\ k = LastPartNr
               /\ \E m \in 5 .. LastPartNr : Share(m) < Max({tmp[m].used, 1})

\* When the target disk has room for all partitions as they were, with the swap
\* sizes that were chosen, the layout is not refused, and no partition to be
\* restored is smaller than it was; the last logical one excepted if another
\* one is empty, which makes it one sector large but not the extended partition.
NeverShrinks ==
    Finished /\ target.size >= sum.fixed + sum.scalable =>
        /\ step = "done"
        /\ \A k \in Used : source[k].backup =>
              \/ Room(k) >= source[k].size - Lost(k)
              \/ /\ Logical(k) /\ k = LastPartNr
                 /\ \E m \in 5 .. LastPartNr : tmp[m].size = 0

\* What "do some checks to see if everything fits..." and "Automatic resizing
\* failed. Please do it manually with fdisk" say: a layout is refused when the
\* disk has not as many sectors as the files to be restored take.  It is not when
\* a share vanishes, as the sum of the sizes is then no number.
EverythingFits ==
    step = "done" =>
        Added([k \in 1 .. LastPartNr |-> IF source[k].backup THEN source[k].used ELSE 0],
              LastPartNr) <= target.size

\* What "it should be for extended partition= next_sector+start1" says: a primary
\* partition may begin there.  The extended partition has not ended there.
BehindExtended ==
    step = "done" /\ Whole =>
        \A j \in Extended, k \in Primaries : k > j => Hi(j) <= Lo(k)
=============================================================================
