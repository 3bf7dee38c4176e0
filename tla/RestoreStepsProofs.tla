------------------------- MODULE RestoreStepsProofs -------------------------
(***************************************************************************)
(* Proofs about module RestoreSteps: the disk with the backups stays as it *)
(* is, no disk is written without the user's consent, and what the last    *)
(* words say of a disk is true of it.                                      *)
(***************************************************************************)
EXTENDS RestoreSteps, SequenceTheorems, WellFoundedInduction, TLAPS

-----------------------------------------------------------------------------
(* Sets of numbers *)

\* A non-empty set of natural numbers has a least element.
LEMMA LeastElement ==
    ASSUME NEW S \in SUBSET Nat, S # {}
    PROVE  \E n \in S : \A m \in S : n <= m
<1>1. PICK R : R = OpToRel(<, Nat)
  BY Zenon
<1>2. IsWellFoundedOn(R, Nat)
  BY <1>1, NatLessThanWellFounded, Zenon
<1>3. PICK n \in S : \A m \in S : ~ (<<m, n>> \in R)
  BY <1>2, WFMin
<1>4. \A a, b \in Nat : a < b => <<a, b>> \in R
  BY <1>1 DEF OpToRel
<1>5. \A m \in S : n \in Nat /\ m \in Nat /\ ~ (m < n)
  BY <1>3, <1>4
<1> QED
  BY <1>3, <1>5

\* Min, as the loops take their next position, is an element of the set.
LEMMA MinElement ==
    ASSUME NEW S \in SUBSET Nat, S # {}
    PROVE  Min(S) \in S /\ \A m \in S : Min(S) <= m
<1>1. \E n \in S : \A m \in S : n <= m
  BY LeastElement
<1> QED
  BY <1>1 DEF Min

\* Max of a non-empty set of natural numbers below a bound is an element of it.
LEMMA MaxElement ==
    ASSUME NEW b \in Nat, NEW S \in SUBSET (0 .. b), S # {}
    PROVE  Max(S) \in S /\ \A m \in S : m <= Max(S)
<1> DEFINE T == {n \in 0 .. b : b - n \in S}
<1>1. T \in SUBSET Nat /\ T # {}
  <2>1. PICK n \in S : n \in 0 .. b
    OBVIOUS
  <2>2. b - n \in T
    BY <2>1
  <2> QED
    BY <2>2
<1>2. PICK n \in T : \A m \in T : n <= m
  <2> HIDE DEF T
  <2> QED
    BY <1>1, LeastElement
<1>3. b - n \in S
  BY <1>2
<1>4. \A m \in S : m <= b - n
  <2> SUFFICES ASSUME NEW m \in S
               PROVE  m <= b - n
    OBVIOUS
  <2>1. m \in 0 .. b /\ b - m \in T
    OBVIOUS
  <2>2. n <= b - m
    BY <1>2, <2>1
  <2> QED
    BY <2>1, <2>2, <1>2
<1> QED
  BY <1>3, <1>4 DEF Max

-----------------------------------------------------------------------------
\* The name of a disk is found in the lines of its own partitions only: what
\* "grep ${dsk}" relies on.
OwnNames == \A n \in DOMAIN Lines : Lines[n].names = {Lines[n].disk}

\* The steps that come after the question, in which disks are written.
Writing == {"parts", "mkfs", "swap", "label", "restore", "unpack", "astray"}

\* Step 7, in which todo is a set of lines.
Filling == {"restore", "unpack", "astray"}

\* What is asked: nobody is passed over in step 3, so that behind it every disk
\* that is not hidden is one the user has agreed to.
Asked ==
    /\ pc = "disks" =>
          \A k \in DOMAIN Disks : k \in todo \/ Disks[k] \in hidden \cup agreed
    /\ pc \in Writing => AllDisks \subseteq hidden \cup agreed
    /\ pc = "locate" => agreed = {}
    /\ pc \in {"parts", "mkfs"} => todo \subseteq Left
    /\ pc \in Filling => todo \subseteq Selected

\* Behind step 2 the backups are at hand, or all disks are overlooked.
FoundInv ==
    pc \notin {"locate", "ended"} =>
        found \/ (blind /\ AllDisks \subseteq overlooked)

\* As long as no run has gone on without it, the disk with the backups is in
\* use, hence never agreed to, mounted or taken for the disk of the root file
\* system.
BackupsInv ==
    source = "path" /\ ~blind =>
        /\ BackupDisk \notin agreed
        /\ \A n \in DOMAIN Lines : Lines[n].disk = BackupDisk =>
              Lines[n].dev \notin ToSet(mounts) \cup {rootdev}

\* An archive whose mount has not failed is unpacked on its own partition.
MountedRight ==
    pc = "unpack" => mounts # <<>> /\ Last(mounts) = Now.dev

\* A disk of which something is mounted is in use, and not agreed to before it
\* is umounted; so what is left mounted is on hidden or overlooked disks.
Excused(p) == \A n \in DOMAIN Lines :
    Lines[n].dev = p => Lines[n].disk \in hidden \cup overlooked
MountsInv ==
    /\ pc = "disks" =>
          \A n \in DOMAIN Lines : Lines[n].disk \in agreed =>
             \/ Lines[n].dev \notin ToSet(mounts)
             \/ Lines[n].disk \in overlooked
    /\ pc \in Writing /\ ~Unpacking => \A k \in DOMAIN mounts : Excused(mounts[k])
    /\ Unpacking =>
          \/ /\ Now.disk \in overlooked
             /\ \A k \in DOMAIN mounts : Excused(mounts[k])
          \/ /\ mounts # <<>> /\ Last(mounts) = Now.dev
             /\ \A k \in 1 .. Len(mounts) - 1 : Excused(mounts[k])

\* Step 5 has emptied the partitions of the disks behind it, and step 7 has
\* filled those of the lines behind it.
FilledInv ==
    /\ says = "reboot" => pc = "ended"
    /\ pc = "disks" /\ ~listed => Left = {}
    /\ pc = "mkfs" =>
          \A n \in DOMAIN Lines, k \in DOMAIN Disks :
              Disks[k] = Lines[n].disk /\ Disks[k] \notin hidden \cup overlooked =>
                 k \in todo \/ content[Lines[n].dev] = {}
    /\ pc \in {"swap", "label"} =>
          \A n \in DOMAIN Lines :
              Lines[n].disk \notin hidden \cup overlooked =>
                 content[Lines[n].dev] = {}
    /\ pc \in Filling =>
          \A n \in DOMAIN Lines, k \in DOMAIN Disks :
              Disks[k] = Lines[n].disk /\ Disks[k] \notin hidden \cup overlooked =>
                 /\ content[Lines[n].dev] \subseteq {Lines[n].dev}
                 /\ <<k, n>> \in todo \/ content[Lines[n].dev] = {Lines[n].dev}

-----------------------------------------------------------------------------
\* What the assumption says of the bounds, of mkswap.sh and of mke2label.sh.
LEMMA Bounds ==
    /\ MaxFaults \in Nat /\ MaxRuns \in Nat \ {0} /\ SwapDisks \subseteq AllDisks
    /\ LabelDisks \subseteq AllDisks
  BY StepsAssumption

\* The disk whose turn it is is one of the disks still to do.
LEMMA TurnIsLeft ==
    ASSUME TypeOK, pc \in {"disks", "parts", "mkfs"}, todo # {}
    PROVE  Turn \in todo /\ Turn \in DOMAIN Disks /\ Disk \in AllDisks
<1>1. DOMAIN Disks \subseteq Nat
  BY StepsAssumption
<1>2. todo \subseteq DOMAIN Disks
  BY DEF TypeOK
<1>3. Turn \in todo
  BY <1>1, <1>2, MinElement DEF Turn
<1> QED
  BY <1>2, <1>3 DEF Disk, AllDisks, ToSet

\* The line whose turn it is is one of the lines still to do.
LEMMA RowIsLeft ==
    ASSUME TypeOK, pc \in Filling, todo # {}
    PROVE  /\ <<Loop, Row>> \in todo
           /\ Loop \in DOMAIN Disks /\ Row \in DOMAIN Lines
           /\ Now = Lines[Row] /\ Now.dev \in Devs /\ Now.disk \in AllDisks
<1> DEFINE A == {t[1] : t \in todo}
           B == {t[2] : t \in {u \in todo : u[1] = Loop}}
<1>1. DOMAIN Disks \subseteq Nat /\ DOMAIN Lines \subseteq Nat
  BY StepsAssumption
<1>2. todo \subseteq (DOMAIN Disks) \X (DOMAIN Lines)
  BY DEF TypeOK, Filling
<1>3. A # {} /\ A \in SUBSET Nat
  BY <1>1, <1>2
<1>4. Loop \in A
  <2> HIDE DEF A
  <2>1. Min(A) \in A
    BY <1>3, MinElement
  <2> QED
    BY <2>1 DEF Loop, A
<1>5. B # {} /\ B \in SUBSET Nat
  BY <1>1, <1>2, <1>4
<1>6. Row \in B
  <2> HIDE DEF B
  <2>1. Min(B) \in B
    BY <1>5, MinElement
  <2> QED
    BY <2>1 DEF Row, B
<1>7. <<Loop, Row>> \in todo
  BY <1>2, <1>6
<1> QED
  BY <1>2, <1>7, StepsAssumption DEF Now, Devs

\* The line that /tmp/ROOTDEV is taken from is one of the selected root lines.
LEMMA RootIsSelected ==
    ASSUME RootLines # {}
    PROVE  \E k \in DOMAIN Disks : <<k, LastRoot>> \in RootLines
<1> DEFINE A == {t[1] : t \in RootLines}
           loop == Max(A)
           B == {t[2] : t \in {u \in RootLines : u[1] = loop}}
<1>1. /\ Len(Disks) \in Nat /\ DOMAIN Disks = 1 .. Len(Disks)
      /\ Len(Lines) \in Nat /\ DOMAIN Lines = 1 .. Len(Lines)
  BY StepsAssumption
<1>2. RootLines \subseteq (DOMAIN Disks) \X (DOMAIN Lines)
  BY DEF RootLines, Selected, Left
<1>3. A # {} /\ A \in SUBSET (0 .. Len(Disks))
  BY <1>1, <1>2
<1>4. loop \in A
  <2> HIDE DEF A
  <2> QED
    BY <1>1, <1>3, MaxElement
<1>5. B # {} /\ B \in SUBSET (0 .. Len(Lines))
  <2> HIDE DEF loop
  <2> QED
    BY <1>1, <1>2, <1>4
<1>6. Max(B) \in B
  <2> HIDE DEF B
  <2> QED
    BY <1>1, <1>5, MaxElement
<1>7. LastRoot = Max(B)
  BY DEF LastRoot
<1>8. <<loop, LastRoot>> \in RootLines
  <2> HIDE DEF loop
  <2> QED
    BY <1>2, <1>6, <1>7
<1> QED
  BY <1>2, <1>8

\* The only steps that write to a partition.
LEMMA ContentChanges ==
    ASSUME [Next]_vars
    PROVE  UNCHANGED content \/ Partition \/ Mkfs \/ Unpack \/ UnpackFails
  BY DEF Next, Locate, DiskMissing, DiskSmaller, Refuse, Agree,
     AgreeButInUse, DisksDone, Partition, PartsDone, Mkfs, MkfsDone, Mkswap,
     Label, Mount, Unpack, UnpackFails, Boot, Rerun, Ended, kept, written, vars

\* The only steps that mount or umount.
LEMMA MountsChange ==
    ASSUME [Next]_vars
    PROVE  \/ UNCHANGED mounts
           \/ Mount \/ Unpack \/ UnpackFails \/ Boot
           \/ Rerun /\ mounts' = <<>>
  BY DEF Next, Locate, DiskMissing, DiskSmaller, Refuse, Agree,
     AgreeButInUse, DisksDone, Partition, PartsDone, Mkfs, MkfsDone, Mkswap,
     Label, Mount, Unpack, UnpackFails, Boot, Rerun, Ended, kept, written, vars

\* The answers to the questions of step 3 are kept until the next run.
LEMMA AnswersChange ==
    ASSUME [Next]_vars
    PROVE  /\ UNCHANGED source
           /\ UNCHANGED hidden \/ Refuse \/ AgreeButInUse
           /\ UNCHANGED agreed \/ Agree \/ AgreeButInUse \/ Rerun
           /\ UNCHANGED rootdev \/ Boot
  BY DEF Next, Locate, DiskMissing, DiskSmaller, Refuse, Agree,
     AgreeButInUse, DisksDone, Partition, PartsDone, Mkfs, MkfsDone, Mkswap,
     Label, Mount, Unpack, UnpackFails, Boot, Rerun, Ended, kept, written, vars

\* The types hold at the start.
LEMMA TypeInit ==
    ASSUME Init
    PROVE  TypeOK
<1> USE Bounds
<1>1. content \in [Devs -> SUBSET (Devs \cup {"old", "lost", "part"})]
  BY DEF Init
<1>2. mounts \in Seq(Devs)
  BY DEF Init
<1>3. listed \in BOOLEAN /\ found \in BOOLEAN /\ blind \in BOOLEAN
  BY DEF Init
<1> QED
  BY <1>1, <1>2, <1>3 DEF Init, TypeOK, Unpacking

\* Every step keeps the types.
LEMMA TypeStep ==
    ASSUME TypeOK, [Next]_vars
    PROVE  TypeOK'
<1> USE Bounds DEF Quit, Fault, NoFault, Filling, Unpacking, AskNext, kept, written, vars
<1>a. Unpacking => Now.dev \in Devs /\ Now.disk \in AllDisks
  BY RowIsLeft DEF TypeOK
<1>b. listed' \in BOOLEAN
  BY DEF Next, Locate, DiskMissing, DiskSmaller, Refuse, Agree,
   AgreeButInUse, DisksDone, Partition, PartsDone, Mkfs, MkfsDone, Mkswap,
     Label, Mount, Unpack, UnpackFails, Boot, Rerun, Ended, kept, written, vars, TypeOK
<1>c. content' \in [Devs -> SUBSET (Devs \cup {"old", "lost", "part"})]
  <2>1. CASE UNCHANGED content
    BY <2>1 DEF TypeOK
  <2>2. CASE Partition
    BY <2>2 DEF Partition, TypeOK
  <2>3. CASE Mkfs
    BY <2>3 DEF Mkfs, TypeOK
  <2>4. CASE Unpack
    BY <1>a, <2>4 DEF Unpack, Unpacked, TypeOK
  <2>5. CASE UnpackFails
    BY <2>5 DEF UnpackFails, Unpacked, TypeOK
  <2> QED
    BY <2>1, <2>2, <2>3, <2>4, <2>5, ContentChanges
<1>g. found' \in BOOLEAN /\ blind' \in BOOLEAN
  <2>1. found \in BOOLEAN /\ blind \in BOOLEAN
    BY DEF TypeOK
  <2>2. \/ UNCHANGED <<found, blind>> \/ Locate \/ Rerun
    BY DEF Next, DiskMissing, DiskSmaller, Refuse, Agree,
       AgreeButInUse, DisksDone, Partition, PartsDone, Mkfs, MkfsDone, Mkswap,
       Label, Mount, Unpack, UnpackFails, Boot, Ended
  <2>3. CASE Locate
    BY <2>1, <2>3 DEF Locate
  <2>4. CASE Rerun
    BY <2>1, <2>4 DEF Rerun
  <2> QED
    BY <2>1, <2>2, <2>3, <2>4
<1>h. touched' \subseteq AllDisks
  <2>1. touched \subseteq AllDisks
    BY DEF TypeOK
  <2>2. \/ UNCHANGED touched \/ touched' = {} \/ Partition \/ Mkfs
        \/ Mkswap \/ Label \/ \E A : Unpacked(A)
    BY DEF Next, Locate, DiskMissing, DiskSmaller, Refuse, Agree,
       AgreeButInUse, DisksDone, PartsDone, MkfsDone, Mount, Unpack,
       UnpackFails, Boot, Rerun, Ended
  <2>3. CASE Partition \/ Mkfs
    BY <2>1, <2>3, TurnIsLeft DEF Partition, Mkfs
  <2>4. CASE Mkswap \/ Label
    BY <2>1, <2>4 DEF Mkswap, Label
  <2>5. CASE \E A : Unpacked(A)
    BY <2>1, <2>5, StepsAssumption DEF Unpacked
  <2> QED
    BY <2>1, <2>2, <2>3, <2>4, <2>5
<1>d. rootdev' \in Devs \cup {"none"}
  <2>1. RootDev \in Devs \cup {"none"}
    <3>1. CASE RootLines = {}
      BY <3>1 DEF RootDev, TypeOK
    <3>2. CASE RootLines # {}
      <4>1. LastRoot \in DOMAIN Lines
        BY <3>2, RootIsSelected DEF RootLines, Selected
      <4> QED
        BY <3>2, <4>1 DEF RootDev, Devs
    <3> QED
      BY <3>1, <3>2
  <2> QED
    BY <2>1, AnswersChange DEF Boot, TypeOK
<1>e. mounts' \in Seq(Devs)
  <2>1. mounts \in Seq(Devs)
    BY DEF TypeOK
  <2>2. CASE Mount
    <3>1. Now.dev \in Devs
      BY <2>2, RowIsLeft DEF Mount, Restoring
    <3>2. mounts' = mounts \/ mounts' = Append(mounts, Now.dev)
      BY <2>2 DEF Mount
    <3> QED
      BY <2>1, <3>1, <3>2
  <2>3. CASE Unpack \/ UnpackFails
    <3>1. mounts' = mounts \/ mounts' = Umounted
      BY <2>3 DEF Unpack, UnpackFails
    <3> QED
      BY <2>1, <3>1 DEF Umounted, Front
  <2>4. CASE Boot
    <3>1. mounts' = mounts \/ (rootdev' \in Devs /\ mounts' = Append(mounts, rootdev'))
      BY <1>d, <2>4 DEF Boot
    <3> QED
      BY <2>1, <3>1
  <2>5. <<>> \in Seq(Devs)
    OBVIOUS
  <2> QED
    BY <2>1, <2>2, <2>3, <2>4, <2>5, MountsChange
<1>f. faults' \in 0 .. MaxFaults /\ runs' \in 1 .. MaxRuns
  <2>1. faults \in 0 .. MaxFaults /\ runs \in 1 .. MaxRuns
    BY DEF TypeOK
  <2>2. \/ faults' = faults \/ (faults < MaxFaults /\ faults' = faults + 1)
    BY DEF Next, Locate, DiskMissing, DiskSmaller, Refuse, Agree,
       AgreeButInUse, DisksDone, Partition, PartsDone, Mkfs, MkfsDone, Mkswap,
     Label, Mount, Unpack, UnpackFails, Boot, Rerun, Ended
  <2>3. \/ runs' = runs \/ (runs < MaxRuns /\ runs' = runs + 1)
    BY DEF Next, Locate, DiskMissing, DiskSmaller, Refuse, Agree,
       AgreeButInUse, DisksDone, Partition, PartsDone, Mkfs, MkfsDone, Mkswap,
     Label, Mount, Unpack, UnpackFails, Boot, Rerun, Ended
  <2> QED
    BY <2>1, <2>2, <2>3
<1>1. CASE Locate
  BY <1>1, <1>b, <1>c, <1>d, <1>e, <1>f, <1>g, <1>h DEF Locate, TypeOK, Left
<1>2. CASE DiskMissing
  BY <1>2, <1>b, <1>c, <1>d, <1>e, <1>f, <1>g, <1>h DEF DiskMissing, Asking, TypeOK
<1>3. CASE DiskSmaller
  BY <1>3, <1>b, <1>c, <1>d, <1>e, <1>f, <1>g, <1>h, TurnIsLeft DEF DiskSmaller, Asking, TypeOK
<1>4. CASE Refuse
  BY <1>4, <1>b, <1>c, <1>d, <1>e, <1>f, <1>g, <1>h, TurnIsLeft DEF Refuse, Asking, NextDisk, TypeOK
<1>5. CASE Agree
  BY <1>5, <1>b, <1>c, <1>d, <1>e, <1>f, <1>g, <1>h, TurnIsLeft DEF Agree, Asking, NextDisk, TypeOK
<1>6. CASE AgreeButInUse
  BY <1>6, <1>b, <1>c, <1>d, <1>e, <1>f, <1>g, <1>h, TurnIsLeft
     DEF AgreeButInUse, Asking, NextDisk, TypeOK
<1>7. CASE DisksDone
  BY <1>7, <1>b, <1>c, <1>d, <1>e, <1>f, <1>g, <1>h DEF DisksDone, Left, TypeOK
<1>8. CASE Partition
  BY <1>8, <1>b, <1>c, <1>d, <1>e, <1>f, <1>g, <1>h, TurnIsLeft
     DEF Partition, NextDisk, Statuses, TypeOK
<1>9. CASE PartsDone
  BY <1>9, <1>b, <1>c, <1>d, <1>e, <1>f, <1>g, <1>h DEF PartsDone, Left, TypeOK
<1>10. CASE Mkfs
  BY <1>10, <1>b, <1>c, <1>d, <1>e, <1>f, <1>g, <1>h, TurnIsLeft DEF Mkfs, NextDisk, TypeOK
<1>11. CASE MkfsDone
  BY <1>11, <1>b, <1>c, <1>d, <1>e, <1>f, <1>g, <1>h DEF MkfsDone, TypeOK
<1>12. CASE Mkswap
  BY <1>12, <1>b, <1>c, <1>d, <1>e, <1>f, <1>g, <1>h DEF Mkswap, TypeOK
<1>19. CASE Label
  BY <1>19, <1>b, <1>c, <1>d, <1>e, <1>f, <1>g, <1>h DEF Label, Selected, Left, TypeOK
<1>13. CASE Mount
  BY <1>13, <1>b, <1>c, <1>d, <1>e, <1>f, <1>g, <1>h, RowIsLeft
     DEF Mount, Restoring, NextLoop, Statuses, TypeOK
<1>14. CASE Unpack
  BY <1>14, <1>b, <1>c, <1>d, <1>e, <1>f, <1>g, <1>h DEF Unpack, NextLine, TypeOK
<1>15. CASE UnpackFails
  BY <1>15, <1>a, <1>b, <1>c, <1>d, <1>e, <1>f, <1>g, <1>h DEF UnpackFails, NextLine, NextLoop, TypeOK
<1>16. CASE Boot
  BY <1>16, <1>b, <1>c, <1>d, <1>e, <1>f, <1>g, <1>h DEF Boot, TypeOK
<1>17. CASE Rerun
  BY <1>17, <1>b, <1>c, <1>d, <1>e, <1>f, <1>g, <1>h DEF Rerun, TypeOK
<1>18. CASE UNCHANGED vars
  BY <1>18, <1>b, <1>c, <1>d, <1>e, <1>f, <1>g, <1>h DEF TypeOK
<1> QED
  BY <1>1, <1>2, <1>3, <1>4, <1>5, <1>6, <1>7, <1>8, <1>9, <1>10, <1>11,
     <1>12, <1>13, <1>14, <1>15, <1>16, <1>17, <1>18, <1>19 DEF Next, Ended

\* Every variable keeps its type; in particular there is a line to unpack when
\* an archive is unpacked.
THEOREM TypeCorrect == Spec => []TypeOK
  BY TypeInit, TypeStep, PTL DEF Spec

-----------------------------------------------------------------------------
\* Nobody is passed over: the loops of steps 3 to 7 keep Asked.
LEMMA AskedStep ==
    ASSUME TypeOK, Asked, [Next]_vars
    PROVE  Asked'
<1> USE DEF Asked, Writing, Filling, Unpacking, AskNext, Quit, kept, written, vars
<1>1. CASE Locate
  BY <1>1 DEF Locate, Left
<1>2. CASE DiskMissing
  BY <1>2 DEF DiskMissing
<1>3. CASE DiskSmaller
  BY <1>3 DEF DiskSmaller, Asking
<1>4. CASE Refuse
  BY <1>4, TurnIsLeft DEF Refuse, Asking, NextDisk, Disk
<1>5. CASE Agree
  BY <1>5, TurnIsLeft DEF Agree, Asking, NextDisk, Disk
<1>6. CASE AgreeButInUse
  BY <1>6, TurnIsLeft DEF AgreeButInUse, Asking, NextDisk, Disk
<1>7. CASE DisksDone
  BY <1>7 DEF DisksDone, Left, AllDisks, ToSet
<1>8. CASE Partition
  BY <1>8 DEF Partition, NextDisk, Left
<1>9. CASE PartsDone
  BY <1>9 DEF PartsDone, Left
<1>10. CASE Mkfs
  BY <1>10 DEF Mkfs, NextDisk, Left
<1>11. CASE MkfsDone
  BY <1>11 DEF MkfsDone
<1>12. CASE Mkswap
  BY <1>12 DEF Mkswap
<1>19. CASE Label
  BY <1>19 DEF Label, Selected, Left
<1>13. CASE Mount
  BY <1>13 DEF Mount, Restoring, NextLoop, Selected, Left
<1>14. CASE Unpack
  BY <1>14 DEF Unpack, NextLine, Selected, Left
<1>15. CASE UnpackFails
  BY <1>15 DEF UnpackFails, NextLine, NextLoop, Selected, Left
<1>16. CASE Boot
  BY <1>16 DEF Boot
<1>17. CASE Rerun
  BY <1>17 DEF Rerun
<1>18. CASE UNCHANGED vars
  BY <1>18 DEF Selected, Left
<1> QED
  BY <1>1, <1>2, <1>3, <1>4, <1>5, <1>6, <1>7, <1>8, <1>9, <1>10, <1>11,
     <1>12, <1>13, <1>14, <1>15, <1>16, <1>17, <1>18, <1>19 DEF Next, Ended

\* A line that is selected is one of a disk that is not hidden.
LEMMA SelectedAgreed ==
    ASSUME TypeOK, Asked, OwnNames, pc \in Writing,
           NEW t \in Selected
    PROVE  /\ t[2] \in DOMAIN Lines /\ t = <<t[1], t[2]>>
           /\ Disks[t[1]] = Lines[t[2]].disk
           /\ Lines[t[2]].disk \in agreed \ hidden
<1>1. /\ t \in (DOMAIN Disks) \X (DOMAIN Lines) /\ Disks[t[1]] \notin hidden
      /\ Disks[t[1]] \in Lines[t[2]].names
  BY DEF Selected, Left
<1>2. Disks[t[1]] = Lines[t[2]].disk
  BY <1>1 DEF OwnNames
<1>3. Disks[t[1]] \in AllDisks
  BY <1>1 DEF AllDisks, ToSet
<1> QED
  BY <1>1, <1>2, <1>3 DEF Asked

\* The line whose turn it is is one of a disk that the user has agreed to.
LEMMA NowAgreed ==
    ASSUME TypeOK, Asked, OwnNames, pc \in Filling, todo # {}
    PROVE  Now.disk \in agreed \ hidden /\ Disks[Loop] = Now.disk
<1>1. <<Loop, Row>> \in Selected /\ Now = Lines[Row]
  BY RowIsLeft DEF Asked
<1>2. <<Loop, Row>>[1] = Loop /\ <<Loop, Row>>[2] = Row
  OBVIOUS
<1> QED
  BY <1>1, <1>2, SelectedAgreed DEF Writing, Filling

\* The disk whose loop it is is one the user has agreed to, and its name is found
\* in the line.
LEMMA LoopAgreed ==
    ASSUME TypeOK, Asked, pc \in Filling, todo # {}
    PROVE  Now.names \cap agreed # {}
<1>1. <<Loop, Row>> \in Selected /\ Now = Lines[Row] /\ Loop \in DOMAIN Disks
  BY RowIsLeft DEF Asked
<1>2. Disks[Loop] \in Now.names /\ Disks[Loop] \notin hidden
  BY <1>1 DEF Selected, Left
<1>3. Disks[Loop] \in AllDisks
  BY <1>1 DEF AllDisks, ToSet
<1> QED
  BY <1>2, <1>3 DEF Asked, Writing, Filling

\* From step 3 on the backups are at hand, or nothing is promised of any disk.
LEMMA FoundInvStep ==
    ASSUME TypeOK, FoundInv, [Next]_vars
    PROVE  FoundInv'
<1> USE DEF FoundInv, AskNext, Quit, kept, vars
<1>1. CASE Locate
  BY <1>1 DEF Locate
<1>2. CASE DiskMissing \/ DiskSmaller \/ Refuse \/ Agree \/ AgreeButInUse \/ DisksDone
  BY <1>2 DEF DiskMissing, DiskSmaller, Refuse, Agree, AgreeButInUse, DisksDone,
     Asking
<1>3. CASE Partition \/ PartsDone \/ Mkfs \/ MkfsDone \/ Mkswap \/ Label
  BY <1>3 DEF Partition, PartsDone, Mkfs, MkfsDone, Mkswap, Label
<1>4. CASE Mount \/ Unpack \/ UnpackFails
  BY <1>4 DEF Mount, Restoring, Unpack, UnpackFails, Unpacking
<1>5. CASE Boot \/ Rerun
  BY <1>5 DEF Boot, Rerun
<1>6. CASE UNCHANGED vars
  BY <1>6
<1> QED
  BY <1>1, <1>2, <1>3, <1>4, <1>5, <1>6 DEF Next, Ended

\* A run that goes on without the backups is not forgotten.
LEMMA BlindStays ==
    ASSUME [Next]_vars, ~blind'
    PROVE  ~blind
  BY DEF Next, Locate, DiskMissing, DiskSmaller, Refuse, Agree,
     AgreeButInUse, DisksDone, Partition, PartsDone, Mkfs, MkfsDone, Mkswap,
     Label, Mount, Unpack, UnpackFails, Boot, Rerun, Ended, kept, vars

\* The disk whose turn it is in steps 4 and 5 is one the user has agreed to.
LEMMA TurnAgreed ==
    ASSUME TypeOK, Asked, pc \in {"parts", "mkfs"}, todo # {}
    PROVE  Disk \in agreed \ hidden
<1>1. Turn \in Left /\ Disk \in AllDisks
  BY TurnIsLeft DEF Asked
<1> QED
  BY <1>1 DEF Asked, Writing, Left, Disk

\* Two lines do not name the same partition.
LEMMA DevsUnique ==
    ASSUME NEW m \in DOMAIN Lines, NEW n \in DOMAIN Lines,
           Lines[m].dev = Lines[n].dev
    PROVE  m = n
  BY StepsAssumption

\* The disk with the backups is never taken, mounted or booted from.
LEMMA BackupsInvStep ==
    ASSUME TypeOK, Asked, OwnNames, FoundInv, BackupsInv, [Next]_vars
    PROVE  BackupsInv'
<1> SUFFICES ASSUME source' = "path", ~blind'
             PROVE  /\ BackupDisk \notin agreed'
                    /\ \A n \in DOMAIN Lines : Lines[n].disk = BackupDisk =>
                         Lines[n].dev \notin ToSet(mounts') \cup {rootdev'}
  BY DEF BackupsInv, ToSet
<1>1. source = "path" /\ ~blind /\ BackupDisk \notin agreed
  BY AnswersChange, BlindStays DEF BackupsInv
<1>2. BackupDisk \notin agreed'
  <2>1. CASE Agree
    BY <1>1, <2>1 DEF Agree, Asking, InUse, FoundInv
  <2>2. CASE AgreeButInUse
    BY <1>1, <2>2 DEF AgreeButInUse, Asking, FoundInv
  <2> QED
    BY <1>1, <2>1, <2>2, AnswersChange DEF Rerun
<1> SUFFICES ASSUME NEW n \in DOMAIN Lines, Lines[n].disk = BackupDisk
             PROVE  Lines[n].dev \notin ToSet(mounts') /\ Lines[n].dev # rootdev'
  BY <1>2
<1>3. Lines[n].dev \notin ToSet(mounts) /\ Lines[n].dev # rootdev
  BY <1>1 DEF BackupsInv
<1>4. Boot => Lines[n].dev # RootDev
  <2> SUFFICES ASSUME Boot, RootLines # {}
               PROVE  Lines[n].dev # Lines[LastRoot].dev
    BY <1>3 DEF RootDev
  <2>1. PICK k \in DOMAIN Disks : <<k, LastRoot>> \in Selected
    BY RootIsSelected DEF RootLines
  <2>2. <<k, LastRoot>>[2] = LastRoot
    OBVIOUS
  <2>3. LastRoot \in DOMAIN Lines /\ Lines[LastRoot].disk \in agreed
    BY <2>1, <2>2, SelectedAgreed DEF Boot, Writing
  <2> QED
    BY <1>1, <2>3, DevsUnique
<1>5. Lines[n].dev # rootdev'
  BY <1>3, <1>4, AnswersChange DEF Boot
<1>6. Lines[n].dev \notin ToSet(mounts')
  <2>1. CASE Mount
    <3>1. Now.disk \in agreed /\ Row \in DOMAIN Lines /\ Now = Lines[Row]
      BY <2>1, NowAgreed, RowIsLeft DEF Mount, Restoring, Filling
    <3>2. Lines[n].dev # Now.dev
      BY <1>1, <3>1, DevsUnique
    <3>3. mounts' = mounts \/ mounts' = Append(mounts, Now.dev)
      BY <2>1 DEF Mount
    <3>4. mounts \in Seq(Devs)
      BY DEF TypeOK
    <3> QED
      BY <1>3, <3>2, <3>3, <3>4 DEF ToSet
  <2>2. CASE Unpack \/ UnpackFails
    <3>1. mounts' = mounts \/ mounts' = Umounted
      BY <2>2 DEF Unpack, UnpackFails
    <3>2. mounts \in Seq(Devs)
      BY DEF TypeOK
    <3> QED
      BY <1>3, <3>1, <3>2 DEF ToSet, Umounted, Front
  <2>3. CASE Boot
    <3>1. mounts' = mounts \/ mounts' = Append(mounts, rootdev')
      BY <2>3 DEF Boot
    <3>2. mounts \in Seq(Devs)
      BY DEF TypeOK
    <3> QED
      BY <1>3, <1>5, <3>1, <3>2 DEF ToSet
  <2> QED
    BY <1>3, <2>1, <2>2, <2>3, MountsChange DEF ToSet
<1> QED
  BY <1>5, <1>6

\* A partition is on one disk.
LEMMA OneDisk ==
    ASSUME NEW p, NEW d, NEW e, OnDisk(p, d), OnDisk(p, e)
    PROVE  d = e
  BY DevsUnique DEF OnDisk

\* The partitions of the disk with the backups are not written to.
LEMMA BackupsSafeStep ==
    ASSUME TypeOK, Asked, OwnNames, BackupsInv, BackupsSafe, [Next]_vars
    PROVE  BackupsSafe'
<1> SUFFICES ASSUME source' = "path", ~blind', NEW p \in Devs,
                    OnDisk(p, BackupDisk)
             PROVE  content'[p] = {"old"}
  BY DEF BackupsSafe, BackupsKept, OnDisk
<1>1. /\ source = "path" /\ ~blind /\ BackupDisk \notin agreed
      /\ content[p] = {"old"}
  BY AnswersChange, BlindStays DEF BackupsInv, BackupsSafe, BackupsKept
<1>2. CASE Partition \/ Mkfs
  <2>1. Disk \in agreed
    BY <1>2, TurnAgreed DEF Partition, Mkfs
  <2>2. ~ OnDisk(p, Disk)
    BY <1>1, <2>1, OneDisk
  <2> QED
    BY <1>1, <1>2, <2>2 DEF Partition, Mkfs, written
<1>3. CASE Unpack \/ UnpackFails
  <2>1. mounts # <<>> => p # Last(mounts)
    <3>1. PICK n \in DOMAIN Lines : Lines[n].dev = p /\ Lines[n].disk = BackupDisk
      BY DEF OnDisk
    <3>2. p \notin ToSet(mounts)
      BY <1>1, <3>1 DEF BackupsInv
    <3>3. mounts \in Seq(Devs)
      BY DEF TypeOK
    <3> QED
      BY <3>2, <3>3 DEF ToSet, Last
  <2>2. \E A : Unpacked(A)
    BY <1>3 DEF Unpack, UnpackFails
  <2> QED
    BY <1>1, <2>1, <2>2 DEF Unpacked, TypeOK
<1> QED
  BY <1>1, <1>2, <1>3, ContentChanges

\* Whatever the user answers and however often the script is run, the disk that
\* the backups are read from keeps what is on it, as long as no run has gone on
\* without having mounted it, and provided that grep finds the name of a disk in
\* its own lines only.
THEOREM BackupsStaySafe ==
    ASSUME OwnNames
    PROVE  Spec => []BackupsSafe
<1> DEFINE IInv == TypeOK /\ Asked /\ FoundInv /\ BackupsInv /\ BackupsSafe
<1>1. Init => IInv
  <2> SUFFICES ASSUME Init
               PROVE  IInv
    OBVIOUS
  <2>1. TypeOK
    BY TypeInit
  <2>2. Asked
    BY DEF Init, Asked, Writing, Filling
  <2>3. BackupsInv
    <3>1. \A n \in DOMAIN Lines : Lines[n].dev # "none"
      BY StepsAssumption DEF Devs
    <3>2. agreed = {} /\ ToSet(mounts) = {} /\ rootdev = "none"
      BY DEF Init, ToSet
    <3> QED
      BY <3>1, <3>2 DEF BackupsInv
  <2>4. BackupsSafe
    BY DEF Init, BackupsSafe, BackupsKept
  <2>5. FoundInv
    BY DEF Init, FoundInv
  <2> QED
    BY <2>1, <2>2, <2>3, <2>4, <2>5
<1>2. IInv /\ [Next]_vars => IInv'
  BY TypeStep, AskedStep, FoundInvStep, BackupsInvStep, BackupsSafeStep
<1> QED
  BY <1>1, <1>2, PTL DEF Spec

-----------------------------------------------------------------------------
\* A file system is being unpacked only when it has just been mounted.
LEMMA OnlyMountUnpacks ==
    ASSUME [Next]_vars, pc' = "unpack"
    PROVE  Mount \/ UNCHANGED vars
  BY DEF Next, Locate, DiskMissing, DiskSmaller, Refuse, Agree, AgreeButInUse,
     Asking, DisksDone, Partition, PartsDone, Mkfs, MkfsDone, Mkswap, Label,
     Mount, Restoring, Unpack, UnpackFails, Boot, Rerun, Ended, Quit, AskNext, vars

\* As long as the list is, the line whose turn it is is the same.
LEMMA NowUnchanged ==
    ASSUME UNCHANGED todo
    PROVE  UNCHANGED <<Loop, Row, Now>>
  BY DEF Loop, Row, Now

\* Mount puts the partition of the current line on top.
LEMMA MountedRightStep ==
    ASSUME TypeOK, MountedRight, [Next]_vars
    PROVE  MountedRight'
<1> SUFFICES ASSUME pc' = "unpack"
             PROVE  mounts' # <<>> /\ Last(mounts') = Now'.dev
  BY DEF MountedRight, Last
<1>1. CASE Mount
  <2>1. mounts' = Append(mounts, Now.dev) /\ UNCHANGED todo
    BY <1>1 DEF Mount, Restoring
  <2>2. mounts \in Seq(Devs)
    BY DEF TypeOK
  <2>3. Now' = Now
    BY <2>1, NowUnchanged
  <2> QED
    BY <2>1, <2>2, <2>3 DEF Last
<1>2. CASE UNCHANGED vars
  BY <1>2, NowUnchanged DEF vars, MountedRight
<1> QED
  BY <1>1, <1>2, OnlyMountUnpacks

\* No step writes to a disk without the user's consent.
LEMMA AgreedStep ==
    ASSUME TypeOK, Asked, MountedRight, [Next]_vars,
           NEW n \in DOMAIN Lines,
           content'[Lines[n].dev] # content[Lines[n].dev]
    PROVE  Lines[n].disk \in agreed \/ (pc = "unpack" /\ Named(n)) \/ pc = "astray"
<1>1. CASE Partition \/ Mkfs
  <2>1. Disk \in agreed
    BY <1>1, TurnAgreed DEF Partition, Mkfs
  <2>2. OnDisk(Lines[n].dev, Disk) /\ OnDisk(Lines[n].dev, Lines[n].disk)
    BY <1>1 DEF Partition, Mkfs, OnDisk, Devs, written
  <2> QED
    BY <2>1, <2>2, OneDisk
<1>2. CASE Unpack \/ UnpackFails
  <2>1. Unpacking /\ todo # {} /\ \E A : Unpacked(A)
    BY <1>2 DEF Unpack, UnpackFails, TypeOK
  <2> SUFFICES ASSUME pc = "unpack"
               PROVE  Lines[n].names \cap agreed # {}
    BY <2>1 DEF Unpacking, Named
  <2>2. Now.names \cap agreed # {} /\ Row \in DOMAIN Lines /\ Now = Lines[Row]
    BY <2>1, LoopAgreed, RowIsLeft DEF Filling
  <2>3. mounts # <<>> /\ Lines[n].dev = Last(mounts)
    <3>1. PICK A : Unpacked(A)
      BY <2>1
    <3>2. mounts # <<>>
      BY <3>1 DEF Unpacked
    <3>3. content' = [content EXCEPT ![Last(mounts)] = @ \cup A]
      BY <3>1, <3>2 DEF Unpacked
    <3>4. DOMAIN content = Devs /\ Lines[n].dev \in Devs
      BY DEF TypeOK, Devs
    <3> QED
      BY <3>2, <3>3, <3>4
  <2>4. Lines[n].dev = Now.dev
    BY <2>3 DEF MountedRight
  <2> QED
    BY <2>2, <2>4, DevsUnique
<1> QED
  BY <1>1, <1>2, ContentChanges

\* Nor to anything else on it, but for the swap partitions and labels of step 6.
LEMMA TouchedStep ==
    ASSUME TypeOK, Asked, MountedRight, [Next]_vars,
           NEW d \in touched' \ (touched \cup agreed)
    PROVE  \/ pc = "unpack" /\ \E n \in DOMAIN Lines : Lines[n].disk = d /\ Named(n)
           \/ pc = "astray"
           \/ pc = "swap" /\ d \in SwapDisks
           \/ pc = "label" /\ d \in LabelDisks
<1>1. \/ Partition \/ Mkfs \/ Mkswap \/ Label \/ Unpack \/ UnpackFails
  BY DEF Next, Locate, DiskMissing, DiskSmaller, Refuse, Agree, AgreeButInUse,
     DisksDone, PartsDone, MkfsDone, Mount, Boot, Rerun, Ended, written, vars
<1>2. CASE Partition \/ Mkfs
  BY <1>2, TurnAgreed DEF Partition, Mkfs, written
<1>3. CASE Mkswap \/ Label
  BY <1>3 DEF Mkswap, Label
<1>4. CASE Unpack \/ UnpackFails
  <2>1. Unpacking /\ todo # {} /\ \E A : Unpacked(A)
    BY <1>4 DEF Unpack, UnpackFails, TypeOK
  <2> SUFFICES ASSUME pc = "unpack"
               PROVE  \E n \in DOMAIN Lines : Lines[n].disk = d /\ Named(n)
    BY <2>1 DEF Unpacking
  <2>2. PICK m \in DOMAIN Lines : Lines[m].disk = d /\ Lines[m].dev = Last(mounts)
    BY <2>1 DEF Unpacked
  <2>3. Now.names \cap agreed # {} /\ Row \in DOMAIN Lines /\ Now = Lines[Row]
    BY <2>1, LoopAgreed, RowIsLeft DEF Filling
  <2>4. m = Row
    BY <2>2, <2>3, DevsUnique DEF MountedRight
  <2> QED
    BY <2>2, <2>3, <2>4 DEF Named
<1> QED
  BY <1>1, <1>2, <1>3, <1>4

\* Nothing is written to a disk unless the user has agreed, in this run, to
\* restore it, or one whose name is found in the line of the file system, or the
\* archive's own mount has failed, or it is a swap partition or a label of step 6;
\* for any disks, lines and names.
THEOREM OnlyAgreedWritten == Spec => AgreedOnly
<1> DEFINE IInv == TypeOK /\ Asked /\ MountedRight
<1>1. Init => IInv
  BY TypeInit DEF Init, Asked, Writing, Filling, MountedRight
<1>2. IInv /\ [Next]_vars => IInv'
  BY TypeStep, AskedStep, MountedRightStep
<1>3. IInv /\ [Next]_vars =>
        [/\ \A n \in DOMAIN Lines :
              content'[Lines[n].dev] # content[Lines[n].dev] =>
                  Lines[n].disk \in agreed \/ (pc = "unpack" /\ Named(n)) \/ pc = "astray"
         /\ \A d \in touched' \ (touched \cup agreed) :
              \/ pc = "unpack" /\ \E n \in DOMAIN Lines : Lines[n].disk = d /\ Named(n)
              \/ pc = "astray"
              \/ pc = "swap" /\ d \in SwapDisks
              \/ pc = "label" /\ d \in LabelDisks]_vars
  BY AgreedStep, TouchedStep
<1> QED
  BY <1>1, <1>2, <1>3, PTL DEF Spec, AgreedOnly

-----------------------------------------------------------------------------
\* A step in a run hides no less and overlooks no less.
LEMMA ExcusesStay ==
    ASSUME TypeOK, [Next]_vars
    PROVE  Rerun \/ hidden \cup overlooked \subseteq (hidden \cup overlooked)'
<1>1. overlooked \subseteq AllDisks
  BY DEF TypeOK
<1> QED
  BY <1>1 DEF Next, Locate, DiskMissing, DiskSmaller, Refuse, Agree,
     AgreeButInUse, DisksDone, Partition, PartsDone, Mkfs, MkfsDone, Mkswap,
     Label, Mount, Unpack, UnpackFails, Boot, Ended, kept, written, vars

\* An archive is unpacked on a disk that is excused, or on its own partition.
LEMMA WhereUnpacked ==
    ASSUME TypeOK, MountsInv, Unpacking, mounts # <<>>,
           NEW n \in DOMAIN Lines, Lines[n].dev = Last(mounts)
    PROVE  Lines[n].disk \in hidden \cup overlooked \/ Lines[n].dev = Now.dev
<1>1. mounts \in Seq(Devs)
  BY DEF TypeOK
<1>2. Len(mounts) \in DOMAIN mounts
  BY <1>1
<1> QED
  BY <1>2 DEF MountsInv, Excused, Last

\* What is left mounted is on a disk that is excused.
LEMMA MountsInvStep ==
    ASSUME TypeOK, Asked, OwnNames, FoundInv, MountsInv, [Next]_vars
    PROVE  MountsInv'
<1> USE DEF Writing, Unpacking, Filling, AskNext, Quit, kept, written, vars
<1>1. mounts \in Seq(Devs)
  BY DEF TypeOK
<1>2. CASE Locate
  BY <1>2 DEF Locate, Asked, MountsInv
<1>3. CASE DiskMissing \/ DiskSmaller \/ Refuse
  BY <1>3 DEF DiskMissing, DiskSmaller, Refuse, Asking, MountsInv
<1>11. CASE AgreeButInUse
  <2>1. \A n \in DOMAIN Lines : Lines[n].disk \in AllDisks
    BY StepsAssumption
  <2>2. found \/ AllDisks \subseteq overlooked
    BY <1>11 DEF AgreeButInUse, Asking, FoundInv
  <2> QED
    BY <1>11, <2>1, <2>2 DEF AgreeButInUse, Asking, MountsInv
<1>4. CASE Agree
  BY <1>4 DEF Agree, Asking, InUse, MountsInv
<1>5. CASE DisksDone
  <2>1. \A k \in DOMAIN mounts : Excused(mounts[k])
    <3> SUFFICES ASSUME NEW k \in DOMAIN mounts, NEW n \in DOMAIN Lines,
                        Lines[n].dev = mounts[k]
                 PROVE  Lines[n].disk \in hidden \cup overlooked
      BY DEF Excused
    <3>1. Lines[n].disk \in hidden \cup agreed
      <4>1. PICK j \in DOMAIN Disks : Disks[j] = Lines[n].disk
        BY StepsAssumption DEF AllDisks, ToSet
      <4> QED
        BY <1>5, <4>1 DEF DisksDone, Asked
    <3>2. Lines[n].disk \notin agreed \/ Lines[n].disk \in overlooked
      BY <1>5 DEF DisksDone, MountsInv, ToSet
    <3> QED
      BY <3>1, <3>2
  <2> QED
    BY <1>5, <2>1 DEF DisksDone, MountsInv, Excused
<1>6. CASE Partition \/ PartsDone \/ Mkfs \/ MkfsDone \/ Mkswap \/ Label
  <2>1. \A k \in DOMAIN mounts : Excused(mounts[k])
    BY <1>6 DEF Partition, PartsDone, Mkfs, MkfsDone, Mkswap, Label, MountsInv
  <2>2. \A p : Excused(p) => Excused(p)'
    BY <1>6, ExcusesStay DEF Excused, Partition, PartsDone, Mkfs, MkfsDone, Mkswap, Label
  <2> QED
    BY <1>6, <2>1, <2>2
       DEF Partition, PartsDone, Mkfs, MkfsDone, Mkswap, Label, MountsInv
<1>7. CASE Mount
  <2>1. \A k \in DOMAIN mounts : Excused(mounts[k])
    BY <1>7 DEF Mount, Restoring, MountsInv
  <2>2. \A p : Excused(p) => Excused(p)'
    BY <1>7 DEF Excused, Mount
  <2>3. CASE mounts' = Append(mounts, Now.dev) /\ pc' = "unpack" /\ UNCHANGED todo
    <3>1. Now' = Now /\ mounts' # <<>> /\ Last(mounts') = Now.dev
      BY <1>1, <2>3, NowUnchanged DEF Last
    <3>2. \A k \in 1 .. Len(mounts') - 1 : k \in DOMAIN mounts /\ mounts'[k] = mounts[k]
      BY <1>1, <2>3
    <3> QED
      BY <2>1, <2>2, <2>3, <3>1, <3>2 DEF MountsInv, Last
  <2>4. CASE UNCHANGED mounts /\ pc' = "restore"
    BY <2>1, <2>2, <2>4 DEF MountsInv
  <2>5. CASE UNCHANGED <<mounts, todo>> /\ overlooked' = overlooked \cup {Now.disk}
    <3>1. Now' = Now
      BY <2>5, NowUnchanged
    <3> QED
      BY <1>7, <2>1, <2>2, <2>5, <3>1 DEF MountsInv, Mount, Restoring
  <2> QED
    BY <1>7, <2>3, <2>4, <2>5 DEF Mount, Restoring
<1>8. CASE Unpack \/ UnpackFails
  <2>1. \A k \in 1 .. Len(mounts) - 1 : Excused(mounts[k])
    BY <1>1, <1>8 DEF Unpack, UnpackFails, MountsInv
  <2>2. \A p : Excused(p) => Excused(p)'
    BY <1>8 DEF Excused, Unpack, UnpackFails
  <2>3. CASE mounts' = Umounted
    <3>1. \A k \in DOMAIN mounts' : k \in 1 .. Len(mounts) - 1 /\ mounts'[k] = mounts[k]
      BY <1>1, <2>3 DEF Umounted, Front
    <3> QED
      BY <1>8, <2>1, <2>2, <3>1 DEF MountsInv, Unpack, UnpackFails
  <2>4. CASE UnpackFails /\ UNCHANGED mounts
    <3>1. todo # {} /\ Row \in DOMAIN Lines /\ Now = Lines[Row]
      BY <2>4, RowIsLeft DEF UnpackFails, TypeOK
    <3>2. \A n \in DOMAIN Lines : Lines[n].dev = Now.dev => Lines[n].disk \in overlooked'
      BY <2>4, <3>1, DevsUnique DEF UnpackFails
    <3>3. mounts # <<>> => Excused(Last(mounts))'
      <4> SUFFICES ASSUME mounts # <<>>, NEW n \in DOMAIN Lines,
                          Lines[n].dev = Last(mounts)
                   PROVE  Lines[n].disk \in (hidden \cup overlooked)'
        BY <2>4 DEF Excused, Last
      <4> QED
        BY <2>4, <3>2, WhereUnpacked, ExcusesStay DEF UnpackFails
    <3>4. \A k \in DOMAIN mounts : k = Len(mounts) \/ k \in 1 .. Len(mounts) - 1
      BY <1>1
    <3>5. \A k \in DOMAIN mounts : Excused(mounts[k])'
      BY <2>1, <2>2, <2>4, <3>3, <3>4 DEF Last
    <3> QED
      BY <2>4, <3>5 DEF UnpackFails, MountsInv
  <2> QED
    BY <1>8, <2>3, <2>4 DEF Unpack, UnpackFails
<1>9. CASE Boot \/ Rerun
  BY <1>9 DEF Boot, Rerun, MountsInv
<1>10. CASE UNCHANGED vars
  BY <1>10, NowUnchanged DEF MountsInv, Excused
<1> QED
  BY <1>2, <1>3, <1>4, <1>5, <1>6, <1>7, <1>8, <1>9, <1>10, <1>11 DEF Next, Ended

\* Steps 5 and 7 empty and fill what they say they do.
LEMMA FilledInvStep ==
    ASSUME TypeOK, Asked, OwnNames, MountsInv, FilledInv, [Next]_vars
    PROVE  FilledInv'
<1> USE DEF FilledInv, Filling, AskNext, Quit, kept, written, vars
<1>1. CASE Locate
  BY <1>1 DEF Locate, Left
<1>2. CASE DiskMissing \/ DiskSmaller \/ Refuse \/ Agree \/ AgreeButInUse
  BY <1>2 DEF DiskMissing, DiskSmaller, Refuse, Agree, AgreeButInUse, Asking, Left
<1>3. CASE DisksDone
  <2>1. ~listed => \A n \in DOMAIN Lines : Lines[n].disk \in hidden
    BY <1>3, StepsAssumption DEF DisksDone, Left, AllDisks, ToSet
  <2> QED
    BY <1>3, <2>1 DEF DisksDone
<1>4. CASE Partition
  BY <1>4 DEF Partition
<1>5. CASE PartsDone
  BY <1>5 DEF PartsDone, Left
<1>6. CASE Mkfs
  <2> SUFFICES ASSUME NEW n \in DOMAIN Lines, NEW k \in DOMAIN Disks,
                      Disks[k] = Lines[n].disk,
                      Disks[k] \notin (hidden \cup overlooked)'
               PROVE  k \in todo' \/ content'[Lines[n].dev] = {}
    BY <1>6 DEF Mkfs
  <2>1. k \in todo \/ content[Lines[n].dev] = {}
    BY <1>6 DEF Mkfs
  <2>2. Lines[n].dev \in Devs /\ OnDisk(Lines[n].dev, Lines[n].disk)
    BY DEF Devs, OnDisk
  <2>3. CASE k = Turn
    BY <1>6, <2>2, <2>3 DEF Mkfs, Disk
  <2>4. CASE k # Turn
    BY <1>6, <2>1, <2>2, <2>4 DEF Mkfs, NextDisk
  <2> QED
    BY <2>3, <2>4
<1>7. CASE MkfsDone
  <2> SUFFICES ASSUME NEW n \in DOMAIN Lines,
                      Lines[n].disk \notin (hidden \cup overlooked)'
               PROVE  content'[Lines[n].dev] = {}
    BY <1>7 DEF MkfsDone
  <2>1. PICK k \in DOMAIN Disks : Disks[k] = Lines[n].disk
    BY StepsAssumption DEF AllDisks, ToSet
  <2> QED
    BY <1>7, <2>1 DEF MkfsDone
<1>13. CASE Mkswap
  BY <1>13 DEF Mkswap
<1>8. CASE Label
  <2> SUFFICES ASSUME NEW n \in DOMAIN Lines, NEW k \in DOMAIN Disks,
                      Disks[k] = Lines[n].disk,
                      Disks[k] \notin (hidden \cup overlooked)'
               PROVE  /\ content'[Lines[n].dev] \subseteq {Lines[n].dev}
                      /\ <<k, n>> \in todo'
    BY <1>8 DEF Label
  <2>1. <<k, n>> \in Selected
    BY <1>8, StepsAssumption DEF Label, Selected, Left
  <2> QED
    BY <1>8, <2>1 DEF Label
<1>9. CASE Mount
  <2> SUFFICES ASSUME NEW n \in DOMAIN Lines, NEW k \in DOMAIN Disks,
                      Disks[k] = Lines[n].disk,
                      Disks[k] \notin (hidden \cup overlooked)'
               PROVE  /\ content'[Lines[n].dev] \subseteq {Lines[n].dev}
                      /\ <<k, n>> \in todo' \/ content'[Lines[n].dev] = {Lines[n].dev}
    BY <1>9 DEF Mount, Restoring
  <2>1. /\ content[Lines[n].dev] \subseteq {Lines[n].dev}
        /\ <<k, n>> \in todo \/ content[Lines[n].dev] = {Lines[n].dev}
    BY <1>9 DEF Mount, Restoring
  <2>2. Disks[Loop] = Now.disk
    BY <1>9, NowAgreed DEF Mount, Restoring
  <2>3. <<k, n>> \in todo => <<k, n>> \in todo'
    BY <1>9, <2>2 DEF Mount, NextLoop
  <2> QED
    BY <1>9, <2>1, <2>3 DEF Mount
<1>10. CASE Unpack \/ UnpackFails
  <2>1. Unpacking /\ pc \in Filling /\ todo # {} /\ pc' = "restore" /\ UNCHANGED says
    BY <1>10 DEF Unpack, UnpackFails, Unpacking, TypeOK
  <2>2. /\ Row \in DOMAIN Lines /\ Now = Lines[Row] /\ Now.disk \notin hidden
        /\ Disks[Loop] = Now.disk
    BY <2>1, NowAgreed, RowIsLeft
  <2> SUFFICES ASSUME NEW n \in DOMAIN Lines, NEW k \in DOMAIN Disks,
                      Disks[k] = Lines[n].disk,
                      Disks[k] \notin (hidden \cup overlooked)'
               PROVE  /\ content'[Lines[n].dev] \subseteq {Lines[n].dev}
                      /\ <<k, n>> \in todo' \/ content'[Lines[n].dev] = {Lines[n].dev}
    BY <2>1
  <2>3. Disks[k] \notin hidden \cup overlooked
    BY <1>10 DEF Unpack, UnpackFails
  <2>4. /\ content[Lines[n].dev] \subseteq {Lines[n].dev}
        /\ <<k, n>> \in todo \/ content[Lines[n].dev] = {Lines[n].dev}
    BY <2>1, <2>3
  <2>5. DOMAIN content = Devs /\ Lines[n].dev \in Devs
    BY DEF TypeOK, Devs
  <2>6. CASE UnpackFails
    <3>1. Lines[n].disk # Now.disk
      BY <2>6 DEF UnpackFails
    <3>2. Lines[n].dev # Now.dev /\ k # Loop
      BY <2>2, <3>1, DevsUnique
    <3>3. mounts # <<>> => Lines[n].dev # Last(mounts)
      BY <2>1, <2>3, <3>2, WhereUnpacked
    <3>4. content'[Lines[n].dev] = content[Lines[n].dev]
      BY <2>5, <2>6, <3>3 DEF UnpackFails, Unpacked
    <3>5. <<k, n>> \in todo => <<k, n>> \in todo'
      BY <2>6, <3>2 DEF UnpackFails, NextLine, NextLoop
    <3> QED
      BY <2>4, <3>4, <3>5
  <2>7. CASE Unpack /\ n = Row
    <3>1. mounts # <<>> /\ Last(mounts) = Now.dev
      BY <2>1, <2>2, <2>3, <2>7 DEF MountsInv
    <3>2. content'[Lines[n].dev] = content[Lines[n].dev] \cup {Now.dev}
      BY <2>2, <2>5, <2>7, <3>1 DEF Unpack, Unpacked
    <3> QED
      BY <2>2, <2>4, <2>7, <3>2
  <2>8. CASE Unpack /\ n # Row
    <3>1. Lines[n].dev # Now.dev
      BY <2>2, <2>8, DevsUnique
    <3>2. mounts # <<>> => Lines[n].dev # Last(mounts)
      BY <2>1, <2>3, <3>1, WhereUnpacked
    <3>3. content'[Lines[n].dev] = content[Lines[n].dev]
      BY <2>5, <2>8, <3>2 DEF Unpack, Unpacked
    <3>4. <<k, n>> \in todo => <<k, n>> \in todo'
      BY <2>8 DEF Unpack, NextLine
    <3> QED
      BY <2>4, <3>3, <3>4
  <2> QED
    BY <1>10, <2>6, <2>7, <2>8
<1>11. CASE Boot \/ Rerun
  BY <1>11 DEF Boot, Rerun
<1>12. CASE UNCHANGED vars
  BY <1>12 DEF Left
<1> QED
  BY <1>1, <1>2, <1>3, <1>4, <1>5, <1>6, <1>7, <1>8, <1>9, <1>10, <1>11, <1>12,
     <1>13 DEF Next, Ended

\* The last words are said when there is nothing left to do.
LEMMA RestoredStep ==
    ASSUME TypeOK, FilledInv, RestoredOrExcused, [Next]_vars
    PROVE  RestoredOrExcused'
<1> SUFFICES ASSUME says' = "reboot", NEW n \in DOMAIN Lines,
                    Lines[n].disk \notin (hidden \cup overlooked)'
             PROVE  content'[Lines[n].dev] = {Lines[n].dev}
  BY DEF RestoredOrExcused
<1>1. Boot \/ UNCHANGED vars
  BY DEF FilledInv, Next, Locate, DiskMissing, DiskSmaller, Refuse, Agree,
     AgreeButInUse, Asking, DisksDone, Partition, PartsDone, Mkfs, MkfsDone,
     Mkswap, Label, Mount, Restoring, Unpack, UnpackFails, Rerun, Ended, Quit,
     Unpacking, AskNext, vars
<1>2. CASE Boot
  <2>1. PICK k \in DOMAIN Disks : Disks[k] = Lines[n].disk
    BY StepsAssumption DEF AllDisks, ToSet
  <2> QED
    BY <1>2, <2>1 DEF Boot, FilledInv, Filling, written
<1>3. CASE UNCHANGED vars
  BY <1>3 DEF RestoredOrExcused, vars
<1> QED
  BY <1>1, <1>2, <1>3

\* "You may reboot the system now": every partition of a disk that was to be
\* restored holds its own archive and nothing else, unless the script went on
\* after a failure on that disk; for any disks, any lines, and any number of
\* runs and failures.
THEOREM RebootIsTrue ==
    ASSUME OwnNames
    PROVE  Spec => []RestoredOrExcused
<1> DEFINE IInv == /\ TypeOK /\ Asked /\ FoundInv /\ MountsInv
                  /\ FilledInv /\ RestoredOrExcused
<1>1. Init => IInv
  BY TypeInit DEF Init, Asked, Writing, Filling, Unpacking, FoundInv, MountsInv,
     FilledInv, RestoredOrExcused
<1>2. IInv /\ [Next]_vars => IInv'
  BY TypeStep, AskedStep, FoundInvStep, MountsInvStep, FilledInvStep, RestoredStep
<1> QED
  BY <1>1, <1>2, PTL DEF Spec
=============================================================================
