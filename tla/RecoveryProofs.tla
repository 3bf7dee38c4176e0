--------------------------- MODULE RecoveryProofs ---------------------------
(***************************************************************************)
(* Proofs about modules Backup and Recovery, for every capacity, every     *)
(* list of backup sizes and every setting.  Of the backup: no volume is    *)
(* destroyed, no volume is too large, nothing that has left the pipeline   *)
(* is lost, and the set it leaves can be restored.  Of both together: that *)
(* set is one that RestoreProofs shows the restore to read, and so every   *)
(* byte comes back.                                                        *)
(***************************************************************************)
EXTENDS Recovery, FiniteSetTheorems, FunctionTheorems, TLAPS

-----------------------------------------------------------------------------
(* The backup *)

Locations == {"fs", "weird", "copy", "prepare", "image", "test", "blank",
              "burn", "save", "return", "end", "stopped"}
\* The steps of makeISO9660.sh.
Making == {"prepare", "image", "test", "blank", "burn", "save", "return"}

Disc == [labels : SUBSET Nat, files : SUBSET PieceType, last : BOOLEAN,
         kb : Int]
Dir == [labels : SUBSET Nat, files : SUBSET PieceType, last : BOOLEAN,
        logs : SUBSET (1 .. Len(sizes)), kb : Int]

\* The types of the counters and of what the scripts branch on.
ControlType ==
    /\ pc \in Locations
    /\ sizes \in SizeLists /\ conf \in Configs
    /\ cur \in 1 .. Len(sizes) + 1
    /\ pos \in Nat /\ capacity \in Int /\ volno \in Nat
    /\ final \in BOOLEAN
    /\ failcount \in 0 .. 2
    /\ accepted \subseteq {"weird", "image", "mount", "error"}

\* The types of the directory, the images and the media.
StoreType ==
    /\ isofs \in Dir
    /\ iso \in Disc \cup {NoImage, BadImage}
    /\ saved \subseteq Disc /\ burnt \subseteq Disc
    /\ drive \in Disc \cup {Blank, Used}

\* Where cutstream is in its stream: there is one while it copies and while it
\* waits for makeISO9660.sh, which was then called for a numbered volume.  The
\* tests and the burning are not reached where DVDs are written directly.
StreamInv ==
    /\ pc \in {"weird", "copy"} => cur <= Len(sizes)
    /\ pc \in {"fs", "weird", "copy"} => ~final
    /\ pc \in Making /\ ~final => cur <= Len(sizes) /\ volno >= 1
    /\ pc \in {"fs", "weird"} => pos = 0
    /\ pc = "copy" => capacity \in Nat
    /\ cur <= Len(sizes) => pos <= sizes[cur]
    /\ pc \in {"test", "blank", "burn", "save"} => ~Skip
    /\ pc \in {"blank", "burn"} => conf.BURNCDR
    /\ pc = "end" => final
    /\ final => cur > Len(sizes) /\ volno # 1

\* The pieces in ${ISOFS_DIR}: those of the current stream have been renamed
\* except between the cut and the renaming, there is at most one of each name,
\* and du counts them.
Size(p) == p.hi - p.lo
DirInv ==
    /\ isofs.kb >= 0
    /\ \A p \in isofs.files : p.fs <= cur /\ p.lo <= p.hi
    /\ pc \in {"fs", "weird"} \/ final => \A p \in isofs.files : p.fs < cur
    /\ pc # "prepare" => \A p \in isofs.files : p.fs = cur => p.more
    /\ \A p, q \in isofs.files :
          p.fs = cur /\ q.fs = cur /\ p.more = q.more => p = q
    /\ \A p \in isofs.files : p.fs = cur => isofs.kb >= Size(p)
    /\ \A p, q \in isofs.files :
          p.fs = cur /\ q.fs = cur /\ p.more /\ ~q.more =>
              isofs.kb >= Size(p) + Size(q)

\* Before the first volume is burnt the drive holds no volume of this set.
DriveInv ==
    /\ ~Skip
    /\ \/ volno = 0 /\ pc \in {"fs", "weird", "copy"}
       \/ volno <= 1 /\ pc \in {"prepare", "image", "test", "blank"}
    => burnt = {} /\ drive \in {Blank, Used}

\* As long as nothing but a bad image was accepted, a volume is no larger than
\* the medium and a log; for a DVD that is written directly this holds of the
\* first volume, the only one that is written.
Sound == accepted \subseteq {"image", "mount"}
FitInv ==
    Sound =>
        /\ \A v \in saved \cup burnt : v.kb <= MAXCDSIZE + LogSize
        /\ pc = "fs" /\ (Skip => volno = 0) => isofs.kb <= MAXCDSIZE + LogSize
        /\ pc = "copy" /\ (Skip => volno = 0) =>
              isofs.kb + capacity <= MAXCDSIZE
        /\ pc = "prepare" /\ (Skip => volno <= 1) =>
              isofs.kb <= MAXCDSIZE + (IF final THEN LogSize ELSE 0)
        /\ pc \in {"image", "test", "blank", "burn", "save"} /\ (Skip => volno <= 1) =>
              isofs.kb <= MAXCDSIZE + LogSize
        /\ ~Skip /\ pc = "return" /\ ~final => isofs.kb = 0
        /\ ~Skip /\ iso \notin {NoImage, BadImage} => iso.kb <= MAXCDSIZE + LogSize

\* As long as nothing was accepted, an image is complete before it is moved,
\* and moved before it is overwritten or the directory is emptied.
Moved == Images \subseteq saved \cup burnt
KeepInv ==
    accepted = {} =>
        /\ pc \in {"fs", "weird", "copy"} /\ (Skip => volno = 0) =>
              Moved /\ \A p \in isofs.files : p.fs # cur
        /\ pc \in {"prepare", "image"} /\ (Skip => volno <= 1) => Moved
        /\ pc = "prepare" /\ ~final /\ (Skip => volno <= 1) =>
              \A p \in isofs.files : p.fs = cur => ~p.more
        /\ pc \in {"test", "blank", "burn"} => iso = Volume(isofs)
        /\ pc = "save" =>
              /\ ~conf.BURNCDR => iso = Volume(isofs)
              /\ conf.BURNCDR => Moved /\ Volume(isofs) \in saved \cup burnt
        /\ ~Skip /\ pc = "return" /\ ~final => Moved /\ isofs.files = {}
-----------------------------------------------------------------------------
\* What the assumption says of the constants and of one choice of them.
LEMMA Constants ==
    /\ MAXCDSIZE \in Nat /\ LogSize \in Nat /\ BootSize \in 0 .. MAXCDSIZE
    /\ \A s \in SizeLists : s \in Seq(Nat)
  BY BackupAssumption

\* The streams are numbered from 1, and each has a size.
LEMMA SizeFacts ==
    ASSUME ControlType
    PROVE  /\ sizes \in Seq(Nat) /\ Len(sizes) \in Nat
           /\ cur <= Len(sizes) => sizes[cur] \in Nat
<1>1. sizes \in Seq(Nat) /\ cur \in 1 .. Len(sizes) + 1
  BY Constants DEF ControlType
<1> QED
  BY <1>1

\* The control of the scripts keeps its types, and cutstream its place.
LEMMA ControlStep ==
    ASSUME ControlType, StreamInv, [Next]_vars
    PROVE  ControlType' /\ StreamInv'
<1>a. /\ sizes \in Seq(Nat) /\ Len(sizes) \in Nat
      /\ cur <= Len(sizes) => sizes[cur] \in Nat
  BY SizeFacts
<1> USE Constants, <1>a DEF ControlType, StreamInv, Locations, Making, Skip,
    config, vars
<1>1. CASE StartFs
  BY <1>1 DEF StartFs
<1>2. CASE Overrun
  BY <1>2 DEF Overrun
<1>3. CASE Fill
  <2>1. /\ pc = "copy" /\ sizes[cur] - pos >= capacity /\ pos' = pos + capacity
        /\ volno' = volno + 1 /\ pc' = "prepare"
        /\ UNCHANGED <<sizes, conf, cur, capacity, final, failcount, accepted>>
    BY <1>3 DEF Fill
  <2>2. pos' \in Nat /\ volno' \in Nat /\ volno' >= 1 /\ pos' <= sizes[cur]
    BY <2>1
  <2> QED
    BY <2>1, <2>2
<1>4. CASE Drain
  <2>1. /\ pc = "copy" /\ pos' = 0 /\ cur' = cur + 1 /\ pc' = "fs"
        /\ UNCHANGED <<sizes, conf, capacity, volno, final, failcount, accepted>>
    BY <1>4 DEF Drain
  <2>2. cur' \in 1 .. Len(sizes) + 1 /\ (cur' <= Len(sizes) => sizes[cur'] \in Nat)
    BY <2>1
  <2> QED
    BY <2>1, <2>2
<1>5. CASE Finish
  BY <1>5 DEF Finish
<1>6. CASE Prepare
  BY <1>6 DEF Prepare
<1>7. CASE Image
  BY <1>7 DEF Image, AfterImage
<1>8. CASE ImageFails
  BY <1>8 DEF ImageFails, AfterImage
<1>9. CASE ErrorExit
  BY <1>9 DEF ErrorExit
<1>10. CASE MountTest
  BY <1>10 DEF MountTest, AfterTest
<1>11. CASE BlankCdrw
  BY <1>11 DEF BlankCdrw
<1>12. CASE BurnCdr
  BY <1>12 DEF BurnCdr
<1>13. CASE BurnRetry
  BY <1>13 DEF BurnRetry
<1>14. CASE BurnNOK
  BY <1>14 DEF BurnNOK
<1>15. CASE Save
  BY <1>15 DEF Save
<1>16. CASE Return
  BY <1>16 DEF Return
<1>17. CASE Abort
  BY <1>17 DEF Abort
<1>18. CASE UNCHANGED vars
  BY <1>18
<1> QED
  BY <1>1, <1>2, <1>3, <1>4, <1>5, <1>6, <1>7, <1>8, <1>9, <1>10,
     <1>11, <1>12, <1>13, <1>14, <1>15, <1>16, <1>17, <1>18
     DEF Next, Steps, Terminated

\* The settings of a run do not change, so that a piece stays one.
LEMMA ConfigStays ==
    ASSUME [Next]_vars
    PROVE  UNCHANGED <<sizes, conf>> /\ PieceType' = PieceType /\ Disc' = Disc
           /\ Dir' = Dir
<1>1. UNCHANGED <<sizes, conf>>
  BY DEF Next, Steps, StartFs, Overrun, Fill, Drain, Finish, Prepare, Image,
     ImageFails, ErrorExit, MountTest, BlankCdrw, BurnCdr, BurnRetry, BurnNOK,
     Save, Return, Abort, Terminated, config, vars
<1> QED
  BY <1>1 DEF PieceType, Disc, Dir

\* The only steps that change ${ISOFS_DIR}.
LEMMA DirChanges ==
    ASSUME [Next]_vars
    PROVE  \/ UNCHANGED isofs
           \/ Overrun \/ Fill \/ Drain \/ Finish \/ Prepare \/ Save
  BY DEF Next, Steps, StartFs, Overrun, Fill, Drain, Finish, Prepare, Image,
     ImageFails, ErrorExit, MountTest, BlankCdrw, BurnCdr, BurnRetry, BurnNOK,
     Save, Return, Abort, Terminated, config, vars

\* The only steps that change CDrec.iso, the named images and the media.
LEMMA ImagesChange ==
    ASSUME [Next]_vars
    PROVE  /\ UNCHANGED iso \/ Image \/ ImageFails \/ BurnNOK \/ Save
           /\ UNCHANGED saved \/ BurnNOK \/ Save
           /\ UNCHANGED burnt \/ Image \/ BlankCdrw \/ BurnCdr
           /\ UNCHANGED drive \/ Image \/ BlankCdrw \/ BurnCdr \/ BurnRetry
                 \/ BurnNOK
  BY DEF Next, Steps, StartFs, Overrun, Fill, Drain, Finish, Prepare, Image,
     ImageFails, ErrorExit, MountTest, BlankCdrw, BurnCdr, BurnRetry, BurnNOK,
     Save, Return, Abort, Terminated, config, vars

\* A volume is told from a medium or an image that is none.
LEMMA Distinct ==
    /\ NoImage # BadImage /\ Blank # Used
    /\ NoImage \notin Disc /\ BadImage \notin Disc
    /\ Blank \notin Disc /\ Used \notin Disc
  BY DEF NoImage, BadImage, Blank, Used, Disc

\* What cutstream stores are pieces.
LEMMA StoreIsPieces ==
    ASSUME ControlType, cur <= Len(sizes), NEW files \in SUBSET PieceType,
           NEW lo \in Nat, NEW hi \in Nat
    PROVE  Store(files, lo, hi) \in SUBSET PieceType
<1>1. [fs |-> cur, lo |-> lo, hi |-> hi, more |-> FALSE] \in PieceType
  BY SizeFacts DEF PieceType, ControlType
<1> QED
  BY <1>1 DEF Store

\* The renaming makes pieces of pieces.
LEMMA RenameIsPieces ==
    ASSUME NEW files \in SUBSET PieceType
    PROVE  Rename(files) \in SUBSET PieceType
  BY DEF Rename, PieceType

\* du of an overwritten piece is a number.
LEMMA OverwrittenIsSize ==
    ASSUME NEW files \in SUBSET PieceType
    PROVE  Overwritten(files) \in Int
<1>1. CASE \E p \in files : p.fs = cur /\ p.more
  <2> DEFINE p == CHOOSE q \in files : q.fs = cur /\ q.more
  <2>1. p \in files
    BY <1>1
  <2>2. p.hi \in Nat /\ p.lo \in Nat
    BY <2>1 DEF PieceType
  <2> QED
    BY <1>1, <2>2 DEF Overwritten
<1> QED
  BY <1>1 DEF Overwritten

\* The volume made of the directory.
LEMMA VolumeIsDisc ==
    ASSUME isofs \in Dir
    PROVE  Volume(isofs) \in Disc
  BY DEF Volume, Dir, Disc

\* Directory, images and media keep their types.
LEMMA StoreStep ==
    ASSUME ControlType, StreamInv, StoreType, [Next]_vars
    PROVE  StoreType'
<1>a. /\ Dir' = Dir /\ Disc' = Disc /\ isofs \in Dir
      /\ NoImage' = NoImage /\ BadImage' = BadImage /\ Blank' = Blank /\ Used' = Used
  BY ConfigStays DEF StoreType, NoImage, BadImage, Blank, Used
<1>b. LogKb \in Nat
  BY Constants DEF LogKb
<1>c. /\ isofs.files \in SUBSET PieceType /\ isofs.kb \in Int
      /\ isofs.labels \in SUBSET Nat /\ isofs.logs \in SUBSET (1 .. Len(sizes))
  BY <1>a DEF Dir
<1>d. pos \in Nat /\ volno \in Nat /\ cur \in 1 .. Len(sizes) + 1
  BY DEF ControlType
<1>1. isofs' \in Dir
  <2>1. CASE UNCHANGED isofs
    BY <1>a, <2>1
  <2>2. CASE Overrun
    <3>1. cur <= Len(sizes) /\ sizes[cur] \in Nat
      BY <2>2, SizeFacts DEF Overrun, StreamInv
    <3>2. PICK n \in {0, sizes[cur]} :
             isofs' = [isofs EXCEPT !.files = Store(@, 0, n),
                                    !.logs = @ \cup {cur},
                                    !.kb = @ + n + LogKb]
      BY <2>2 DEF Overrun
    <3>3. n \in Nat
      BY <3>1
    <3>4. Store(isofs.files, 0, n) \in SUBSET PieceType
      BY <1>c, <3>1, <3>3, StoreIsPieces
    <3>5. cur \in 1 .. Len(sizes) /\ isofs.kb + n + LogKb \in Int
      BY <1>b, <1>c, <1>d, <3>1, <3>3, SizeFacts
    <3> QED
      BY <1>a, <3>2, <3>4, <3>5 DEF Dir
  <2>3. CASE Fill
    <3>1. cur <= Len(sizes) /\ capacity \in Nat
      BY <2>3 DEF Fill, StreamInv
    <3>2. Store(isofs.files, pos, pos + capacity) \in SUBSET PieceType
      BY <1>c, <1>d, <3>1, StoreIsPieces
    <3>3. isofs.kb + capacity \in Int
      BY <1>c, <3>1
    <3>4. isofs' = [isofs EXCEPT !.files = Store(@, pos, pos + capacity),
                                 !.kb = @ + capacity]
      BY <2>3 DEF Fill
    <3> QED
      BY <1>a, <3>2, <3>3, <3>4 DEF Dir
  <2>4. CASE Drain
    <3>1. cur <= Len(sizes) /\ sizes[cur] \in Nat
      BY <2>4, SizeFacts DEF Drain, StreamInv
    <3>2. Store(isofs.files, pos, sizes[cur]) \in SUBSET PieceType
      BY <1>c, <1>d, <3>1, StoreIsPieces
    <3>3. /\ isofs.kb + (sizes[cur] - pos) + LogKb \in Int
          /\ cur \in 1 .. Len(sizes)
      BY <1>b, <1>c, <1>d, <3>1, SizeFacts
    <3>4. isofs' = [isofs EXCEPT !.files = Store(@, pos, sizes[cur]),
                                 !.logs = @ \cup {cur},
                                 !.kb = @ + (sizes[cur] - pos) + LogKb]
      BY <2>4 DEF Drain
    <3> QED
      BY <1>a, <3>2, <3>3, <3>4 DEF Dir
  <2>5. CASE Finish
    BY <1>a, <2>5 DEF Finish, Dir
  <2>6. CASE Prepare
    <3>1. CASE final
      BY <1>a, <1>d, <2>6, <3>1 DEF Prepare, Dir
    <3>2. CASE ~final
      <4>1. cur \in 1 .. Len(sizes)
        BY <1>d, <2>6, <3>2, SizeFacts DEF Prepare, StreamInv, Making
      <4>2. isofs.kb + LogKb - Overwritten(isofs.files) \in Int
        BY <1>b, <1>c, OverwrittenIsSize
      <4>3. Rename(isofs.files) \in SUBSET PieceType
        BY <1>c, RenameIsPieces
      <4>4. isofs' = [isofs EXCEPT
                         !.files = Rename(@),
                         !.labels = @ \cup {volno},
                         !.logs = @ \cup {cur},
                         !.kb = @ + LogKb - Overwritten(isofs.files)]
        BY <2>6, <3>2 DEF Prepare
      <4> QED
        BY <1>a, <1>d, <4>1, <4>2, <4>3, <4>4 DEF Dir
    <3> QED
      BY <3>1, <3>2
  <2>7. CASE Save
    BY <1>a, <2>7 DEF Save, EmptyDir, Dir
  <2> QED
    BY <2>1, <2>2, <2>3, <2>4, <2>5, <2>6, <2>7, DirChanges
<1>2. iso' \in Disc \cup {NoImage, BadImage}
  <2>1. iso \in Disc \cup {NoImage, BadImage} /\ Volume(isofs) \in Disc
    BY <1>a, VolumeIsDisc DEF StoreType
  <2> QED
    BY <2>1, ImagesChange DEF Image, ImageFails, BurnNOK, Save
<1>3. saved' \subseteq Disc
  <2>1. iso \in Disc \cup {NoImage, BadImage} /\ saved \subseteq Disc
    BY DEF StoreType
  <2> QED
    BY <2>1, ImagesChange DEF BurnNOK, Save
<1>4. burnt' \subseteq Disc
  <2>1. /\ iso \in Disc \cup {NoImage, BadImage} /\ burnt \subseteq Disc
        /\ Volume(isofs) \in Disc
    BY <1>a, VolumeIsDisc DEF StoreType
  <2> QED
    BY <2>1, ImagesChange DEF Image, BlankCdrw, BurnCdr
<1>5. drive' \in Disc \cup {Blank, Used}
  <2>1. /\ iso \in Disc \cup {NoImage, BadImage} /\ drive \in Disc \cup {Blank, Used}
        /\ Volume(isofs) \in Disc
    BY <1>a, VolumeIsDisc DEF StoreType
  <2> QED
    BY <2>1, ImagesChange DEF Image, BlankCdrw, BurnCdr, BurnRetry, BurnNOK
<1> QED
  BY <1>a, <1>1, <1>2, <1>3, <1>4, <1>5 DEF StoreType

\* A step that neither stores nor renames leaves the directory as it is.
LEMMA DirStays ==
    ASSUME [Next]_vars
    PROVE  \/ Overrun \/ Fill \/ Drain \/ Finish \/ Prepare \/ Save
           \/ UNCHANGED vars
           \/ /\ UNCHANGED <<isofs, cur, final>> /\ pc # "prepare" /\ pc' # "prepare"
              /\ pc' = "fs" => pc = "fs"
              /\ pc' = "weird" => pc \in {"fs", "weird"}
  BY DEF Next, Steps, StartFs, Image, ImageFails, ErrorExit, MountTest,
     BlankCdrw, BurnCdr, BurnRetry, BurnNOK, Return, Abort, Terminated,
     AfterImage, AfterTest, config, vars

\* The pieces of the directory are what a cut, a renaming and the emptying
\* leave.
LEMMA DirStep ==
    ASSUME ControlType, StreamInv, StoreType, DirInv, [Next]_vars
    PROVE  DirInv'
<1>a. /\ isofs \in Dir /\ isofs.kb \in Int /\ isofs.files \in SUBSET PieceType
      /\ cur \in Nat /\ Len(sizes) \in Nat /\ pos \in Nat /\ LogKb \in Nat
  BY SizeFacts, Constants DEF StoreType, ControlType, Dir, LogKb
<1>b. \A p \in isofs.files : p.fs \in Nat /\ p.lo \in Nat /\ p.hi \in Nat
                              /\ p.more \in BOOLEAN
  BY <1>a DEF PieceType
<1>1. ASSUME Overrun \/ Drain
      PROVE  DirInv'
  <2>1. /\ cur <= Len(sizes) /\ sizes[cur] \in Nat /\ pos <= sizes[cur]
        /\ cur' = cur + 1 /\ ~final' /\ pc' = "fs"
    BY <1>1, SizeFacts DEF Overrun, Drain, StreamInv
  <2>2. PICK lo \in Nat, hi \in Nat, n \in Nat :
           /\ lo <= hi
           /\ isofs'.files = Store(isofs.files, lo, hi)
           /\ isofs'.kb = isofs.kb + n
    <3>1. CASE Overrun
      <4>1. PICK m \in {0, sizes[cur]} :
               isofs' = [isofs EXCEPT !.files = Store(@, 0, m),
                                      !.logs = @ \cup {cur},
                                      !.kb = @ + m + LogKb]
        BY <3>1 DEF Overrun
      <4>2. isofs'.files = Store(isofs.files, 0, m) /\ isofs'.kb = isofs.kb + m + LogKb
        BY <1>a, <4>1 DEF Dir
      <4>3. m \in Nat /\ m + LogKb \in Nat /\ isofs'.kb = isofs.kb + (m + LogKb)
        BY <1>a, <2>1, <4>2
      <4> QED
        BY <4>2, <4>3
    <3>2. CASE Drain
      <4>1. isofs' = [isofs EXCEPT !.files = Store(@, pos, sizes[cur]),
                                   !.logs = @ \cup {cur},
                                   !.kb = @ + (sizes[cur] - pos) + LogKb]
        BY <3>2 DEF Drain
      <4>2. /\ isofs'.files = Store(isofs.files, pos, sizes[cur])
            /\ isofs'.kb = isofs.kb + (sizes[cur] - pos) + LogKb
        BY <1>a, <4>1 DEF Dir
      <4>3. /\ (sizes[cur] - pos) + LogKb \in Nat
            /\ isofs'.kb = isofs.kb + ((sizes[cur] - pos) + LogKb)
        BY <1>a, <2>1, <4>2
      <4> QED
        BY <1>a, <2>1, <4>2, <4>3
    <3> QED
      BY <1>1, <3>1, <3>2
  <2>3. \A p \in isofs'.files :
           p.fs < cur' /\ p.fs <= cur' /\ p.fs # cur' /\ p.lo <= p.hi
    <3>1. \A p \in isofs'.files :
             p \in isofs.files \/ p = [fs |-> cur, lo |-> lo, hi |-> hi, more |-> FALSE]
      BY <2>2 DEF Store
    <3> QED
      BY <1>a, <1>b, <2>1, <2>2, <3>1 DEF DirInv
  <2>4. isofs'.kb >= 0
    BY <1>a, <2>2 DEF DirInv
  <2> QED
    BY <1>a, <2>1, <2>3, <2>4 DEF DirInv
<1>2. ASSUME Fill
      PROVE  DirInv'
  <2>1. /\ capacity \in Nat /\ UNCHANGED cur /\ pc' = "prepare" /\ ~final'
    BY <1>2 DEF Fill, StreamInv
  <2> DEFINE new == [fs |-> cur, lo |-> pos, hi |-> pos + capacity, more |-> FALSE]
  <2>2. isofs' = [isofs EXCEPT !.files = Store(@, pos, pos + capacity),
                               !.kb = @ + capacity]
    BY <1>2 DEF Fill
  <2>3. /\ isofs'.files = {p \in isofs.files : p.fs # cur \/ p.more} \cup {new}
        /\ isofs'.kb = isofs.kb + capacity
    BY <1>a, <2>2 DEF Dir, Store
  <2>4. /\ new.fs = cur /\ new.lo = pos /\ new.hi = pos + capacity /\ ~new.more
        /\ Size(new) = capacity /\ new.lo <= new.hi
    BY <1>a, <2>1 DEF Size
  <2> HIDE DEF new
  <2>5. \A p \in isofs'.files : p = new \/ (p \in isofs.files /\ (p.fs # cur \/ p.more))
    BY <2>3
  <2>6. \A p \in isofs.files : p.fs = cur => isofs.kb >= Size(p) /\ p.more
    BY <1>2 DEF DirInv, Fill
  <2>7. isofs'.kb >= 0 /\ \A p \in isofs'.files : p.fs <= cur /\ p.lo <= p.hi
    BY <1>a, <2>1, <2>3, <2>4, <2>5 DEF DirInv
  <2>8. \A p, q \in isofs'.files :
           p.fs = cur /\ q.fs = cur /\ p.more = q.more => p = q
    BY <2>4, <2>5, <2>6 DEF DirInv
  <2>9. \A p \in isofs'.files : p.fs = cur => isofs'.kb >= Size(p)
    <3> SUFFICES ASSUME NEW p \in isofs'.files, p.fs = cur
                 PROVE  isofs'.kb >= Size(p)
      OBVIOUS
    <3>1. isofs.kb >= 0
      BY DEF DirInv
    <3>2. CASE p = new
      BY <1>a, <2>1, <2>3, <2>4, <3>1, <3>2
    <3>3. CASE p \in isofs.files
      BY <1>a, <1>b, <2>1, <2>3, <2>6, <3>3 DEF Size
    <3> QED
      BY <2>5, <3>2, <3>3
  <2>10. \A p, q \in isofs'.files :
           p.fs = cur /\ q.fs = cur /\ p.more /\ ~q.more =>
              isofs'.kb >= Size(p) + Size(q)
    <3> SUFFICES ASSUME NEW p \in isofs'.files, NEW q \in isofs'.files,
                        p.fs = cur, q.fs = cur, p.more, ~q.more
                 PROVE  isofs'.kb >= Size(p) + Size(q)
      OBVIOUS
    <3>1. q = new /\ p \in isofs.files
      BY <2>4, <2>5
    <3>2. isofs.kb >= Size(p) /\ Size(p) \in Int
      BY <1>b, <2>6, <3>1 DEF Size
    <3> QED
      BY <1>a, <2>1, <2>3, <2>4, <3>1, <3>2
  <2> QED
    BY <2>1, <2>7, <2>8, <2>9, <2>10 DEF DirInv, Size
<1>3. ASSUME Finish
      PROVE  DirInv'
  <2>1. /\ isofs'.files = isofs.files /\ isofs'.kb = isofs.kb /\ UNCHANGED cur
        /\ pc = "fs"
    BY <1>a, <1>3 DEF Finish, Dir
  <2>2. \A p \in isofs.files : p.fs < cur /\ p.fs # cur
    BY <1>a, <1>b, <2>1 DEF DirInv
  <2> QED
    BY <2>1, <2>2 DEF DirInv
<1>4. ASSUME Prepare, final
      PROVE  DirInv'
  <2>1. /\ isofs'.files = isofs.files /\ isofs'.kb = isofs.kb
        /\ UNCHANGED <<cur, final>>
    BY <1>a, <1>4 DEF Prepare, Dir
  <2>2. \A p \in isofs.files : p.fs < cur /\ p.fs # cur
    BY <1>a, <1>b, <1>4 DEF DirInv
  <2> QED
    BY <2>1, <2>2 DEF DirInv
<1>5. ASSUME Prepare, ~final
      PROVE  DirInv'
  <2>1. UNCHANGED <<cur, final>> /\ pc' = "image"
    BY <1>5 DEF Prepare
  <2>2. isofs' = [isofs EXCEPT !.files = Rename(@), !.labels = @ \cup {volno},
                               !.logs = @ \cup {cur},
                               !.kb = @ + LogKb - Overwritten(isofs.files)]
    BY <1>5 DEF Prepare
  <2>3. /\ isofs'.files = Rename(isofs.files)
        /\ isofs'.kb = isofs.kb + LogKb - Overwritten(isofs.files)
    BY <1>a, <2>2 DEF Dir
  <2>4. \A p \in isofs'.files :
           \/ p \in isofs.files /\ p.fs # cur
           \/ \E q \in isofs.files : q.fs = cur /\ ~q.more /\ p = [q EXCEPT !.more = TRUE]
    BY <2>3 DEF Rename
  <2>5. \A q \in isofs.files :
           LET p == [q EXCEPT !.more = TRUE]
           IN  p.fs = q.fs /\ p.lo = q.lo /\ p.hi = q.hi /\ p.more = TRUE
    BY <1>a DEF PieceType
  <2>6. \A p \in isofs'.files :
           /\ p.fs <= cur /\ p.lo <= p.hi
           /\ p.fs = cur => p.more
    <3> SUFFICES ASSUME NEW p \in isofs'.files
                 PROVE  p.fs <= cur /\ p.lo <= p.hi /\ (p.fs = cur => p.more)
      OBVIOUS
    <3>1. CASE p \in isofs.files /\ p.fs # cur
      BY <3>1 DEF DirInv
    <3>2. ASSUME NEW q \in isofs.files, q.fs = cur, p = [q EXCEPT !.more = TRUE]
          PROVE  p.fs <= cur /\ p.lo <= p.hi /\ (p.fs = cur => p.more)
      <4>1. p.fs = q.fs /\ p.lo = q.lo /\ p.hi = q.hi /\ p.more = TRUE
        BY <2>5, <3>2
      <4>2. q.fs <= cur /\ q.lo <= q.hi
        BY DEF DirInv
      <4> QED
        BY <4>1, <4>2
    <3> QED
      BY <2>4, <3>1, <3>2
  <2>7. \A p, q \in isofs'.files : p.fs = cur /\ q.fs = cur => p = q
    <3> SUFFICES ASSUME NEW p \in isofs'.files, NEW q \in isofs'.files,
                        p.fs = cur, q.fs = cur
                 PROVE  p = q
      OBVIOUS
    <3>1. PICK r \in isofs.files : r.fs = cur /\ ~r.more /\ p = [r EXCEPT !.more = TRUE]
      BY <2>4
    <3>2. PICK t \in isofs.files : t.fs = cur /\ ~t.more /\ q = [t EXCEPT !.more = TRUE]
      BY <2>4
    <3>3. r.more = FALSE /\ t.more = FALSE
      BY <1>b, <3>1, <3>2
    <3>4. r = t
      BY <3>1, <3>2, <3>3 DEF DirInv
    <3> QED
      BY <3>1, <3>2, <3>4
  <2>8. Overwritten(isofs.files) \in Int /\ isofs'.kb \in Int
    BY <1>a, <2>3, OverwrittenIsSize
  <2>9. \/ Overwritten(isofs.files) = 0
        \/ \E r \in isofs.files : r.fs = cur /\ r.more
                                     /\ Overwritten(isofs.files) = Size(r)
    BY DEF Overwritten, Size
  <2>10. isofs'.kb >= 0
    BY <1>a, <1>b, <2>3, <2>8, <2>9 DEF DirInv, Size
  <2>11. \A p \in isofs'.files : p.fs = cur => isofs'.kb >= Size(p)
    <3> SUFFICES ASSUME NEW p \in isofs'.files, p.fs = cur
                 PROVE  isofs'.kb >= Size(p)
      OBVIOUS
    <3>1. PICK q \in isofs.files : q.fs = cur /\ ~q.more /\ p = [q EXCEPT !.more = TRUE]
      BY <2>4
    <3>2. Size(p) = Size(q) /\ Size(q) \in Int
      BY <1>b, <2>5, <3>1 DEF Size
    <3>3. isofs.kb >= Size(q)
      BY <3>1 DEF DirInv
    <3>4. CASE Overwritten(isofs.files) = 0
      BY <1>a, <2>3, <3>2, <3>3, <3>4
    <3>5. ASSUME NEW r \in isofs.files, r.fs = cur, r.more,
                 Overwritten(isofs.files) = Size(r)
          PROVE  isofs'.kb >= Size(p)
      <4>1. isofs.kb >= Size(r) + Size(q)
        BY <3>1, <3>5 DEF DirInv
      <4>2. Size(r) \in Int
        BY <1>b DEF Size
      <4> QED
        BY <1>a, <2>3, <3>2, <3>5, <4>1, <4>2
    <3> QED
      BY <2>9, <3>4, <3>5
  <2> QED
    BY <1>5, <2>1, <2>6, <2>7, <2>10, <2>11 DEF DirInv, Size
<1>6. ASSUME Save
      PROVE  DirInv'
  <2>1. UNCHANGED <<cur, final>> /\ pc = "save" /\ pc' = "return"
    BY <1>6 DEF Save
  <2>2. CASE volno > 0
    BY <1>6, <2>1, <2>2 DEF Save, EmptyDir, DirInv
  <2>3. CASE ~(volno > 0)
    BY <1>6, <2>1, <2>3 DEF Save, DirInv, Size
  <2> QED
    BY <2>2, <2>3
<1>7. ASSUME UNCHANGED <<isofs, cur, final>>, pc # "prepare", pc' # "prepare",
             pc' = "fs" => pc = "fs", pc' = "weird" => pc \in {"fs", "weird"}
      PROVE  DirInv'
  BY <1>7 DEF DirInv, Size
<1>8. CASE UNCHANGED vars
  BY <1>8 DEF DirInv, Size, vars
<1> QED
  BY <1>1, <1>2, <1>3, <1>4, <1>5, <1>6, <1>7, <1>8, DirStays

\* The invariants that hold whatever the user accepts.
BasicInv == ControlType /\ StreamInv /\ StoreType /\ DirInv

\* They hold when tar-it.sh starts.
LEMMA BasicInit ==
    ASSUME Init
    PROVE  BasicInv
<1>1. sizes \in Seq(Nat) /\ Len(sizes) \in Nat /\ BootSize \in Nat
      /\ (1 <= Len(sizes) => sizes[1] \in Nat)
  BY Constants DEF Init
<1>2. ControlType
  <2>1. 1 \in 1 .. Len(sizes) + 1 /\ 0 \in 0 .. 2 /\ 0 \in Int
    BY <1>1
  <2> QED
    BY <2>1 DEF Init, ControlType, Locations
<1>3. StreamInv
  BY <1>1 DEF Init, StreamInv, Making
<1>4. StoreType
  BY <1>1 DEF Init, StoreType, Dir
<1>5. DirInv
  BY <1>1 DEF Init, DirInv
<1> QED
  BY <1>2, <1>3, <1>4, <1>5 DEF BasicInv

\* Every step of the scripts keeps them.
LEMMA BasicStep ==
    ASSUME BasicInv, [Next]_vars
    PROVE  BasicInv'
  BY ControlStep, StoreStep, DirStep DEF BasicInv

\* Every variable keeps its type: the counters, the pieces in the directory, in
\* the images and on the media, du of the directory, and the burn loop, which
\* makes at most two attempts per volume.
THEOREM TypeCorrect == Spec => []TypeOK
<1>1. BasicInv => TypeOK
  <2> SUFFICES ASSUME BasicInv
               PROVE  TypeOK
    OBVIOUS
  <2>1. isofs \in Dir /\ Product \subseteq Disc
    BY DEF BasicInv, StoreType, Product, Images
  <2>2. isofs.kb \in Nat /\ isofs.logs \subseteq 1 .. Len(sizes)
    BY <2>1 DEF BasicInv, DirInv, Dir
  <2>3. \A d \in Product : d.files \subseteq PieceType
    BY <2>1 DEF Disc
  <2>4. \A p \in isofs.files \cup Pieces(Product) : p \in PieceType
    BY <2>1, <2>3 DEF Dir, Pieces
  <2> QED
    BY <2>2, <2>4 DEF BasicInv, ControlType, TypeOK, Locations
<1> QED
  BY <1>1, BasicInit, BasicStep, PTL DEF Spec

-----------------------------------------------------------------------------
\* The drive holds no volume before the first one is burnt.
LEMMA DriveStep ==
    ASSUME BasicInv, DriveInv, [Next]_vars
    PROVE  DriveInv'
<1>a. /\ volno \in Nat /\ volno' \in Nat /\ Skip' = Skip
      /\ Blank' = Blank /\ Used' = Used
  BY BasicStep, ConfigStays DEF BasicInv, ControlType, Skip, Blank, Used
<1>b. ~Skip => ~Grow
  BY DEF Skip, Grow
<1> SUFFICES ASSUME ~Skip,
                    \/ volno' = 0 /\ pc' \in {"fs", "weird", "copy"}
                    \/ volno' <= 1 /\ pc' \in {"prepare", "image", "test", "blank"}
             PROVE  burnt' = {} /\ drive' \in {Blank, Used}
  BY <1>a DEF DriveInv
<1>1. UNCHANGED <<burnt, drive>>
  BY <1>a, <1>b, ImagesChange
     DEF Image, BlankCdrw, BurnCdr, BurnRetry, BurnNOK, BasicInv, StreamInv
<1>2. \/ volno = 0 /\ pc \in {"fs", "weird", "copy"}
      \/ volno <= 1 /\ pc \in {"prepare", "image", "test", "blank"}
  BY <1>a DEF BasicInv, StreamInv, Making, Next, Steps, StartFs, Overrun, Fill,
     Drain, Finish, Prepare, Image, ImageFails, ErrorExit, MountTest, BlankCdrw,
     BurnCdr, BurnRetry, BurnNOK, Save, Return, Abort, Terminated, AfterImage,
     AfterTest, vars
<1> QED
  BY <1>1, <1>2 DEF DriveInv

\* Before the first volume is burnt the drive holds none, so that blanking
\* destroys no volume; the images that are named stay.
LEMMA MediaStay ==
    ASSUME BasicInv, DriveInv, [Next]_vars
    PROVE  burnt \subseteq burnt' /\ saved \subseteq saved'
<1>1. saved \subseteq saved'
  BY ImagesChange DEF BurnNOK, Save
<1>2. CASE BlankCdrw
  <2>1. volno <= 1 /\ ~Skip => burnt = {}
    BY <1>2 DEF BlankCdrw, DriveInv
  <2>2. volno > 1 => burnt \ {Blank} = burnt
    BY Distinct DEF BasicInv, StoreType
  <2>3. ~Skip
    BY <1>2 DEF BlankCdrw, BasicInv, StreamInv
  <2> QED
    BY <1>1, <1>2, <2>1, <2>2, <2>3 DEF BlankCdrw, BasicInv, ControlType
<1> QED
  BY <1>1, <1>2, ImagesChange DEF Image, BurnCdr

\* A volume once written to a medium or saved under its name is never erased
\* or overwritten by a later one, with any settings, failures and answers.
THEOREM VolumesStay == Spec => NoVolumeDestroyed
<1>1. Init => DriveInv
  BY DEF Init, DriveInv
<1>2. BasicInv /\ DriveInv /\ [Next]_vars =>
         [burnt \subseteq burnt' /\ saved \subseteq saved']_vars
  BY MediaStay
<1> QED
  BY <1>1, <1>2, BasicInit, BasicStep, DriveStep, PTL DEF Spec, NoVolumeDestroyed

-----------------------------------------------------------------------------
\* What was accepted stays accepted, and is known by its name.
LEMMA AcceptedGrows ==
    ASSUME [Next]_vars
    PROVE  /\ accepted \subseteq accepted'
           /\ Overrun => "weird" \in accepted'
           /\ ErrorExit => "error" \in accepted'
           /\ ImageFails => "image" \in accepted'
  BY DEF Next, Steps, StartFs, Overrun, Fill, Drain, Finish, Prepare, Image,
     ImageFails, ErrorExit, MountTest, BlankCdrw, BurnCdr, BurnRetry, BurnNOK,
     Save, Return, Abort, Terminated, config, vars

\* du of the piece that is overwritten is not negative.
LEMMA OverwrittenIsNat ==
    ASSUME BasicInv
    PROVE  Overwritten(isofs.files) \in Nat
<1>1. \A p \in isofs.files : p.lo \in Nat /\ p.hi \in Nat /\ p.lo <= p.hi
  BY DEF BasicInv, StoreType, DirInv, Dir, PieceType
<1>2. CASE \E p \in isofs.files : p.fs = cur /\ p.more
  <2> DEFINE p == CHOOSE q \in isofs.files : q.fs = cur /\ q.more
  <2>1. p \in isofs.files
    BY <1>2
  <2>2. p.hi - p.lo \in Nat
    BY <1>1, <2>1
  <2> QED
    BY <1>2, <2>2 DEF Overwritten
<1> QED
  BY <1>2 DEF Overwritten

\* No step makes a volume too large.
LEMMA FitStep ==
    ASSUME BasicInv, FitInv, [Next]_vars
    PROVE  FitInv'
<1> DEFINE Room == MAXCDSIZE + LogSize
<1>a. /\ MAXCDSIZE \in Nat /\ LogSize \in Nat /\ LogKb \in 0 .. LogSize
      /\ volno \in Nat /\ isofs \in Dir /\ isofs.kb \in Int /\ pos \in Nat
      /\ Skip' = Skip /\ NoImage' = NoImage /\ BadImage' = BadImage
      /\ Volume(isofs).kb = isofs.kb
  BY Constants, ConfigStays DEF BasicInv, ControlType, StoreType, Dir, LogKb,
     Skip, NoImage, BadImage, Volume
<1> SUFFICES ASSUME Sound'
             PROVE  FitInv'
  BY DEF FitInv
<1>b. Sound /\ ~Overrun /\ ~ErrorExit
  BY AcceptedGrows DEF Sound
<1>c. /\ \A v \in saved \cup burnt : v.kb <= Room
      /\ ~Skip /\ iso \notin {NoImage, BadImage} => iso.kb <= Room
  BY <1>b DEF FitInv
<1>d. pc \in {"test", "blank", "burn", "save"} => ~Skip
  BY DEF BasicInv, StreamInv
<1>e. pc \in {"image", "test", "blank", "burn", "save"} /\ (Skip => volno <= 1) =>
         isofs.kb <= Room
  BY <1>b DEF FitInv
<1>f. \A v \in saved' \cup burnt' : v.kb <= Room
  <2>1. \A v \in saved' : v \in saved \/ (v = iso /\ ~Skip /\ iso \notin {NoImage, BadImage})
    BY <1>d, ImagesChange DEF BurnNOK, Save
  <2>2. \A v \in burnt' :
           \/ v \in burnt
           \/ v = iso /\ ~Skip /\ iso \notin {NoImage, BadImage}
           \/ v = Volume(isofs) /\ pc = "image" /\ volno <= 1
    <3>1. CASE UNCHANGED burnt
      BY <3>1
    <3>2. CASE Image
      BY <3>2 DEF Image, Grow
    <3>3. CASE BlankCdrw
      BY <3>3 DEF BlankCdrw
    <3>4. CASE BurnCdr
      BY <1>d, <3>4 DEF BurnCdr
    <3> QED
      BY <3>1, <3>2, <3>3, <3>4, ImagesChange
  <2> QED
    BY <1>a, <1>c, <1>e, <2>1, <2>2
<1>g. ~Skip /\ iso' \notin {NoImage, BadImage} => iso'.kb <= Room
  <2>1. \/ iso' = iso \/ iso' \in {NoImage, BadImage}
        \/ pc = "image" /\ iso' = Volume(isofs)
    BY ImagesChange DEF Image, ImageFails, BurnNOK, Save
  <2> QED
    BY <1>a, <1>c, <1>e, <2>1
<1> USE <1>a, <1>b, <1>d, <1>e, <1>f, <1>g DEF FitInv
<1>1. CASE StartFs
  BY <1>1 DEF StartFs
<1>2. CASE Fill
  <2>1. /\ capacity \in Nat /\ pc = "copy" /\ pc' = "prepare" /\ volno' = volno + 1
        /\ ~final'
    BY <1>2 DEF Fill, BasicInv, StreamInv
  <2>2. isofs' = [isofs EXCEPT !.files = Store(@, pos, pos + capacity),
                               !.kb = @ + capacity]
    BY <1>2 DEF Fill
  <2>3. isofs'.kb = isofs.kb + capacity
    BY <2>2 DEF Dir
  <2>4. (Skip => volno' <= 1) => isofs'.kb <= MAXCDSIZE
    BY <2>1, <2>3
  <2> QED
    BY <2>1, <2>4
<1>3. CASE Drain
  <2>1. /\ sizes[cur] \in Nat /\ pc = "copy" /\ pc' = "fs" /\ capacity \in Nat
        /\ sizes[cur] - pos < capacity /\ UNCHANGED volno
    BY <1>3, SizeFacts DEF Drain, BasicInv, StreamInv
  <2>2. isofs' = [isofs EXCEPT !.files = Store(@, pos, sizes[cur]),
                               !.logs = @ \cup {cur},
                               !.kb = @ + (sizes[cur] - pos) + LogKb]
    BY <1>3 DEF Drain
  <2>3. isofs'.kb = isofs.kb + (sizes[cur] - pos) + LogKb
    BY <2>2 DEF Dir
  <2>4. (Skip => volno' = 0) => isofs'.kb <= Room
    BY <2>1, <2>3
  <2> QED
    BY <2>1, <2>4
<1>4. CASE Finish
  <2>1. /\ isofs'.kb = isofs.kb /\ pc = "fs" /\ pc' = "prepare" /\ final'
        /\ volno' = IF volno > 0 THEN volno + 1 ELSE volno
    BY <1>4 DEF Finish, Dir
  <2> QED
    BY <2>1
<1>5. CASE Prepare
  <2>1. pc = "prepare" /\ pc' = "image" /\ UNCHANGED volno
    BY <1>5 DEF Prepare
  <2>2. CASE final
    <3>1. isofs'.kb = isofs.kb
      BY <1>5, <2>2 DEF Prepare, Dir
    <3> QED
      BY <2>1, <2>2, <3>1
  <2>3. CASE ~final
    <3>1. isofs' = [isofs EXCEPT
                         !.files = Rename(@),
                         !.labels = @ \cup {volno},
                         !.logs = @ \cup {cur},
                         !.kb = @ + LogKb - Overwritten(isofs.files)]
      BY <1>5, <2>3 DEF Prepare
    <3>2. /\ isofs'.kb = isofs.kb + LogKb - Overwritten(isofs.files)
          /\ Overwritten(isofs.files) \in Nat
      BY <3>1, OverwrittenIsNat DEF Dir
    <3>3. (Skip => volno <= 1) => isofs.kb <= MAXCDSIZE
      BY <2>1, <2>3
    <3>4. (Skip => volno' <= 1) => isofs'.kb <= Room
      BY <2>1, <3>2, <3>3
    <3> QED
      BY <2>1, <3>4
  <2> QED
    BY <2>2, <2>3
<1>6. CASE Image \/ ImageFails
  <2>1. /\ pc = "image" /\ UNCHANGED <<isofs, volno>>
        /\ pc' = IF Skip THEN "return" ELSE "test"
    BY <1>6 DEF Image, ImageFails, AfterImage
  <2> QED
    BY <2>1
<1>7. CASE MountTest
  BY <1>7 DEF MountTest, AfterTest
<1>8. CASE BlankCdrw \/ BurnCdr \/ BurnRetry \/ BurnNOK
  <2>1. /\ pc \in {"blank", "burn"} /\ UNCHANGED <<isofs, volno>>
        /\ pc' \in {"burn", "save"}
    BY <1>8 DEF BlankCdrw, BurnCdr, BurnRetry, BurnNOK
  <2> QED
    BY <2>1
<1>9. CASE Save
  <2>1. pc = "save" /\ pc' = "return" /\ (~final' => volno > 0)
    BY <1>9 DEF Save, BasicInv, StreamInv, Making
  <2>2. volno > 0 => isofs'.kb = 0
    BY <1>9 DEF Save, EmptyDir
  <2> QED
    BY <2>1, <2>2
<1>10. CASE Return
  <2>1. /\ pc = "return" /\ UNCHANGED <<isofs, volno, final>>
        /\ final => pc' = "end"
        /\ ~final => pc' = "copy" /\ capacity' = MAXCDSIZE /\ volno >= 1
    BY <1>10 DEF Return, BasicInv, StreamInv, Making
  <2> QED
    BY <2>1
<1>11. CASE Abort
  BY <1>11 DEF Abort
<1>12. CASE UNCHANGED vars
  BY <1>12 DEF vars
<1> QED
  BY <1>1, <1>2, <1>3, <1>4, <1>5, <1>6, <1>7, <1>8, <1>9, <1>10, <1>11, <1>12
     DEF Next, Steps, Terminated

\* A volume exceeds MAXCDSIZE by no more than the log that is added after the
\* capacity was computed, whatever the sizes of the backups are.
THEOREM VolumesFit == Spec => []VolumeFits
<1>1. Init => FitInv
  <2> SUFFICES ASSUME Init
               PROVE  FitInv
    OBVIOUS
  <2>1. isofs.kb = BootSize /\ BootSize <= MAXCDSIZE + LogSize
    BY Constants DEF Init
  <2> QED
    BY <2>1 DEF Init, FitInv
<1>2. FitInv => VolumeFits
  BY DEF FitInv, VolumeFits, Sound
<1> QED
  BY <1>1, <1>2, BasicInit, BasicStep, FitStep, PTL DEF Spec

-----------------------------------------------------------------------------
\* An image of the directory is an image.
LEMMA VolumeIsImage ==
    ASSUME BasicInv
    PROVE  /\ Volume(isofs) \in Disc /\ Volume(isofs) \notin {NoImage, BadImage}
           /\ Volume(isofs).files = isofs.files
  BY VolumeIsDisc, Distinct DEF BasicInv, StoreType, Volume

\* What cutstream stores, where nothing of the current stream has its name.
LEMMA Stored ==
    ASSUME NEW files, NEW lo, NEW hi,
           \A p \in files : p.fs = cur => p.more
    PROVE  Store(files, lo, hi) =
              files \cup {[fs |-> cur, lo |-> lo, hi |-> hi, more |-> FALSE]}
  BY DEF Store

\* Nothing is accepted: an image is moved before the next one is made.
LEMMA KeepStep ==
    ASSUME BasicInv, KeepInv, [Next]_vars
    PROVE  KeepInv'
<1>a. /\ volno \in Nat /\ isofs \in Dir /\ pos \in Nat /\ cur \in Nat
      /\ Skip' = Skip /\ NoImage' = NoImage /\ BadImage' = BadImage
      /\ conf' = conf
  BY ConfigStays DEF BasicInv, ControlType, StoreType, Skip, NoImage, BadImage
<1> SUFFICES ASSUME accepted' = {}
             PROVE  KeepInv'
  BY DEF KeepInv
<1>b. accepted = {} /\ ~Overrun /\ ~ErrorExit /\ ~ImageFails
  BY AcceptedGrows
<1>c. pc \in {"test", "blank", "burn", "save"} => ~Skip
  BY DEF BasicInv, StreamInv
<1>d. /\ Volume(isofs) \notin {NoImage, BadImage}
      /\ Volume(isofs).files = isofs.files
  BY VolumeIsImage
<1> USE <1>a, <1>b, <1>c
<1>1. CASE StartFs
  <2>1. /\ pc = "fs" /\ pc' \in {"weird", "copy"}
        /\ UNCHANGED <<volno, isofs, iso, saved, burnt, cur>>
    BY <1>1 DEF StartFs
  <2> QED
    BY <2>1 DEF KeepInv, Moved, Images
<1>2. CASE Fill
  <2>1. /\ pc = "copy" /\ pc' = "prepare" /\ volno' = volno + 1
        /\ UNCHANGED <<iso, saved, burnt, cur, final>>
    BY <1>2 DEF Fill
  <2>2. isofs' = [isofs EXCEPT !.files = Store(@, pos, pos + capacity),
                               !.kb = @ + capacity]
    BY <1>2 DEF Fill
  <2>3. isofs'.files = Store(isofs.files, pos, pos + capacity)
    BY <2>2 DEF Dir
  <2>4. (Skip => volno' <= 1) => Moved /\ \A p \in isofs.files : p.fs # cur
    BY <2>1 DEF KeepInv
  <2>5. (Skip => volno' <= 1) => \A p \in isofs'.files : p.fs = cur => ~p.more
    BY <2>3, <2>4 DEF Store
  <2> QED
    BY <2>1, <2>4, <2>5 DEF KeepInv, Moved, Images
<1>3. CASE Drain
  <2>1. /\ pc = "copy" /\ pc' = "fs" /\ cur' = cur + 1
        /\ UNCHANGED <<volno, iso, saved, burnt, final>>
    BY <1>3 DEF Drain
  <2>2. isofs' = [isofs EXCEPT !.files = Store(@, pos, sizes[cur]),
                               !.logs = @ \cup {cur},
                               !.kb = @ + (sizes[cur] - pos) + LogKb]
    BY <1>3 DEF Drain
  <2>3. isofs'.files = Store(isofs.files, pos, sizes[cur])
    BY <2>2 DEF Dir
  <2>4. \A p \in isofs.files : p.fs \in Nat /\ p.fs <= cur
    BY DEF BasicInv, DirInv, Dir, PieceType
  <2>5. \A p \in isofs'.files : p.fs # cur'
    BY <2>1, <2>3, <2>4 DEF Store
  <2> QED
    BY <2>1, <2>5 DEF KeepInv, Moved, Images
<1>4. CASE Finish
  <2>1. /\ pc = "fs" /\ pc' = "prepare" /\ final'
        /\ volno' = IF volno > 0 THEN volno + 1 ELSE volno
        /\ UNCHANGED <<iso, saved, burnt, cur>>
    BY <1>4 DEF Finish
  <2>2. (Skip => volno' <= 1) => Moved
    BY <2>1 DEF KeepInv
  <2> QED
    BY <2>1, <2>2 DEF KeepInv, Moved, Images
<1>5. CASE Prepare
  <2>1. /\ pc = "prepare" /\ pc' = "image"
        /\ UNCHANGED <<volno, iso, saved, burnt, cur, final>>
    BY <1>5 DEF Prepare
  <2> QED
    BY <2>1 DEF KeepInv, Moved, Images
<1>6. CASE Image
  <2>1. /\ pc = "image" /\ UNCHANGED <<volno, isofs, saved, final>>
        /\ pc' = IF Skip THEN "return" ELSE "test"
    BY <1>6 DEF Image, AfterImage
  <2>2. ~Skip => iso' = Volume(isofs)'
    BY <1>6, <2>1 DEF Image, Grow, Skip
  <2> QED
    BY <2>1, <2>2 DEF KeepInv
<1>7. CASE MountTest
  <2>1. /\ pc = "test" /\ UNCHANGED <<volno, isofs, iso, saved, burnt, final>>
        /\ pc' = IF conf.BURNCDR THEN "blank" ELSE "save"
    BY <1>7 DEF MountTest, AfterTest
  <2> QED
    BY <2>1 DEF KeepInv, Moved, Images
<1>8. CASE BlankCdrw \/ BurnRetry
  <2>1. /\ pc \in {"blank", "burn"} /\ pc' = "burn"
        /\ UNCHANGED <<volno, isofs, iso, final>>
    BY <1>8 DEF BlankCdrw, BurnRetry
  <2> QED
    BY <2>1 DEF KeepInv
<1>9. CASE BurnCdr
  <2>1. /\ pc = "burn" /\ pc' = "save" /\ UNCHANGED <<volno, isofs, iso, saved, final>>
        /\ iso = Volume(isofs) /\ conf.BURNCDR
    BY <1>9 DEF BurnCdr, KeepInv, BasicInv, StreamInv
  <2>2. burnt' = burnt \cup {Volume(isofs)}
    BY <1>9, <1>d, <2>1 DEF BurnCdr
  <2> QED
    BY <2>1, <2>2 DEF KeepInv, Moved, Images
<1>10. CASE BurnNOK
  <2>1. /\ pc = "burn" /\ pc' = "save" /\ UNCHANGED <<volno, isofs, burnt, final>>
        /\ iso = Volume(isofs) /\ conf.BURNCDR /\ iso' = NoImage
    BY <1>10 DEF BurnNOK, KeepInv, BasicInv, StreamInv
  <2>2. saved' = saved \cup {Volume(isofs)}
    BY <1>10, <1>d, <2>1 DEF BurnNOK
  <2> QED
    BY <2>1, <2>2 DEF KeepInv, Moved, Images
<1>11. CASE Save
  <2>1. /\ pc = "save" /\ pc' = "return" /\ UNCHANGED <<volno, burnt, final>>
        /\ ~final => volno > 0
        /\ volno > 0 => isofs' = EmptyDir
        /\ volno > 0 /\ ~conf.BURNCDR => iso' = NoImage
        /\ conf.BURNCDR => UNCHANGED <<iso, saved>>
    BY <1>11 DEF Save, BasicInv, StreamInv, Making
  <2>2. ~final => isofs'.files = {}
    BY <2>1 DEF EmptyDir
  <2>3. ~final => Moved'
    BY <2>1 DEF KeepInv, Moved, Images
  <2> QED
    BY <2>1, <2>2, <2>3 DEF KeepInv
<1>12. CASE Return
  <2>1. /\ pc = "return" /\ UNCHANGED <<volno, isofs, iso, saved, burnt, cur, final>>
        /\ final => pc' = "end"
        /\ ~final => pc' = "copy" /\ volno >= 1
    BY <1>12 DEF Return, BasicInv, StreamInv, Making
  <2> QED
    BY <2>1 DEF KeepInv, Moved, Images
<1>13. CASE Abort
  BY <1>13 DEF Abort, KeepInv
<1>14. CASE UNCHANGED vars
  BY <1>14 DEF vars, KeepInv, Moved, Images
<1> QED
  BY <1>1, <1>2, <1>3, <1>4, <1>5, <1>6, <1>7, <1>8, <1>9, <1>10, <1>11, <1>12,
     <1>13, <1>14 DEF Next, Steps, Terminated

\* All pieces that are left: in the directory, in images and on media.
Kept == isofs.files \cup Pieces(Product)
Same(p, q) == p.fs = q.fs /\ p.lo = q.lo /\ p.hi = q.hi

\* Nothing is accepted: an image is overwritten or removed only after it was
\* moved, hence no volume disappears.
LEMMA ProductGrows ==
    ASSUME BasicInv, DriveInv, KeepInv, [Next]_vars,
           accepted' = {}, Skip => volno' <= 1
    PROVE  Product \subseteq Product'
<1>1. burnt \subseteq burnt' /\ saved \subseteq saved'
  BY MediaStay
<1>2. accepted = {} /\ ~ImageFails
  BY AcceptedGrows
<1>3. NoImage' = NoImage /\ BadImage' = BadImage
  BY DEF NoImage, BadImage
<1>4. Images \subseteq saved' \cup burnt' \cup Images'
  <2>1. CASE UNCHANGED iso
    BY <1>3, <2>1 DEF Images
  <2>2. CASE Image
    <3>1. Moved
      BY <1>2, <2>2 DEF Image, KeepInv
    <3> QED
      BY <1>1, <3>1 DEF Moved
  <2>3. CASE BurnNOK
    BY <2>3 DEF BurnNOK, Images
  <2>4. CASE Save
    BY <2>1, <2>4 DEF Save, Images
  <2> QED
    BY <1>2, <2>1, <2>2, <2>3, <2>4, ImagesChange
<1> QED
  BY <1>1, <1>4 DEF Product

\* Nothing is accepted: a piece may be renamed or be moved into a volume, but
\* what it holds stays.
LEMMA PieceStays ==
    ASSUME BasicInv, DriveInv, KeepInv, [Next]_vars,
           accepted' = {}, Skip => volno' <= 1,
           NEW p \in Kept
    PROVE  \E q \in Kept' : Same(p, q)
<1>a. accepted = {} /\ isofs \in Dir /\ isofs.files \subseteq PieceType
  BY AcceptedGrows DEF BasicInv, StoreType, Dir
<1>b. Product \subseteq Product'
  BY ProductGrows
<1>1. CASE p \in Pieces(Product)
  BY <1>1, <1>b DEF Pieces, Kept, Same
<1>2. CASE p \in isofs.files
  <2>1. CASE p \in isofs'.files
    BY <2>1 DEF Kept, Same
  <2>2. CASE Fill \/ Drain
    <3>1. p.fs # cur \/ p.more
      BY <1>2, <2>2 DEF Fill, Drain, BasicInv, DirInv
    <3>2. \E lo, hi : isofs'.files = Store(isofs.files, lo, hi)
      BY <1>a, <2>2 DEF Fill, Drain, Dir
    <3> QED
      BY <1>2, <2>1, <3>1, <3>2 DEF Store
  <2>3. CASE Finish
    BY <1>2, <1>a, <2>1, <2>3 DEF Finish, Dir
  <2>4. CASE Prepare
    <3>1. CASE final
      BY <1>2, <1>a, <2>1, <2>4, <3>1 DEF Prepare, Dir
    <3>2. CASE ~final
      <4>1. isofs'.files = Rename(isofs.files)
        BY <1>a, <2>4, <3>2 DEF Prepare, Dir
      <4>2. pc = "prepare" /\ UNCHANGED volno
        BY <2>4 DEF Prepare
      <4>3. p.fs = cur => ~p.more
        BY <1>2, <1>a, <3>2, <4>2 DEF KeepInv
      <4>4. CASE p.fs # cur
        BY <1>2, <2>1, <4>1, <4>4 DEF Rename
      <4>5. CASE p.fs = cur
        <5> DEFINE q == [p EXCEPT !.more = TRUE]
        <5>1. q \in isofs'.files
          BY <1>2, <4>1, <4>3, <4>5 DEF Rename
        <5>2. Same(p, q)
          BY <1>2, <1>a DEF Same, PieceType
        <5> QED
          BY <5>1, <5>2 DEF Kept
      <4> QED
        BY <4>4, <4>5
    <3> QED
      BY <3>1, <3>2
  <2>5. CASE Save
    <3>1. CASE volno > 0
      <4>1. Volume(isofs) \in Product'
        <5>1. pc = "save"
          BY <2>5 DEF Save
        <5>2. CASE conf.BURNCDR
          BY <1>a, <2>5, <5>1, <5>2 DEF Save, KeepInv, Product
        <5>3. CASE ~conf.BURNCDR
          BY <1>a, <2>5, <3>1, <5>1, <5>3, VolumeIsImage DEF Save, KeepInv, Product
        <5> QED
          BY <5>2, <5>3
      <4>2. p \in Volume(isofs).files
        BY <1>2, VolumeIsImage
      <4> QED
        BY <4>1, <4>2 DEF Kept, Same, Pieces
    <3>2. CASE ~(volno > 0)
      BY <1>2, <2>1, <2>5, <3>2 DEF Save
    <3> QED
      BY <3>1, <3>2
  <2>6. ~Overrun
    BY AcceptedGrows
  <2> QED
    BY <1>2, <2>1, <2>2, <2>3, <2>4, <2>5, <2>6, DirChanges
<1> QED
  BY <1>1, <1>2 DEF Kept

\* What has newly left the pipeline is in the directory.
LEMMA NewIsStored ==
    ASSUME BasicInv, [Next]_vars, accepted' = {},
           NEW f \in 1 .. Len(sizes), NEW k \in 1 .. Written(f)'
    PROVE  k \in 1 .. Written(f) \/ Holds(Kept', f, k)
<1>a. /\ sizes \in Seq(Nat) /\ Len(sizes) \in Nat /\ pos \in Nat /\ cur \in Nat
      /\ sizes[f] \in Nat /\ isofs \in Dir /\ sizes' = sizes /\ f \in Nat
  BY SizeFacts, ConfigStays DEF BasicInv, ControlType, StoreType
<1>b. ~Overrun
  BY AcceptedGrows
<1>1. CASE Fill
  <2>1. /\ pc = "copy" /\ capacity \in Nat /\ pos' = pos + capacity
        /\ UNCHANGED cur
    BY <1>1 DEF Fill, BasicInv, StreamInv
  <2>2. CASE f = cur
    <3>1. k \in Nat /\ k <= pos + capacity
      BY <1>a, <2>1, <2>2 DEF Written
    <3>2. CASE k <= pos
      BY <1>a, <2>2, <3>1, <3>2 DEF Written
    <3>3. CASE k > pos
      <4> DEFINE q == [fs |-> cur, lo |-> pos, hi |-> pos + capacity, more |-> FALSE]
      <4>1. q \in isofs'.files
        BY <1>1, <1>a DEF Fill, Dir, Store
      <4>2. q.fs = f /\ q.lo < k /\ k <= q.hi
        BY <2>2, <3>1, <3>3, <1>a
      <4> QED
        BY <4>1, <4>2 DEF Holds, Kept
    <3> QED
      BY <1>a, <3>1, <3>2, <3>3
  <2>3. CASE f # cur
    BY <1>a, <2>1, <2>3 DEF Written
  <2> QED
    BY <2>2, <2>3
<1>2. CASE Drain
  <2>1. /\ pc = "copy" /\ cur' = cur + 1 /\ pos' = 0
    BY <1>2 DEF Drain
  <2>2. CASE f = cur
    <3>1. k \in Nat /\ k <= sizes[f]
      BY <1>a, <2>1, <2>2 DEF Written
    <3>2. CASE k <= pos
      BY <1>a, <2>2, <3>1, <3>2 DEF Written
    <3>3. CASE k > pos
      <4> DEFINE q == [fs |-> cur, lo |-> pos, hi |-> sizes[cur], more |-> FALSE]
      <4>1. q \in isofs'.files
        BY <1>2, <1>a DEF Drain, Dir, Store
      <4>2. q.fs = f /\ q.lo < k /\ k <= q.hi
        BY <2>2, <3>1, <3>3, <1>a
      <4> QED
        BY <4>1, <4>2 DEF Holds, Kept
    <3> QED
      BY <1>a, <3>1, <3>2, <3>3
  <2>3. CASE f # cur
    BY <1>a, <2>1, <2>3 DEF Written
  <2> QED
    BY <2>2, <2>3
<1>3. CASE UNCHANGED <<cur, pos>>
  BY <1>3, <1>a DEF Written
<1>4. Fill \/ Drain \/ UNCHANGED <<cur, pos>>
  BY <1>b DEF Next, Steps, StartFs, Fill, Drain, Finish, Prepare, Image,
     ImageFails, ErrorExit, MountTest, BlankCdrw, BurnCdr, BurnRetry, BurnNOK,
     Save, Return, Abort, Terminated, config, vars
<1> QED
  BY <1>1, <1>2, <1>3, <1>4

\* The volume number never goes back.
LEMMA VolnoGrows ==
    ASSUME BasicInv, [Next]_vars
    PROVE  volno \in Nat /\ volno' \in Nat /\ volno <= volno'
<1>1. volno \in Nat /\ volno' \in Nat
  BY BasicStep DEF BasicInv, ControlType
<1> QED
  BY <1>1 DEF Next, Steps, StartFs, Overrun, Fill, Drain, Finish, Prepare, Image,
     ImageFails, ErrorExit, MountTest, BlankCdrw, BurnCdr, BurnRetry, BurnNOK,
     Save, Return, Abort, Terminated, config, vars

\* The invariants hold at the start, when nothing has left the pipeline.
LEMMA InitKept ==
    ASSUME Init
    PROVE  BasicInv /\ DriveInv /\ KeepInv /\ NothingLost
<1>1. BasicInv
  BY BasicInit
<1>2. DriveInv
  BY DEF Init, DriveInv
<1>3. KeepInv
  BY DEF Init, KeepInv, Moved, Images
<1>4. \A f \in 1 .. Len(sizes) : 1 .. Written(f) = {}
  <2>1. Len(sizes) \in Nat
    BY <1>1, SizeFacts DEF BasicInv
  <2> QED
    BY <2>1 DEF Init, Written
<1> QED
  BY <1>1, <1>2, <1>3, <1>4 DEF NothingLost

\* What has left the pipeline stays, and what leaves it is stored.
LEMMA NothingLostStep ==
    ASSUME BasicInv, DriveInv, KeepInv, NothingLost, [Next]_vars
    PROVE  NothingLost'
<1>1. ASSUME accepted' = {}, Skip' => volno' <= 1,
             NEW f \in 1 .. Len(sizes'), NEW k \in 1 .. Written(f)'
      PROVE  Holds(Kept', f, k)
  <2>1. sizes' = sizes /\ Skip' = Skip /\ accepted = {}
    BY <1>1, ConfigStays, AcceptedGrows DEF Skip
  <2>2. Skip => volno <= 1
    BY <1>1, <2>1, VolnoGrows
  <2>3. CASE k \in 1 .. Written(f)
    <3>1. Holds(Kept, f, k)
      BY <1>1, <2>1, <2>2, <2>3 DEF NothingLost, Kept
    <3>2. PICK p \in Kept : p.fs = f /\ p.lo < k /\ k <= p.hi
      BY <3>1 DEF Holds
    <3>3. PICK q \in Kept' : Same(p, q)
      BY <1>1, <2>1, PieceStays
    <3> QED
      BY <3>2, <3>3 DEF Same, Holds
  <2> QED
    BY <1>1, <2>1, <2>3, NewIsStored
<1> QED
  BY <1>1 DEF NothingLost, Kept

\* As long as the user has not gone on after a warning, every Kb that has left
\* the pipeline is in the directory, in an image or on a medium, whatever burn
\* fails and wherever the cuts fall.
THEOREM NoDataLost == Spec => []NothingLost
<1> DEFINE Inv == BasicInv /\ DriveInv /\ KeepInv /\ NothingLost
<1>1. Inv /\ [Next]_vars => Inv'
  BY BasicStep, DriveStep, KeepStep, NothingLostStep
<1> QED
  BY <1>1, InitKept, PTL DEF Spec

-----------------------------------------------------------------------------
\* The directory has not been made into a volume yet.
Unmade == pc \in {"fs", "weird", "copy", "prepare", "image"}

\* The number of the last volume that was made, and the numbers of all; the
\* volume of a backup that fits on one has number 0.
LastMade == IF pc \in {"prepare", "image"} THEN volno - 1 ELSE volno
Numbers == IF ~Unmade /\ volno = 0 THEN {0} ELSE 1 .. LastMade

\* The settings under which a set of volumes is promised, so far.
Promised == accepted = {} /\ (Skip => volno = 0) /\ pc # "stopped"

\* The volumes made so far have one label each, in order, and LAST_CD is on
\* the last one; the directory has the label of the volume being made.
LabelInv ==
    /\ \A d \in Product : \E k \in Numbers : d.labels = {k}
    /\ \A k \in Numbers : \E d \in Product : d.labels = {k}
    /\ \A d, e \in Product : d.labels = e.labels => d = e
    /\ \A d \in Product : d.last <=> final /\ d.labels = {volno}
    /\ pc \in {"fs", "weird", "copy", "prepare"} => isofs.labels = {}
    /\ pc = "image" => isofs.labels = {volno}
    /\ Unmade => (isofs.last <=> final)
    /\ pc = "return" /\ ~final => isofs = EmptyDir
    /\ pc \in {"return", "end"} => isofs.files = {} \/ Volume(isofs) \in Product

\* The pieces of a directory: one per stream, whole but for the one that was
\* cut, which ends where the stream stands.
DirPieces ==
    /\ \A p \in isofs.files :
          \/ ~p.more /\ p.hi = sizes[p.fs]
          \/ /\ p.fs = cur /\ ~final
             /\ \/ pc = "prepare" /\ ~p.more
                \/ pc \in {"image", "test", "blank", "burn", "save"} /\ p.more
    /\ \A p \in isofs.files : p.fs = cur => p.hi = pos
    /\ \A p, q \in isofs.files : p.fs = q.fs => p = q

\* A piece that was cut goes on on the next volume, in the directory that
\* becomes the next volume, or where the stream stands.
Continued(d, p) ==
    \/ \E e \in Product : \E q \in e.files :
          q.fs = p.fs /\ q.lo = p.hi /\ \E k \in d.labels : e.labels = {k + 1}
    \/ /\ Unmade /\ LastMade \in d.labels
       /\ \E q \in isofs.files : q.fs = p.fs /\ q.lo = p.hi
    \/ /\ p.fs = cur /\ p.hi = pos /\ ~final /\ LastMade \in d.labels
       /\ pc \notin {"fs", "weird", "prepare", "image"}

\* The pieces on the volumes made so far.
VolumePieces ==
    \A d \in Product :
        /\ \A p, q \in d.files : p.fs = q.fs => p = q
        /\ \A p \in d.files : IF p.more THEN Continued(d, p) ELSE p.hi = sizes[p.fs]

\* Every stream that was started has a first piece.
Started ==
    \A f \in 1 .. Len(sizes) :
        f < cur \/ (f = cur /\ (pc \in Making \/ pos > 0)) =>
            \E p \in Kept : p.fs = f /\ p.lo = 0

\* A later volume, and the directory, have files of later streams only, or
\* the rest of a stream that was cut.
Precedes(p, q) == p.fs < q.fs \/ (p.fs = q.fs /\ p.more)
TurnInv ==
    /\ \A d \in Product : \A p \in d.files :
          p.lo <= p.hi /\ (p.fs < cur \/ (p.fs = cur /\ p.more))
    /\ Unmade => \A d \in Product : \A p \in d.files, q \in isofs.files :
          Precedes(p, q)
    /\ \A d, e \in Product : \A k \in d.labels, m \in e.labels :
          k < m => \A p \in d.files, q \in e.files : Precedes(p, q)

SetInv ==
    Promised => LabelInv /\ DirPieces /\ VolumePieces /\ Started /\ TurnInv

\* What the steps do to the volumes and to the directory while a set of
\* volumes is promised.
Quiet == UNCHANGED <<volno, final, cur, pos, isofs>> /\ Product' = Product
StartEffect == pc = "fs" /\ pc' \in {"weird", "copy"} /\ Quiet
FillEffect ==
    /\ pc = "copy" /\ pc' = "prepare" /\ ~final
    /\ volno' = volno + 1 /\ pos' = pos + capacity /\ capacity \in Nat
    /\ isofs'.files = isofs.files \cup
          {[fs |-> cur, lo |-> pos, hi |-> pos', more |-> FALSE]}
    /\ isofs'.labels = isofs.labels /\ isofs'.last = isofs.last
    /\ UNCHANGED <<final, cur>> /\ Product' = Product
DrainEffect ==
    /\ pc = "copy" /\ pc' = "fs" /\ ~final
    /\ cur' = cur + 1 /\ pos' = 0
    /\ isofs'.files = isofs.files \cup
          {[fs |-> cur, lo |-> pos, hi |-> sizes[cur], more |-> FALSE]}
    /\ isofs'.labels = isofs.labels /\ isofs'.last = isofs.last
    /\ UNCHANGED <<final, volno>> /\ Product' = Product
FinishEffect ==
    /\ pc = "fs" /\ pc' = "prepare" /\ ~final /\ final'
    /\ volno' = IF volno > 0 THEN volno + 1 ELSE volno
    /\ isofs'.files = isofs.files /\ isofs'.labels = isofs.labels /\ isofs'.last
    /\ UNCHANGED <<cur, pos>> /\ Product' = Product
PrepareEffect ==
    /\ pc = "prepare" /\ pc' = "image"
    /\ isofs'.files = IF final THEN isofs.files ELSE Rename(isofs.files)
    /\ isofs'.labels = isofs.labels \cup {volno} /\ isofs'.last = isofs.last
    /\ UNCHANGED <<volno, final, cur, pos>> /\ Product' = Product
ImageEffect ==
    /\ pc = "image" /\ pc' \in {"test", "return"}
    /\ pc' = "return" => final
    /\ UNCHANGED <<volno, final, cur, pos, isofs>>
    /\ Product' = Product \cup {Volume(isofs)}
BurnEffect ==
    /\ pc \in {"test", "blank", "burn"} /\ pc' \in {"blank", "burn", "save"}
    /\ Volume(isofs) \in Product /\ Quiet
SaveEffect ==
    /\ pc = "save" /\ pc' = "return" /\ Volume(isofs) \in Product
    /\ isofs' = IF volno > 0 THEN EmptyDir ELSE isofs
    /\ ~final => volno > 0
    /\ UNCHANGED <<volno, final, cur, pos>> /\ Product' = Product
ReturnEffect ==
    /\ pc = "return" /\ pc' = (IF final THEN "end" ELSE "copy")
    /\ ~final => volno > 0
    /\ Quiet
Effect == \/ StartEffect \/ FillEffect \/ DrainEffect \/ FinishEffect
          \/ PrepareEffect \/ ImageEffect \/ BurnEffect \/ SaveEffect
          \/ ReturnEffect \/ (UNCHANGED pc /\ Quiet)

\* The volumes the user has change in one step only: when an image is made.
LEMMA ProductChanges ==
    ASSUME BasicInv, DriveInv, KeepInv, [Next]_vars,
           accepted' = {}, Skip => volno' <= 1
    PROVE  /\ Image => Product' = Product \cup {Volume(isofs)}
           /\ ~Image => Product' = Product
<1>a. NoImage' = NoImage /\ BadImage' = BadImage /\ accepted = {} /\ ~ImageFails
  BY AcceptedGrows DEF NoImage, BadImage
<1>b. Product \subseteq Product'
  BY ProductGrows
<1>c. Volume(isofs) \notin {NoImage, BadImage}
  BY VolumeIsImage
<1>1. CASE Image
  <2>1. Moved /\ UNCHANGED saved
    BY <1>a, <1>1 DEF Image, KeepInv
  <2>2. Product = saved \cup burnt
    BY <2>1 DEF Product, Moved
  <2>3. CASE Grow
    <3>1. burnt' = burnt \cup {Volume(isofs)} /\ iso' = iso
      BY <1>1, <2>3 DEF Image
    <3>2. Images' \subseteq saved \cup burnt
      BY <1>a, <2>1, <3>1 DEF Images, Moved
    <3> QED
      BY <1>1, <2>1, <2>2, <3>1, <3>2 DEF Product
  <2>4. CASE ~Grow
    <3>1. iso' = Volume(isofs) /\ UNCHANGED burnt
      BY <1>1, <2>4 DEF Image
    <3>2. Images' = {Volume(isofs)}
      BY <1>a, <1>c, <3>1 DEF Images
    <3> QED
      BY <1>1, <2>1, <2>2, <3>1, <3>2 DEF Product
  <2> QED
    BY <2>3, <2>4
<1>2. CASE ~Image
  <2>1. Images' \subseteq Images
    BY <1>a, <1>2, ImagesChange DEF Images, BurnNOK, Save
  <2>2. saved' \subseteq saved \cup Images
    BY <1>2, ImagesChange DEF Images, BurnNOK, Save
  <2>3. burnt' \subseteq burnt \cup Images
    BY <1>2, ImagesChange DEF Images, BlankCdrw, BurnCdr
  <2> QED
    BY <1>b, <1>2, <2>1, <2>2, <2>3 DEF Product
<1> QED
  BY <1>1, <1>2

\* Every step has one of these effects.
LEMMA Effects ==
    ASSUME BasicInv, DriveInv, KeepInv, [Next]_vars, Promised'
    PROVE  Promised /\ Effect
<1>a. /\ accepted = {} /\ accepted' = {} /\ ~Overrun /\ ~ErrorExit /\ ~ImageFails
      /\ Skip' = Skip
  BY AcceptedGrows, ConfigStays DEF Promised, Skip
<1>b. volno \in Nat /\ volno' \in Nat /\ (Skip => volno' = 0) /\ (Skip => volno = 0)
  BY <1>a, VolnoGrows DEF Promised
<1>c. /\ Image => Product' = Product \cup {Volume(isofs)}
      /\ ~Image => Product' = Product
  BY <1>a, <1>b, ProductChanges
<1>d. isofs \in Dir /\ pos \in Nat
  BY DEF BasicInv, StoreType, ControlType
<1>e. pc # "prepare" => \A p \in isofs.files : p.fs = cur => p.more
  BY DEF BasicInv, DirInv
<1>f. pc \in {"test", "blank", "burn", "save"} => Volume(isofs) \in Product
  BY <1>a, VolumeIsImage DEF KeepInv, Product, Images
<1>g. /\ pc \in {"fs", "weird", "copy"} => ~final
      /\ pc \in Making /\ ~final => volno >= 1
      /\ pc = "copy" => capacity \in Nat
  BY DEF BasicInv, StreamInv
<1>1. CASE StartFs
  <2>1. ~Image
    BY <1>1 DEF StartFs, Image
  <2> QED
    BY <1>1, <1>a, <1>b, <1>c, <2>1 DEF StartFs, Effect, StartEffect, Quiet, Promised
<1>2. CASE Fill
  <2>1. /\ ~Image /\ pc = "copy" /\ pc' = "prepare" /\ volno' = volno + 1
        /\ pos' = pos + capacity /\ UNCHANGED <<final, cur>>
    BY <1>2 DEF Fill, Image
  <2>2. isofs' = [isofs EXCEPT !.files = Store(@, pos, pos + capacity),
                               !.kb = @ + capacity]
    BY <1>2 DEF Fill
  <2>3. isofs'.files = isofs.files \cup
           {[fs |-> cur, lo |-> pos, hi |-> pos', more |-> FALSE]}
    BY <1>d, <1>e, <2>1, <2>2, Stored DEF Dir
  <2>4. isofs'.labels = isofs.labels /\ isofs'.last = isofs.last
    BY <1>d, <2>2 DEF Dir
  <2> QED
    BY <1>a, <1>b, <1>c, <1>g, <2>1, <2>3, <2>4 DEF Effect, FillEffect, Promised
<1>3. CASE Drain
  <2>1. /\ ~Image /\ pc = "copy" /\ pc' = "fs" /\ cur' = cur + 1
        /\ pos' = 0 /\ UNCHANGED <<final, volno>>
    BY <1>3 DEF Drain, Image
  <2>2. isofs' = [isofs EXCEPT !.files = Store(@, pos, sizes[cur]),
                               !.logs = @ \cup {cur},
                               !.kb = @ + (sizes[cur] - pos) + LogKb]
    BY <1>3 DEF Drain
  <2>3. isofs'.files = isofs.files \cup
           {[fs |-> cur, lo |-> pos, hi |-> sizes[cur], more |-> FALSE]}
    BY <1>d, <1>e, <2>1, <2>2, Stored DEF Dir
  <2>4. isofs'.labels = isofs.labels /\ isofs'.last = isofs.last
    BY <1>d, <2>2 DEF Dir
  <2> QED
    BY <1>a, <1>b, <1>c, <1>g, <2>1, <2>3, <2>4 DEF Effect, DrainEffect, Promised
<1>4. CASE Finish
  <2>1. ~Image /\ isofs' = [isofs EXCEPT !.last = TRUE]
    BY <1>4 DEF Finish, Image
  <2>2. isofs'.files = isofs.files /\ isofs'.labels = isofs.labels /\ isofs'.last
    BY <1>d, <2>1 DEF Dir
  <2> QED
    BY <1>4, <1>a, <1>b, <1>c, <1>g, <2>1, <2>2
       DEF Finish, Effect, FinishEffect, Promised
<1>5. CASE Prepare
  <2>1. /\ ~Image /\ pc = "prepare" /\ pc' = "image"
        /\ UNCHANGED <<volno, final, cur, pos>>
    BY <1>5 DEF Prepare, Image
  <2>2. /\ isofs'.files = IF final THEN isofs.files ELSE Rename(isofs.files)
        /\ isofs'.labels = isofs.labels \cup {volno} /\ isofs'.last = isofs.last
    <3>1. CASE final
      BY <1>5, <1>d, <3>1 DEF Prepare, Dir
    <3>2. CASE ~final
      BY <1>5, <1>d, <3>2 DEF Prepare, Dir
    <3> QED
      BY <3>1, <3>2
  <2> QED
    BY <1>a, <1>b, <1>c, <2>1, <2>2 DEF Effect, PrepareEffect, Promised
<1>6. CASE Image
  <2>1. /\ pc = "image" /\ UNCHANGED <<volno, final, cur, pos, isofs>>
        /\ pc' = IF Skip THEN "return" ELSE "test"
    BY <1>6 DEF Image, AfterImage
  <2>2. pc' = "return" => final
    BY <1>b, <1>g, <2>1 DEF Making
  <2> QED
    BY <1>6, <1>a, <1>b, <1>c, <2>1, <2>2 DEF Effect, ImageEffect, Promised
<1>7. CASE MountTest \/ BlankCdrw \/ BurnCdr \/ BurnRetry \/ BurnNOK
  <2>1. /\ ~Image /\ UNCHANGED <<volno, final, cur, pos, isofs>>
        /\ pc \in {"test", "blank", "burn"} /\ pc' \in {"blank", "burn", "save"}
    BY <1>7 DEF MountTest, BlankCdrw, BurnCdr, BurnRetry, BurnNOK, AfterTest, Image
  <2> QED
    BY <1>a, <1>b, <1>c, <1>f, <2>1 DEF Effect, BurnEffect, Quiet, Promised
<1>8. CASE Save
  <2>1. /\ ~Image /\ pc = "save" /\ pc' = "return"
        /\ UNCHANGED <<volno, final, cur, pos>>
        /\ isofs' = IF volno > 0 THEN EmptyDir ELSE isofs
    BY <1>8 DEF Save, Image
  <2>2. ~final => volno > 0
    BY <1>b, <1>g, <2>1 DEF Making
  <2> QED
    BY <1>a, <1>b, <1>c, <1>f, <2>1, <2>2 DEF Effect, SaveEffect, Promised
<1>9. CASE Return
  <2>1. /\ ~Image /\ pc = "return" /\ pc' = (IF final THEN "end" ELSE "copy")
        /\ UNCHANGED <<volno, final, cur, pos, isofs>>
    BY <1>9 DEF Return, Image
  <2>2. ~final => volno > 0
    BY <1>b, <1>g, <2>1 DEF Making
  <2> QED
    BY <1>a, <1>b, <1>c, <2>1, <2>2 DEF Effect, ReturnEffect, Quiet, Promised
<1>10. CASE Abort
  BY <1>10 DEF Abort, Promised
<1>11. CASE UNCHANGED vars
  <2>1. UNCHANGED <<pc, volno, final, cur, pos, isofs>> /\ Product' = Product
    BY <1>11 DEF vars, Product, Images, NoImage, BadImage
  <2> QED
    BY <1>a, <1>b, <2>1 DEF Effect, Quiet, Promised
<1> QED
  BY <1>1, <1>2, <1>3, <1>4, <1>5, <1>6, <1>7, <1>8, <1>9, <1>10, <1>11, <1>a
     DEF Next, Steps, Terminated

\* The volumes are numbered in the order in which they are made.
LEMMA LabelStep ==
    ASSUME BasicInv, Promised, LabelInv, Effect
    PROVE  LabelInv'
<1>a. volno \in Nat /\ isofs \in Dir
  BY DEF BasicInv, ControlType, StoreType
<1>b. EmptyDir' = EmptyDir
  BY DEF EmptyDir
<1>c. \A k, m : {k} = {m} => k = m
  OBVIOUS
<1> USE <1>a DEF LabelInv
<1>1. CASE StartEffect
  <2>1. Numbers' = Numbers
    BY <1>1 DEF StartEffect, Quiet, Numbers, Unmade, LastMade
  <2> QED
    BY <1>1, <2>1 DEF StartEffect, Quiet, Unmade
<1>2. CASE FillEffect
  <2>1. Numbers' = Numbers
    BY <1>2 DEF FillEffect, Numbers, Unmade, LastMade
  <2> QED
    BY <1>2, <2>1 DEF FillEffect, Unmade
<1>3. CASE DrainEffect
  <2>1. Numbers' = Numbers
    BY <1>3 DEF DrainEffect, Numbers, Unmade, LastMade
  <2> QED
    BY <1>3, <2>1 DEF DrainEffect, Unmade
<1>4. CASE FinishEffect
  <2>1. Numbers = 1 .. volno /\ Numbers' = Numbers
    BY <1>4 DEF FinishEffect, Numbers, Unmade, LastMade
  <2>2. ASSUME NEW d \in Product
        PROVE  ~d.last /\ d.labels # {volno'}
    <3>1. ~d.last
      BY <1>4 DEF FinishEffect
    <3>2. PICK k \in Numbers : d.labels = {k}
      OBVIOUS
    <3>3. k \in 1 .. volno /\ volno' = volno + 1
      BY <1>4, <2>1 DEF FinishEffect
    <3>4. k # volno'
      BY <3>3
    <3> QED
      BY <1>c, <3>1, <3>2, <3>4, Zenon
  <2>3. /\ pc = "fs" /\ pc' = "prepare" /\ Product' = Product /\ final'
        /\ isofs'.labels = isofs.labels /\ isofs'.last
    BY <1>4 DEF FinishEffect
  <2>4. \A d \in Product' : d.last <=> final' /\ d.labels = {volno'}
    BY <2>2, <2>3
  <2>5. isofs'.labels = {}
    BY <2>3
  <2>6. /\ \A d \in Product' : \E k \in Numbers' : d.labels = {k}
        /\ \A k \in Numbers' : \E d \in Product' : d.labels = {k}
        /\ \A d, e \in Product' : d.labels = e.labels => d = e
    BY <2>1, <2>3, Zenon
  <2> QED
    BY <2>3, <2>4, <2>5, <2>6
<1>5. CASE PrepareEffect
  <2>1. Numbers' = Numbers
    BY <1>5 DEF PrepareEffect, Numbers, Unmade, LastMade
  <2> QED
    BY <1>5, <2>1 DEF PrepareEffect, Unmade
<1>6. CASE ImageEffect
  <2> DEFINE V == Volume(isofs)
  <2>1. /\ V.labels = {volno} /\ (V.last <=> final)
    BY <1>6 DEF ImageEffect, Volume, Unmade
  <2>2. /\ pc = "image" /\ pc' \in {"test", "return"} /\ (pc' = "return" => final)
        /\ UNCHANGED <<volno, final, isofs>> /\ Product' = Product \cup {V}
    BY <1>6 DEF ImageEffect
  <2>3. Numbers = 1 .. volno - 1
    BY <2>2 DEF Numbers, Unmade, LastMade
  <2>4. Numbers' = Numbers \cup {volno}
    BY <2>2, <2>3 DEF Numbers, Unmade, LastMade
  <2>5. \A d \in Product : d.labels # {volno} /\ ~d.last
    <3> SUFFICES ASSUME NEW d \in Product
                 PROVE  d.labels # {volno} /\ ~d.last
      OBVIOUS
    <3>1. PICK k \in 1 .. volno - 1 : d.labels = {k}
      BY <2>3
    <3>2. k # volno
      OBVIOUS
    <3> QED
      BY <1>c, <3>1, <3>2
  <2>6. /\ \A d \in Product' : \E k \in Numbers' : d.labels = {k}
        /\ \A k \in Numbers' : \E d \in Product' : d.labels = {k}
    BY <2>1, <2>2, <2>4
  <2>7. \A d, e \in Product' : d.labels = e.labels => d = e
    BY <2>1, <2>2, <2>5
  <2>8. \A d \in Product' : d.last <=> final' /\ d.labels = {volno'}
    BY <2>1, <2>2, <2>5
  <2>9. Volume(isofs)' \in Product'
    BY <2>2
  <2> QED
    BY <2>2, <2>6, <2>7, <2>8, <2>9 DEF Unmade
<1>7. CASE BurnEffect
  <2>1. Numbers' = Numbers
    BY <1>7 DEF BurnEffect, Quiet, Numbers, Unmade, LastMade
  <2> QED
    BY <1>7, <2>1 DEF BurnEffect, Quiet, Unmade
<1>8. CASE SaveEffect
  <2>1. Numbers' = Numbers
    BY <1>8 DEF SaveEffect, Numbers, Unmade, LastMade
  <2>2. isofs'.files = {} \/ Volume(isofs)' \in Product'
    BY <1>8 DEF SaveEffect, EmptyDir
  <2> QED
    BY <1>8, <1>b, <2>1, <2>2 DEF SaveEffect, Unmade
<1>9. CASE ReturnEffect
  <2>1. Numbers' = Numbers
    BY <1>9 DEF ReturnEffect, Quiet, Numbers, Unmade, LastMade
  <2>2. EmptyDir.labels = {} /\ EmptyDir.last = FALSE
    BY DEF EmptyDir
  <2> QED
    BY <1>9, <2>1, <2>2 DEF ReturnEffect, Quiet, Unmade
<1>10. CASE UNCHANGED pc /\ Quiet
  <2>1. Numbers' = Numbers
    BY <1>10 DEF Quiet, Numbers, Unmade, LastMade
  <2> QED
    BY <1>10, <1>b, <2>1 DEF Quiet, Unmade
<1> QED
  BY <1>1, <1>2, <1>3, <1>4, <1>5, <1>6, <1>7, <1>8, <1>9, <1>10 DEF Effect

\* The files in ${ISOFS_DIR} are one per stream, cut at most at the end.
LEMMA DirPiecesStep ==
    ASSUME BasicInv, KeepInv, Promised, DirPieces, Effect, sizes' = sizes
    PROVE  DirPieces'
<1>a. /\ volno \in Nat /\ pos \in Nat /\ cur \in Nat
      /\ \A p \in isofs.files : p \in PieceType /\ p.fs \in Nat /\ p.fs <= cur
      /\ final => \A p \in isofs.files : p.fs < cur
  BY DEF BasicInv, ControlType, StoreType, DirInv, Dir, PieceType
<1>b. pc = "copy" => \A p \in isofs.files : p.fs # cur
  BY DEF Promised, KeepInv
<1>1. CASE StartEffect \/ ReturnEffect \/ BurnEffect \/ (UNCHANGED pc /\ Quiet)
  <2>1. UNCHANGED <<isofs, cur, pos, final>>
    BY <1>1 DEF StartEffect, ReturnEffect, BurnEffect, Quiet
  <2>2. \/ pc = pc'
        \/ pc \notin {"prepare", "image", "test", "blank", "burn", "save"}
        \/ pc \in {"test", "blank", "burn"} /\ pc' \in {"blank", "burn", "save"}
    BY <1>1 DEF StartEffect, ReturnEffect, BurnEffect, Quiet
  <2> QED
    BY <2>1, <2>2 DEF DirPieces
<1>2. CASE FillEffect
  <2> DEFINE q == [fs |-> cur, lo |-> pos, hi |-> pos', more |-> FALSE]
  <2>1. /\ pc = "copy" /\ pc' = "prepare" /\ ~final /\ UNCHANGED <<final, cur>>
        /\ isofs'.files = isofs.files \cup {q}
    BY <1>2 DEF FillEffect
  <2>2. \A p \in isofs.files : ~p.more /\ p.hi = sizes[p.fs]
    BY <2>1 DEF DirPieces
  <2>3. q.fs = cur /\ q.more = FALSE /\ q.hi = pos'
    OBVIOUS
  <2> HIDE DEF q
  <2> QED
    BY <1>b, <2>1, <2>2, <2>3 DEF DirPieces
<1>3. CASE DrainEffect
  <2> DEFINE q == [fs |-> cur, lo |-> pos, hi |-> sizes[cur], more |-> FALSE]
  <2>1. /\ pc = "copy" /\ pc' = "fs" /\ isofs'.files = isofs.files \cup {q}
        /\ cur' = cur + 1
    BY <1>3 DEF DrainEffect
  <2>2. \A p \in isofs.files : ~p.more /\ p.hi = sizes[p.fs]
    BY <2>1 DEF DirPieces
  <2>3. q.fs = cur /\ q.more = FALSE /\ q.hi = sizes[cur]
    OBVIOUS
  <2> HIDE DEF q
  <2>4. \A p \in isofs'.files : p.fs # cur'
    BY <1>a, <2>1, <2>3
  <2> QED
    BY <1>a, <1>b, <2>1, <2>2, <2>3, <2>4, sizes' = sizes DEF DirPieces
<1>4. CASE FinishEffect
  <2>1. pc = "fs" /\ isofs'.files = isofs.files /\ UNCHANGED <<cur, pos>>
    BY <1>4 DEF FinishEffect
  <2> QED
    BY <2>1 DEF DirPieces
<1>5. CASE PrepareEffect
  <2>1. pc = "prepare" /\ pc' = "image" /\ UNCHANGED <<final, cur, pos>>
    BY <1>5 DEF PrepareEffect
  <2>2. CASE final
    BY <1>5, <2>1, <2>2 DEF PrepareEffect, DirPieces
  <2>3. CASE ~final
    <3>1. isofs'.files = Rename(isofs.files)
      BY <1>5, <2>3 DEF PrepareEffect
    <3>2. \A p \in isofs'.files :
             \/ p.fs # cur /\ p \in isofs.files
             \/ p.fs = cur /\ p.more /\ \E r \in isofs.files :
                    r.fs = cur /\ p = [r EXCEPT !.more = TRUE] /\ p.hi = r.hi
      BY <1>a, <3>1 DEF Rename, PieceType
    <3>3. \A p \in isofs.files : p.fs = cur => ~p.more
      BY <2>1, <2>3 DEF KeepInv, Promised
    <3>4. \A p \in isofs'.files :
             \/ ~p.more /\ p.hi = sizes[p.fs] /\ p.fs # cur
             \/ p.fs = cur /\ p.hi = pos /\ p.more
      <4> SUFFICES ASSUME NEW p \in isofs'.files
                   PROVE  \/ ~p.more /\ p.hi = sizes[p.fs] /\ p.fs # cur
                          \/ p.fs = cur /\ p.hi = pos /\ p.more
        OBVIOUS
      <4>1. CASE p.fs # cur
        BY <3>2, <4>1, <2>1 DEF DirPieces
      <4>2. CASE p.fs = cur
        <5>1. PICK r \in isofs.files : r.fs = cur /\ p.hi = r.hi /\ p.more
          BY <3>2, <4>2
        <5>2. r.hi = pos
          BY <5>1 DEF DirPieces
        <5> QED
          BY <4>2, <5>1, <5>2
      <4> QED
        BY <4>1, <4>2
    <3>5. \A p, q \in isofs'.files : p.fs = q.fs => p = q
      <4> SUFFICES ASSUME NEW p \in isofs'.files, NEW q \in isofs'.files,
                          p.fs = q.fs
                   PROVE  p = q
        OBVIOUS
      <4>1. CASE p.fs # cur
        BY <3>2, <4>1 DEF DirPieces
      <4>2. CASE p.fs = cur
        <5>1. PICK r \in isofs.files : r.fs = cur /\ p = [r EXCEPT !.more = TRUE]
          BY <3>2, <4>2
        <5>2. PICK t \in isofs.files : t.fs = cur /\ q = [t EXCEPT !.more = TRUE]
          BY <3>2, <4>2
        <5> QED
          BY <5>1, <5>2 DEF DirPieces
      <4> QED
        BY <4>1, <4>2
    <3> QED
      BY <2>1, <2>3, <3>4, <3>5 DEF DirPieces
  <2> QED
    BY <2>2, <2>3
<1>6. CASE ImageEffect
  <2>1. /\ pc = "image" /\ pc' \in {"test", "return"} /\ (pc' = "return" => final)
        /\ UNCHANGED <<final, cur, pos, isofs>>
    BY <1>6 DEF ImageEffect
  <2> QED
    BY <2>1 DEF DirPieces
<1>7. CASE SaveEffect
  <2>1. /\ pc = "save" /\ pc' = "return" /\ UNCHANGED <<final, cur, pos>>
        /\ ~final => volno > 0
        /\ isofs' = IF volno > 0 THEN EmptyDir ELSE isofs
    BY <1>7 DEF SaveEffect
  <2>2. CASE volno > 0
    BY <2>1, <2>2 DEF DirPieces, EmptyDir
  <2>3. CASE ~(volno > 0)
    BY <2>1, <2>3 DEF DirPieces
  <2> QED
    BY <2>2, <2>3
<1> QED
  BY <1>1, <1>2, <1>3, <1>4, <1>5, <1>6, <1>7 DEF Effect

\* A piece that goes on still does.
LEMMA ContinuedStep ==
    ASSUME BasicInv, KeepInv, Promised, LabelInv, Effect,
           NEW d \in Product, NEW p \in d.files, Continued(d, p)
    PROVE  Continued(d, p)'
<1>a. /\ volno \in Nat /\ pos \in Nat /\ isofs \in Dir
      /\ isofs.files \subseteq PieceType
  BY DEF BasicInv, ControlType, StoreType, Dir
<1>b. Product \subseteq Product'
  BY DEF Effect, StartEffect, FillEffect, DrainEffect, FinishEffect,
     PrepareEffect, ImageEffect, BurnEffect, SaveEffect, ReturnEffect, Quiet
<1>1. CASE \E e \in Product : \E q \in e.files :
          q.fs = p.fs /\ q.lo = p.hi /\ \E k \in d.labels : e.labels = {k + 1}
  BY <1>1, <1>b DEF Continued
<1>2. CASE /\ Unmade /\ LastMade \in d.labels
           /\ \E q \in isofs.files : q.fs = p.fs /\ q.lo = p.hi
  <2>1. PICK q \in isofs.files : q.fs = p.fs /\ q.lo = p.hi
    BY <1>2
  <2>2. SUFFICES ASSUME ~ImageEffect
                 PROVE  /\ Unmade' /\ LastMade' \in d.labels
                        /\ \E r \in isofs'.files : r.fs = q.fs /\ r.lo = q.lo
    <3>1. CASE ImageEffect
      <4> DEFINE V == Volume(isofs)
      <4>1. V \in Product' /\ V.labels = {volno} /\ V.files = isofs.files
        BY <3>1 DEF ImageEffect, Volume, LabelInv
      <4>2. volno - 1 \in d.labels /\ V.labels = {(volno - 1) + 1}
        BY <1>2, <1>a, <3>1, <4>1 DEF ImageEffect, LastMade
      <4> QED
        BY <2>1, <4>1, <4>2 DEF Continued
    <3>2. CASE ~ImageEffect
      BY <2>1, <2>2, <3>2 DEF Continued
    <3> QED
      BY <3>1, <3>2
  <2>3. CASE StartEffect \/ (UNCHANGED pc /\ Quiet)
    BY <1>2, <2>3 DEF StartEffect, Quiet, Unmade, LastMade
  <2>4. CASE FillEffect
    <3>1. q \in isofs'.files
      BY <2>4 DEF FillEffect
    <3> QED
      BY <1>2, <1>a, <2>4, <3>1 DEF FillEffect, Unmade, LastMade
  <2>5. CASE DrainEffect
    <3>1. q \in isofs'.files
      BY <2>5 DEF DrainEffect
    <3> QED
      BY <1>2, <1>a, <2>5, <3>1 DEF DrainEffect, Unmade, LastMade
  <2>6. CASE FinishEffect
    <3>1. volno > 0
      BY <1>a, <2>6 DEF FinishEffect, LabelInv, Numbers, Unmade, LastMade
    <3>2. LastMade' = LastMade
      BY <1>a, <2>6, <3>1 DEF FinishEffect, LastMade
    <3> QED
      BY <1>2, <2>6, <3>2 DEF FinishEffect, Unmade
  <2>7. CASE PrepareEffect
    <3>1. LastMade' = LastMade /\ Unmade'
      BY <2>7 DEF PrepareEffect, LastMade, Unmade
    <3>2. CASE final \/ q.fs # cur
      <4>1. q \in isofs'.files
        BY <2>7, <3>2 DEF PrepareEffect, Rename
      <4> QED
        BY <1>2, <3>1, <4>1
    <3>3. CASE ~final /\ q.fs = cur
      <4> DEFINE r == [q EXCEPT !.more = TRUE]
      <4>1. ~q.more
        BY <2>7, <3>3 DEF PrepareEffect, KeepInv, Promised
      <4>2. r \in isofs'.files
        BY <2>7, <3>3, <4>1 DEF PrepareEffect, Rename
      <4>3. r.fs = q.fs /\ r.lo = q.lo
        BY <1>a DEF PieceType
      <4> QED
        BY <1>2, <3>1, <4>2, <4>3
    <3> QED
      BY <3>2, <3>3
  <2>8. ~BurnEffect /\ ~SaveEffect /\ ~ReturnEffect
    BY <1>2 DEF BurnEffect, SaveEffect, ReturnEffect, Unmade
  <2> QED
    BY <2>2, <2>3, <2>4, <2>5, <2>6, <2>7, <2>8 DEF Effect
<1>3. CASE /\ p.fs = cur /\ p.hi = pos /\ ~final /\ LastMade \in d.labels
           /\ pc \notin {"fs", "weird", "prepare", "image"}
  <2>1. CASE FillEffect
    <3> DEFINE q == [fs |-> cur, lo |-> pos, hi |-> pos', more |-> FALSE]
    <3>1. q \in isofs'.files /\ q.fs = p.fs /\ q.lo = p.hi
      BY <1>3, <2>1 DEF FillEffect
    <3>2. LastMade' = LastMade /\ Unmade'
      BY <1>a, <2>1 DEF FillEffect, LastMade, Unmade
    <3> QED
      BY <1>3, <3>1, <3>2 DEF Continued
  <2>2. CASE DrainEffect
    <3> DEFINE q == [fs |-> cur, lo |-> pos, hi |-> sizes[cur], more |-> FALSE]
    <3>1. q \in isofs'.files /\ q.fs = p.fs /\ q.lo = p.hi
      BY <1>3, <2>2 DEF DrainEffect
    <3>2. LastMade' = LastMade /\ Unmade'
      BY <1>a, <2>2 DEF DrainEffect, LastMade, Unmade
    <3> QED
      BY <1>3, <3>1, <3>2 DEF Continued
  <2>3. CASE \/ BurnEffect \/ SaveEffect \/ ReturnEffect \/ (UNCHANGED pc /\ Quiet)
    <3>1. UNCHANGED <<cur, pos, final, volno>>
      BY <2>3 DEF BurnEffect, SaveEffect, ReturnEffect, Quiet
    <3>2. pc' \notin {"fs", "weird", "prepare", "image"}
      BY <1>3, <2>3 DEF BurnEffect, SaveEffect, ReturnEffect
    <3>3. LastMade' = LastMade
      BY <1>3, <3>1, <3>2 DEF LastMade
    <3> QED
      BY <1>3, <3>1, <3>2, <3>3 DEF Continued
  <2>4. ~StartEffect /\ ~FinishEffect /\ ~PrepareEffect /\ ~ImageEffect
    BY <1>3 DEF StartEffect, FinishEffect, PrepareEffect, ImageEffect
  <2> QED
    BY <2>1, <2>2, <2>3, <2>4 DEF Effect
<1> QED
  BY <1>1, <1>2, <1>3 DEF Continued

\* The volumes made so far, and the one that is made, are in order.
LEMMA VolumePiecesStep ==
    ASSUME BasicInv, KeepInv, Promised, LabelInv, DirPieces, VolumePieces,
           Effect, sizes' = sizes
    PROVE  VolumePieces'
<1> SUFFICES ASSUME NEW d \in Product'
             PROVE  /\ \A p, q \in d.files : p.fs = q.fs => p = q
                    /\ \A p \in d.files : IF p.more THEN Continued(d, p)'
                                          ELSE p.hi = sizes[p.fs]
  BY DEF VolumePieces
<1>1. CASE d \in Product
  BY <1>1, ContinuedStep DEF VolumePieces
<1>2. CASE d \notin Product
  <2>1. ImageEffect
    BY <1>2 DEF Effect, StartEffect, FillEffect, DrainEffect, FinishEffect,
       PrepareEffect, ImageEffect, BurnEffect, SaveEffect, ReturnEffect, Quiet
  <2>2. /\ d = Volume(isofs) /\ pc = "image" /\ UNCHANGED <<volno, final, cur, pos>>
        /\ pc' \in {"test", "return"} /\ (pc' = "return" => final)
    BY <1>2, <2>1 DEF ImageEffect
  <2>3. d.files = isofs.files /\ d.labels = {volno}
    BY <2>2 DEF Volume, LabelInv
  <2>4. LastMade' = volno
    BY <2>2 DEF LastMade
  <2>5. ASSUME NEW p \in d.files
        PROVE  IF p.more THEN Continued(d, p)' ELSE p.hi = sizes[p.fs]
    <3>1. CASE p.more
      <4>1. p.fs = cur /\ p.hi = pos /\ ~final
        BY <2>2, <2>3, <3>1 DEF DirPieces
      <4> QED
        BY <2>2, <2>3, <2>4, <3>1, <4>1 DEF Continued
    <3>2. CASE ~p.more
      BY <2>2, <2>3, <3>2 DEF DirPieces
    <3> QED
      BY <3>1, <3>2
  <2> QED
    BY <2>3, <2>5 DEF DirPieces
<1> QED
  BY <1>1, <1>2

\* The first piece of a stream is made when the stream is first cut or ends.
LEMMA StartedStep ==
    ASSUME BasicInv, DriveInv, KeepInv, [Next]_vars, Promised', Effect, Started
    PROVE  Started'
<1>a. /\ Len(sizes) \in Nat /\ pos \in Nat /\ cur \in Nat /\ sizes' = sizes
  BY SizeFacts, ConfigStays DEF BasicInv, ControlType
<1>b. accepted' = {} /\ (Skip => volno' <= 1)
  BY ConfigStays DEF Promised, Skip
<1> SUFFICES ASSUME NEW f \in 1 .. Len(sizes),
                    f < cur' \/ (f = cur' /\ (pc' \in Making \/ pos' > 0))
             PROVE  \E p \in Kept' : p.fs = f /\ p.lo = 0
  BY <1>a DEF Started, Making
<1>1. CASE f < cur \/ (f = cur /\ (pc \in Making \/ pos > 0))
  <2>1. PICK p \in Kept : p.fs = f /\ p.lo = 0
    BY <1>1 DEF Started
  <2> QED
    BY <1>b, <2>1, PieceStays DEF Same
<1>2. CASE FillEffect /\ pos = 0 /\ f = cur
  <2> DEFINE q == [fs |-> cur, lo |-> pos, hi |-> pos', more |-> FALSE]
  <2>1. q \in isofs'.files /\ q.fs = f /\ q.lo = 0
    BY <1>2 DEF FillEffect
  <2> QED
    BY <2>1 DEF Kept
<1>3. CASE DrainEffect /\ pos = 0 /\ f = cur
  <2> DEFINE q == [fs |-> cur, lo |-> pos, hi |-> sizes[cur], more |-> FALSE]
  <2>1. q \in isofs'.files /\ q.fs = f /\ q.lo = 0
    BY <1>3 DEF DrainEffect
  <2> QED
    BY <2>1 DEF Kept
<1>4. FinishEffect => f # cur'
  <2>1. final' => cur' > Len(sizes')
    BY BasicStep DEF BasicInv, StreamInv
  <2> QED
    BY <1>a, <2>1 DEF FinishEffect
<1> QED
  BY <1>1, <1>2, <1>3, <1>4, <1>a
     DEF Effect, StartEffect, FillEffect, DrainEffect, FinishEffect,
     PrepareEffect, ImageEffect, BurnEffect, SaveEffect, ReturnEffect, Quiet,
     Making

\* What is stored follows what is on the volumes, and volumes are made in turn.
LEMMA TurnStep ==
    ASSUME BasicInv, KeepInv, Promised, LabelInv, DirPieces, TurnInv, Effect
    PROVE  TurnInv'
<1>a. /\ volno \in Nat /\ pos \in Nat /\ cur \in Nat /\ isofs \in Dir
      /\ Product \subseteq Disc
      /\ \A p \in isofs.files : p \in PieceType /\ p.fs \in Nat /\ p.fs <= cur
                                  /\ p.lo <= p.hi
      /\ final => \A p \in isofs.files : p.fs < cur
  BY DEF BasicInv, ControlType, StoreType, DirInv, Dir, PieceType, Product, Images
<1>b. \A d \in Product : \A p \in d.files : p \in PieceType /\ p.fs \in Nat
  BY <1>a DEF Disc, PieceType
<1>c. /\ \A d \in Product : \A p \in d.files :
            p.lo <= p.hi /\ (p.fs < cur \/ (p.fs = cur /\ p.more))
      /\ \A d, e \in Product : \A k \in d.labels, m \in e.labels :
            k < m => \A p \in d.files, q \in e.files : Precedes(p, q)
  BY DEF TurnInv
<1>1. CASE FillEffect \/ DrainEffect
  <2>1. \A r \in isofs'.files : r \in isofs.files \/ r.fs = cur
    BY <1>1 DEF FillEffect, DrainEffect
  <2>2. /\ Unmade /\ Unmade' /\ Product' = Product
        /\ cur' = cur \/ cur' = cur + 1
    BY <1>1 DEF FillEffect, DrainEffect, Unmade
  <2>3. \A d \in Product : \A p \in d.files, r \in isofs'.files : Precedes(p, r)
    BY <1>c, <2>1, <2>2 DEF TurnInv, Precedes
  <2> QED
    BY <1>a, <1>b, <1>c, <2>2, <2>3 DEF TurnInv
<1>2. CASE PrepareEffect
  <2>1. Unmade /\ Product' = Product /\ UNCHANGED cur
    BY <1>2 DEF PrepareEffect, Unmade
  <2>2. \A r \in isofs'.files : \E q \in isofs.files : r.fs = q.fs
    BY <1>a, <1>2 DEF PrepareEffect, Rename, PieceType
  <2>3. \A d \in Product : \A p \in d.files, r \in isofs'.files : Precedes(p, r)
    BY <2>1, <2>2 DEF TurnInv, Precedes
  <2> QED
    BY <1>c, <2>1, <2>3 DEF TurnInv
<1>3. CASE ImageEffect
  <2> DEFINE V == Volume(isofs)
  <2>1. /\ pc = "image" /\ Unmade /\ ~Unmade' /\ UNCHANGED cur
        /\ Product' = Product \cup {V}
    BY <1>3 DEF ImageEffect, Unmade
  <2>2. V.files = isofs.files /\ V.labels = {volno}
    BY <2>1 DEF Volume, LabelInv
  <2>3. \A d \in Product : \A k \in d.labels : k \in Int /\ k < volno
    <3>1. Numbers = 1 .. volno - 1
      BY <2>1 DEF Numbers, LastMade
    <3>2. ASSUME NEW d \in Product, NEW k \in d.labels
          PROVE  k \in Int /\ k < volno
      <4>1. PICK m \in 1 .. volno - 1 : d.labels = {m}
        BY <3>1 DEF LabelInv
      <4> QED
        BY <1>a, <4>1
    <3> QED
      BY <3>2
  <2>4. \A p \in V.files : p.lo <= p.hi /\ (p.fs < cur \/ (p.fs = cur /\ p.more))
    BY <1>a, <2>1, <2>2 DEF BasicInv, DirInv
  <2>5. \A d \in Product : \A p \in d.files, q \in V.files : Precedes(p, q)
    BY <2>1, <2>2 DEF TurnInv
  <2>6. ASSUME NEW d \in Product', NEW e \in Product',
               NEW k \in d.labels, NEW m \in e.labels, k < m,
               NEW p \in d.files, NEW q \in e.files
        PROVE  Precedes(p, q)
    <3>1. CASE d \in Product /\ e \in Product
      BY <1>c, <2>6, <3>1
    <3>2. CASE d \in Product /\ e = V
      BY <2>5, <3>2
    <3>3. CASE d = V
      <4>1. k = volno /\ m \in Int /\ m <= volno
        BY <1>a, <2>1, <2>2, <2>3, <3>3
      <4> QED
        BY <1>a, <2>6, <4>1
    <3> QED
      BY <2>1, <3>1, <3>2, <3>3
  <2>7. \A d \in Product' : \A p \in d.files :
            p.lo <= p.hi /\ (p.fs < cur' \/ (p.fs = cur' /\ p.more))
    BY <1>c, <2>1, <2>4
  <2> QED
    BY <2>1, <2>6, <2>7 DEF TurnInv
<1>4. CASE Product' = Product /\ UNCHANGED cur /\ ~Unmade'
  BY <1>4, <1>c DEF TurnInv
<1>5. CASE Product' = Product /\ UNCHANGED cur /\ Unmade /\ isofs'.files = isofs.files
  BY <1>5, <1>c DEF TurnInv
<1>6. CASE ReturnEffect
  <2>1. Product' = Product /\ UNCHANGED <<cur, isofs>>
    BY <1>6 DEF ReturnEffect, Quiet
  <2>2. Unmade' => isofs'.files = {}
    BY <1>6, <2>1 DEF ReturnEffect, Unmade, LabelInv, EmptyDir
  <2> QED
    BY <1>c, <2>1, <2>2 DEF TurnInv
<1>7. \/ FillEffect \/ DrainEffect \/ PrepareEffect \/ ImageEffect \/ ReturnEffect
      \/ Product' = Product /\ UNCHANGED cur /\ ~Unmade'
      \/ Product' = Product /\ UNCHANGED cur /\ Unmade /\ isofs'.files = isofs.files
  BY DEF Effect, StartEffect, FinishEffect, BurnEffect, SaveEffect, Quiet, Unmade
<1> QED
  BY <1>1, <1>2, <1>3, <1>4, <1>5, <1>6, <1>7

\* The parts together are inductive.
LEMMA SetStep ==
    ASSUME BasicInv, DriveInv, KeepInv, SetInv, [Next]_vars
    PROVE  SetInv'
<1> SUFFICES ASSUME Promised'
             PROVE  (LabelInv /\ DirPieces /\ VolumePieces /\ Started /\ TurnInv)'
  BY DEF SetInv
<1>1. Promised /\ Effect /\ sizes' = sizes
  BY Effects, ConfigStays
<1>2. LabelInv /\ DirPieces /\ VolumePieces /\ Started /\ TurnInv
  BY <1>1 DEF SetInv
<1> QED
  BY <1>1, <1>2, LabelStep, DirPiecesStep, VolumePiecesStep, StartedStep, TurnStep

\* There are as many volumes as labels.
LEMMA LabelsCount ==
    ASSUME NEW n \in Nat, NEW media,
           \A d \in media : \E k \in 1 .. n : d.labels = {k},
           \A k \in 1 .. n : \E d \in media : d.labels = {k},
           \A d, e \in media : d.labels = e.labels => d = e
    PROVE  IsFiniteSet(media) /\ Cardinality(media) = n
<1> DEFINE F == [k \in 1 .. n |-> CHOOSE d \in media : d.labels = {k}]
<1>1. \A k \in 1 .. n : F[k] \in media /\ F[k].labels = {k}
  OBVIOUS
<1>2. \A k, m : {k} = {m} => k = m
  OBVIOUS
<1>3. F \in [1 .. n -> media]
  BY <1>1
<1> HIDE DEF F
<1>4. ASSUME NEW k \in 1 .. n, NEW m \in 1 .. n, F[k] = F[m]
      PROVE  k = m
  <2>1. {k} = {m}
    BY <1>1, <1>4
  <2> QED
    BY <1>2, <2>1
<1>5. ASSUME NEW d \in media
      PROVE  \E k \in 1 .. n : F[k] = d
  <2>1. PICK k \in 1 .. n : d.labels = {k}
    OBVIOUS
  <2>2. F[k] \in media /\ F[k].labels = d.labels
    BY <1>1, <2>1
  <2> QED
    BY <2>2
<1>6. F \in Bijection(1 .. n, media)
  BY <1>3, <1>4, <1>5, Fun_IsBij
<1>7. ExistsBijection(1 .. n, media)
  BY <1>6 DEF ExistsBijection
<1>8. IsFiniteSet(1 .. n) /\ Cardinality(1 .. n) = n
  BY FS_Interval
<1> QED
  BY <1>7, <1>8, FS_Bijection

\* When the script has ended, the invariants say that the set is well formed.
LEMMA SetAtEnd ==
    ASSUME BasicInv, SetInv, NothingLost,
           pc = "end", accepted = {}, Skip => volno <= 1
    PROVE  MediaType(Product, sizes) /\ WellFormed(Product, sizes)
<1>a. /\ volno \in Nat /\ final /\ cur > Len(sizes) /\ volno # 1
      /\ cur \in Nat /\ sizes \in Seq(Nat) /\ Len(sizes) \in Nat
  BY SizeFacts DEF BasicInv, StreamInv, ControlType
<1>b. LabelInv /\ VolumePieces /\ Started /\ TurnInv
  BY <1>a DEF SetInv, Promised
<1>c. ~Unmade /\ LastMade = volno
  BY DEF Unmade, LastMade
<1>1. Numbered(Product) /\ IsFiniteSet(Product)
  <2>1. CASE volno = 0
    <3>1. Numbers = {0}
      BY <1>c, <2>1 DEF Numbers
    <3>2. PICK d \in Product : d.labels = {0}
      BY <1>b, <3>1 DEF LabelInv
    <3>3. \A e \in Product : e = d
      BY <1>b, <3>1, <3>2 DEF LabelInv
    <3>4. d.last
      BY <1>a, <1>b, <2>1, <3>2 DEF LabelInv
    <3>5. Product = {d}
      BY <3>2, <3>3
    <3>6. IsFiniteSet({d})
      BY FS_Singleton
    <3>7. IsFiniteSet(Product)
      BY <3>5, <3>6
    <3> QED
      BY <3>2, <3>4, <3>5, <3>7 DEF Numbered
  <2>2. CASE volno > 1
    <3>1. Numbers = 1 .. volno
      BY <1>c, <2>2 DEF Numbers
    <3>2. IsFiniteSet(Product) /\ Cardinality(Product) = volno
      <4>1. /\ \A d \in Product : \E k \in 1 .. volno : d.labels = {k}
            /\ \A k \in 1 .. volno : \E d \in Product : d.labels = {k}
            /\ \A d, e \in Product : d.labels = e.labels => d = e
        BY <1>b, <3>1 DEF LabelInv
      <4> QED
        BY <1>a, <4>1, LabelsCount
    <3> QED
      BY <1>a, <1>b, <2>2, <3>1, <3>2 DEF LabelInv, Numbered
  <2> QED
    BY <1>a, <2>1, <2>2
<1>2. Kept = Pieces(Product)
  <2>1. isofs.files = {} \/ Volume(isofs) \in Product
    BY <1>b DEF LabelInv
  <2>2. Volume(isofs).files = isofs.files
    BY DEF Volume
  <2> QED
    BY <2>1, <2>2 DEF Kept, Pieces
<1>3. Chained(Product, sizes)
  <2> SUFFICES ASSUME NEW f \in 1 .. Len(sizes)
               PROVE
        /\ \A k \in 1 .. sizes[f] : Holds(Pieces(Product), f, k)
        /\ \E d \in Product : \E p \in d.files : p.fs = f /\ p.lo = 0
        /\ \A d \in Product : \A p, q \in d.files :
               p.fs = f /\ q.fs = f => p = q
        /\ \A d \in Product : \A p \in d.files :
               p.fs = f =>
                  /\ p.lo <= p.hi
                  /\ IF p.more
                     THEN \E e \in Product : \E q \in e.files :
                             /\ q.fs = f /\ q.lo = p.hi
                             /\ \E k \in d.labels : e.labels = {k + 1}
                     ELSE p.hi = sizes[f]
    <3>1. DOMAIN sizes = 1 .. Len(sizes)
      BY <1>a
    <3> QED
      BY <3>1 DEF Chained
  <2>1. f < cur /\ Written(f) = sizes[f]
    BY <1>a DEF Written
  <2>2. \A k \in 1 .. sizes[f] : Holds(Pieces(Product), f, k)
    BY <1>2, <2>1 DEF NothingLost, Kept
  <2>3. \E d \in Product : \E p \in d.files : p.fs = f /\ p.lo = 0
    BY <1>2, <1>b, <2>1 DEF Started, Pieces
  <2>4. \A d \in Product : \A p, q \in d.files : p.fs = f /\ q.fs = f => p = q
    BY <1>b DEF VolumePieces
  <2>5. ASSUME NEW d \in Product, NEW p \in d.files, p.fs = f
        PROVE  /\ p.lo <= p.hi
               /\ IF p.more
                  THEN \E e \in Product : \E q \in e.files :
                          /\ q.fs = f /\ q.lo = p.hi
                          /\ \E k \in d.labels : e.labels = {k + 1}
                  ELSE p.hi = sizes[f]
    <3>1. IF p.more THEN Continued(d, p) ELSE p.hi = sizes[f]
      BY <1>b, <2>5 DEF VolumePieces
    <3> QED
      BY <1>a, <1>b, <1>c, <2>5, <3>1 DEF Continued, TurnInv
  <2> QED
    BY <2>2, <2>3, <2>4, <2>5
<1>4. InTurn(Product)
  BY <1>b DEF TurnInv, InTurn, Precedes
<1>5. MediaType(Product, sizes)
  <2>1. \A d \in Product : d \in Disc
    BY DEF Product, Images, BasicInv, StoreType
  <2>2. \A d \in Product : /\ d.labels \subseteq Nat /\ d.last \in BOOLEAN
                          /\ d.files \subseteq PieceType
    BY <2>1 DEF Disc
  <2> QED
    BY <1>1, <1>a, <2>2 DEF MediaType, PieceType
<1> QED
  BY <1>1, <1>3, <1>4, <1>5 DEF WellFormed

\* All of it together.
BackupInv == BasicInv /\ DriveInv /\ KeepInv /\ NothingLost /\ SetInv

\* The backup starts with empty media and nothing written.
LEMMA BackupInit == Init => BackupInv
<1> SUFFICES ASSUME Init
             PROVE  SetInv
  BY InitKept DEF BackupInv
<1>1. Product = {} /\ isofs.files = {} /\ isofs.labels = {} /\ ~isofs.last
  BY DEF Init, Product, Images
<1>2. pc = "fs" /\ volno = 0 /\ ~final /\ cur = 1 /\ pos = 0
  BY DEF Init
<1>3. Numbers = {}
  BY <1>2 DEF Numbers, Unmade, LastMade
<1>4. LabelInv
  BY <1>1, <1>2, <1>3 DEF LabelInv
<1>5. DirPieces /\ VolumePieces
  BY <1>1 DEF DirPieces, VolumePieces
<1>6. Started
  <2>1. Len(sizes) \in Nat
    BY BasicInit, SizeFacts DEF BasicInv
  <2> QED
    BY <1>2, <2>1 DEF Started, Making
<1>7. TurnInv
  BY <1>1 DEF TurnInv
<1> QED
  BY <1>4, <1>5, <1>6, <1>7 DEF SetInv

\* Every step of the backup keeps the invariant.
LEMMA BackupNext == BackupInv /\ [Next]_vars => BackupInv'
  BY BasicStep, DriveStep, KeepStep, NothingLostStep, SetStep DEF BackupInv

\* A backup that ends without a warning leaves a set that can be restored:
\* the volumes are labelled 1, 2, ..., LAST_CD is on the last one only, and
\* every stream is a chain of files on consecutive volumes in its turn, for
\* every capacity of the medium and all sizes, with any burn failures on the
\* way.
THEOREM SetIsRestorable == Spec => []RestorableSet
<1>1. BackupInv => RestorableSet
  BY SetAtEnd DEF BackupInv, RestorableSet
<1> QED
  BY <1>1, BackupInit, BackupNext, PTL DEF Spec

-----------------------------------------------------------------------------
(* Backup and restore *)

P == INSTANCE RestoreProofs WITH
        Sets <- {}, Restarts <- {"reboot"}, MaxRestarts <- 1, volno <- wanted

\* The disks are named in the order in which their file systems were backed up.
DisksInOrder == \A f, g \in 1 .. Len(sizes) : f < g => disk[f] <= disk[g]

\* The restore has not begun.
Idle ==
    /\ fs = 0 /\ wanted = 0 /\ suffix = FALSE
    /\ tmpMore = 0 /\ tmpRestore = R!NoFile
    /\ out = <<>> /\ restored = <<>> /\ restarts = <<>>

\* The backup's invariant, and then the restore's.
RecoveryInv ==
    /\ BackupInv /\ ~Skip
    /\ DisksInOrder /\ disk \in [1 .. Len(sizes) -> Nat]
    /\ rpc = "idle" => Idle
    /\ rpc # "idle" => P!OrderedInv /\ P!Turns

\* The restore of module Restore, with the discs that the backup left.
LEMMA RestoreConstants == P!RestoreAssumption
  BY RecoveryAssumption DEF P!RestoreAssumption

\* What is in the drive after the disaster is what the restore expects there.
LEMMA BootDisc ==
    P!MediaOK /\ cdrom \in discs /\ cdrom.labels \in {{0}, {1}} => cdrom = P!FirstDisc
  BY RestoreConstants, P!OneFirstDisc

\* Recovery's restore takes the steps that the proofs about the restore are about.
LEMMA SameRestore == R!Next => P!Next
<1>1. R!NextFs => P!NextFs
  BY DEF R!NextFs, P!NextFs, R!Label, P!Label, R!media, P!media, R!tmp, P!tmp
<1>2. R!Look => P!Look
  BY DEF R!Look, P!Look, R!Found, P!Found, R!Files, P!Files, R!Reader,
     P!Reader, R!media, P!media, R!tmp, P!tmp
<1>3. R!Swap => P!Swap
  BY DEF R!Swap, P!Swap, R!Labelled, P!Labelled, R!media, P!media, R!tmp,
     P!tmp
<1>4. R!Cat => P!Cat
  BY DEF R!Cat, P!Cat, R!Found, P!Found, R!Files, P!Files, R!media, P!media,
     R!tmp, P!tmp
<1>5. R!CatFails => P!CatFails
  BY DEF R!CatFails, P!CatFails, R!Found, P!Found, R!Files, P!Files, R!media,
     P!media, R!tmp, P!tmp
<1>6. R!Paste => P!Paste
  BY DEF R!Paste, P!Paste, R!Named, P!Named, R!Files, P!Files, R!media,
     P!media, R!tmp, P!tmp
<1>7. R!AskForCd => P!AskForCd
  BY DEF R!AskForCd, P!AskForCd, R!Label, P!Label, R!media, P!media, R!tmp,
     P!tmp
<1>8. R!Insert => P!Insert
  BY DEF R!Insert, P!Insert, R!Labelled, P!Labelled, R!Files, P!Files,
     R!Reader, P!Reader, R!media, P!media, R!tmp, P!tmp
<1>9. R!FsDone => P!FsDone
  BY DEF R!FsDone, P!FsDone, R!media, P!media, R!tmp, P!tmp
<1>10. R!Finish => P!Finish
  BY DEF R!Finish, P!Finish, R!media, P!media, R!tmp, P!tmp
<1>11. R!InsertOther => P!InsertOther
  BY DEF R!InsertOther, P!InsertOther, R!Labelled, P!Labelled, R!media,
     P!media, R!tmp, P!tmp
<1>12. R!Restart => P!Restart
  BY DEF R!Restart, P!Restart, R!FirstDisc, P!FirstDisc, R!RestoreOrder,
     P!RestoreOrder, R!NoFile, P!NoFile, R!media, P!media, R!tmp, P!tmp
<1>13. R!Terminated => P!Terminated
  BY DEF R!Terminated, P!Terminated, R!vars, P!vars
<1> QED
  BY <1>1, <1>2, <1>3, <1>4, <1>5, <1>6, <1>7, <1>8, <1>9, <1>10, <1>11, <1>12, <1>13
  DEF R!Next, P!Next, R!Steps, P!Steps

\* Before the disaster the backup is at its beginning.
LEMMA RecoveryInit == RInit /\ DisksInOrder /\ ~Skip => RecoveryInv
<1> SUFFICES ASSUME RInit, DisksInOrder, ~Skip
             PROVE  RecoveryInv
  OBVIOUS
<1>1. BackupInv
  BY BackupInit DEF RInit
<1>2. disk \in [1 .. Len(sizes) -> Nat]
  BY RecoveryAssumption DEF RInit
<1>3. Idle /\ rpc = "idle"
  BY DEF RInit, Idle
<1> QED
  BY <1>1, <1>2, <1>3 DEF RecoveryInv

\* The set that the backup has left is one that the restore can read.
LEMMA DisasterIsReady ==
    ASSUME RecoveryInv, Disaster
    PROVE  P!Ready'
<1>1. /\ rpc = "idle" /\ pc = "end" /\ accepted = {} /\ BackupInv /\ ~Skip /\ Idle
      /\ disk \in [1 .. Len(sizes) -> Nat]
  BY DEF Disaster, RecoveryInv
<1>2. MediaType(Product, sizes) /\ WellFormed(Product, sizes)
  BY <1>1, SetAtEnd DEF BackupInv
<1>3. /\ discs' = Product /\ sizes' = sizes /\ disk' = disk /\ rpc' = "next"
      /\ todo' = R!RestoreOrder(Len(sizes), disk)
      /\ cdrom' \in discs' /\ cdrom'.labels \in {{0}, {1}}
      /\ UNCHANGED <<fs, wanted, suffix, tmpMore, tmpRestore, out, restored, restarts>>
  BY DEF Disaster, vars
<1>4. P!MediaOK'
  <2>1. P!MediaType(Product, sizes)
    BY <1>2 DEF MediaType, P!MediaType, IsFiniteSet, P!IsFiniteSet
  <2>2. P!Numbered(Product)
    <3>1. Cardinality(Product) = P!Cardinality(Product)
      BY DEF Cardinality, P!Cardinality
    <3> QED
      BY <1>2, <3>1 DEF WellFormed, Numbered, P!Numbered
  <2>3. P!Chained(Product, sizes)
    BY <1>2 DEF WellFormed, Chained, P!Chained, Holds, P!Holds, Pieces, P!Pieces
  <2>4. P!InTurn(Product)
    BY <1>2 DEF WellFormed, InTurn, P!InTurn
  <2> QED
    BY <1>3, <2>1, <2>2, <2>3, <2>4 DEF P!MediaOK, P!WellFormed
<1>5. cdrom' = P!FirstDisc'
  <2>1. (P!MediaOK /\ cdrom \in discs /\ cdrom.labels \in {{0}, {1}}
            => cdrom = P!FirstDisc)'
    BY BootDisc, PTL
  <2> QED
    BY <1>3, <1>4, <2>1
<1>6. todo' = P!RestoreOrder(Len(sizes'), disk')
  BY <1>3 DEF P!RestoreOrder, R!RestoreOrder
<1>7. tmpRestore' = P!NoFile
  BY <1>1, <1>3 DEF Idle, P!NoFile, R!NoFile
<1> QED
  BY <1>1, <1>3, <1>4, <1>5, <1>6, <1>7 DEF P!Ready, Idle

\* A step of the restore from a well-formed set.
LEMMA RestoreGoesOn ==
    P!OrderedInv /\ P!Turns /\ [P!Next]_(P!vars) => P!OrderedInv' /\ P!Turns'
  BY RestoreConstants, P!OrderedNext, P!TurnsNext

\* It begins in order.
LEMMA RestoreBegins == P!Ready => P!OrderedInv /\ P!Turns
<1>1. P!Ready => P!OrderedInv
  BY RestoreConstants, P!OrderedInit
<1>2. P!Ready => P!Turns
  BY DEF P!Ready, P!Turns
<1> QED
  BY <1>1, <1>2

\* The backup, the disaster and the restore keep the invariant.
LEMMA RecoveryNext == RecoveryInv /\ [RNext]_<<vars, rvars>> => RecoveryInv'
<1> SUFFICES ASSUME RecoveryInv, [RNext]_<<vars, rvars>>
             PROVE  RecoveryInv'
  OBVIOUS
<1>1. [Next]_vars
  BY DEF RNext, BackupStep, Disaster, RestoreStep
<1>2. BackupInv' /\ UNCHANGED <<sizes, conf>>
  BY <1>1, BackupNext, ConfigStays DEF RecoveryInv
<1>3. UNCHANGED disk
  <2>1. R!Next => UNCHANGED disk
    BY DEF R!Next, R!Steps, R!NextFs, R!Look, R!Swap, R!Cat, R!CatFails, R!Paste,
       R!AskForCd, R!Insert, R!FsDone, R!Finish, R!InsertOther, R!Restart,
       R!Terminated, R!media, R!vars
  <2> QED
    BY <2>1 DEF RNext, BackupStep, Disaster, RestoreStep, rvars
<1>4. ~Skip' /\ DisksInOrder' /\ (disk \in [1 .. Len(sizes) -> Nat])'
  BY <1>2, <1>3 DEF RecoveryInv, Skip, DisksInOrder
<1>5. CASE BackupStep
  <2>1. rpc = "idle" /\ rpc' = "idle" /\ Idle /\ Idle'
    BY <1>5 DEF BackupStep, rvars, RecoveryInv, Idle, R!NoFile
  <2> QED
    BY <1>2, <1>4, <2>1 DEF RecoveryInv
<1>6. CASE Disaster
  <2>1. P!Ready' /\ rpc' = "next"
    BY <1>6, DisasterIsReady DEF Disaster
  <2>2. (P!Ready => P!OrderedInv /\ P!Turns)'
    BY RestoreBegins, PTL
  <2> QED
    BY <1>2, <1>4, <2>1, <2>2 DEF RecoveryInv
<1>7. CASE RestoreStep
  <2>1. rpc # "idle" /\ [P!Next]_(P!vars)
    BY <1>7, SameRestore DEF RestoreStep
  <2>2. P!OrderedInv' /\ P!Turns'
    BY <2>1, RestoreGoesOn DEF RecoveryInv
  <2>3. rpc' # "idle"
    BY <2>2 DEF P!OrderedInv, P!BaseInv, P!Streaming
  <2> QED
    BY <1>2, <1>4, <2>2, <2>3 DEF RecoveryInv
<1>8. CASE UNCHANGED <<vars, rvars>>
  <2>1. UNCHANGED P!vars /\ rpc' = rpc
    BY <1>8 DEF vars, rvars, P!vars
  <2>2. rpc # "idle" => P!OrderedInv' /\ P!Turns'
    BY <2>1, RestoreGoesOn DEF RecoveryInv
  <2>3. rpc = "idle" => Idle'
    BY <1>8 DEF rvars, RecoveryInv, Idle, R!NoFile
  <2> QED
    BY <1>2, <1>4, <2>1, <2>2, <2>3 DEF RecoveryInv
<1> QED
  BY <1>5, <1>6, <1>7, <1>8 DEF RNext

\* Disaster recovery: whatever the sizes of the file systems and of the medium,
\* wherever the backup was cut, whichever volumes were burnt again or kept as
\* images, whichever wrong discs were tried and with a restore begun again
\* after a reboot, a restore that ends has given every file system back to tar,
\* each from its first byte to its last, after a backup that ended without a
\* warning.  The disks are to be named in the order of To_Backup (the order in
\* which the discs have their files) and DVDs not written directly.
THEOREM DataComesBack == RSpec /\ DisksInOrder /\ ~Skip => []DataSurvives
<1>1. RecoveryInv => DataSurvives
  <2> SUFFICES ASSUME RecoveryInv, rpc = "end"
               PROVE  /\ Len(restored) = Len(sizes)
                      /\ \A f \in 1 .. Len(sizes) :
                            restored[f].fs = f /\ R!Whole(restored[f].out, sizes[f])
    BY DEF DataSurvives
  <2>1. P!OrderedInv /\ P!Turns /\ DisksInOrder
    BY DEF RecoveryInv
  <2>2. P!InOrder
    <3>1. restarts \in Seq({"reboot"})
      BY <2>1 DEF P!OrderedInv, P!BaseInv
    <3>2. \A j \in 1 .. Len(restarts) : restarts[j] = "reboot"
      BY <3>1
    <3> QED
      BY <2>1, <3>2 DEF P!InOrder, DisksInOrder
  <2>3. /\ Len(restored) = Len(sizes)
        /\ \A f \in 1 .. Len(sizes) :
              restored[f].fs = f /\ P!Whole(restored[f].out, sizes[f])
    BY <2>1, <2>2, RestoreConstants, P!WholeAtEnd
  <2> QED
    BY <2>3 DEF P!Whole, R!Whole
<1> QED
  BY <1>1, RecoveryInit, RecoveryNext, PTL DEF RSpec
=============================================================================
