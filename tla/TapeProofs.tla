----------------------------- MODULE TapeProofs -----------------------------
(***************************************************************************)
(* What tar-it.sh writes to a tape and what start-restore.sh and           *)
(* restore-fs.sh read from it, for every To_Backup, every tape and any     *)
(* number of restores.  An archive has no name on a tape, so the argument  *)
(* is about positions: the archives follow one another from a place that   *)
(* only the way the tape was chosen decides, and as long as no read breaks *)
(* off, the head is where the next file system of the script expects it.   *)
(***************************************************************************)
EXTENDS Tape, FiniteSetTheorems, FunctionTheorems, TLAPS

Chosen == {"select", "header", "image", "root"}
Loaded == {"idle", "ask", "read"}

\* The k-th archive, or as much of it as there was room for.
ArchiveOf(k) == {Archive(k)} \cup (IF full = "no" THEN {} ELSE {File("fs", k, FALSE)})

\* The tape files from + 1 .. n are the archives that are written, and what is
\* in front of them is what the way the tape was chosen says.
Recorded(from, n) ==
    /\ from \in 0 .. n
    /\ n - from <= cur - 1
    /\ full # "end" => n - from = cur - 1
    /\ \A k \in 1 .. n - from : tape[from + k] \in ArchiveOf(k)
    /\ mode # "menu" => from = Ahead
    /\ mode = "menu" => \A k \in 1 .. from : tape[k].kind = "old"
    /\ mode = "OBDR" => tape[3] = File("root", 0, TRUE)

\* What the scripts of the backup have written so far.
WriteInv ==
    /\ pc \in Chosen => cur = 1
    /\ cur = 1 => full = "no"
    /\ pc = "select" => \A k \in 1 .. Len(tape) : tape[k].kind = "old"
    /\ pc \in {"header", "image", "root"} => mode = "OBDR"
    /\ pc = "image" => Len(tape) = 1 /\ at = 1
    /\ pc = "root" => Len(tape) = 2 /\ at = 2
    /\ pc = "write" =>
          /\ \E from \in 0 .. at : Recorded(from, at)
          /\ cur > 1 => at = Len(tape)
    /\ BackedUp =>
          /\ cur = Len(layout) + 1
          /\ \E from \in 0 .. Len(tape) : Recorded(from, Len(tape))

\* Where the scripts of the rescue system are.
PlaceInv ==
    /\ pc \notin Loaded => restored = <<>> /\ plan = <<>>
    /\ RootImage
    /\ pc = "ask" => at = Ahead /\ ~inside /\ restored = <<>>
    /\ script = "start-restore.sh" => FSF = 0
    /\ script = "restore-fs.sh" /\ Len(plan) > 0 =>
          Len(plan) = 1 /\ FSF = plan[1] - 1
    /\ pc = "read" => script # "none"
    /\ pc = "read" /\ Unbroken(Len(restored) + 1) =>
          /\ ~inside
          /\ at = Forward(Ahead, FSF + Len(restored))
    /\ RightArchive

TapeInv == TypeOK /\ WriteInv /\ PlaceInv

-----------------------------------------------------------------------------

\* What is on the tape after one more file is written to it.
LEMMA WrittenFacts ==
    ASSUME tape \in Seq(Files), at \in 0 .. Len(tape), NEW file \in Files
    PROVE  /\ Written(file) \in Seq(Files) /\ Len(Written(file)) = at + 1
           /\ \A k \in 1 .. at : Written(file)[k] = tape[k]
           /\ Written(file)[at + 1] = file
<1> DEFINE s == SubSeq(tape, 1, at)
<1>1. s \in Seq(Files) /\ Len(s) = at /\ \A k \in 1 .. at : s[k] = tape[k]
  OBVIOUS
<1> HIDE DEF s
<1>2. Append(s, file) \in Seq(Files) /\ Len(Append(s, file)) = at + 1
  BY <1>1
<1>3. /\ \A k \in 1 .. at : Append(s, file)[k] = tape[k]
      /\ Append(s, file)[at + 1] = file
  BY <1>1
<1> QED
  BY <1>2, <1>3 DEF Written, s

\* mt fsf stays on the recorded tape.
LEMMA ForwardFacts ==
    ASSUME tape \in Seq(Files), NEW a \in Nat, NEW n \in Nat
    PROVE  /\ Forward(a, n) \in 0 .. Len(tape)
           /\ Forward(a, n) <= a + n
           /\ a \in 0 .. Len(tape) => Forward(a, 0) = a
<1>1. Len(tape) \in Nat
  OBVIOUS
<1> QED
  BY <1>1 DEF Forward

\* Everything that is put on a tape is a tape file.
LEMMA FileTypes ==
    ASSUME layout \in Seq(Nat)
    PROVE  /\ \A kind \in {"old", "header", "iso", "root", "fs", "nothing"} :
                 \A f \in 0 .. Len(layout), w \in BOOLEAN : File(kind, f, w) \in Files
           /\ Nothing \in Files
<1>1. Len(layout) \in Nat
  OBVIOUS
<1>2. 0 \in 0 .. Len(layout)
  BY <1>1
<1>3. \A kind \in {"old", "header", "iso", "root", "fs", "nothing"} :
         \A f \in 0 .. Len(layout), w \in BOOLEAN : File(kind, f, w) \in Files
  BY DEF File, Files
<1> QED
  BY <1>2, <1>3 DEF Nothing

\* start-restore.sh goes over file systems of To_Restore only, and over no
\* more than there are: the number of those in front of a file system is its
\* own, so that every place of the plan is taken.
LEMMA PlanType ==
    ASSUME layout \in Seq(Nat), NEW hidden
    PROVE  PlanOf(hidden) \in Seq(1 .. Len(layout))
<1> DEFINE S == {f \in 1 .. Len(layout) : layout[f] \notin hidden}
           Before(f, g) == layout[f] < layout[g] \/ (layout[f] = layout[g] /\ f < g)
           Front(f) == {g \in S : Before(g, f)}
           n == Cardinality(S)
           rank == [f \in S |-> Cardinality(Front(f))]
<1>1. S \in SUBSET (1 .. Len(layout)) /\ Len(layout) \in Nat
  OBVIOUS
<1>2. IsFiniteSet(S) /\ n \in Nat
  <2> HIDE DEF S
  <2>1. IsFiniteSet(1 .. Len(layout))
    BY <1>1, FS_Interval
  <2>2. IsFiniteSet(S)
    BY <1>1, <2>1, FS_Subset
  <2> QED
    BY <2>2, FS_CardinalityType
<1>3. \A f \in S : f \in Nat /\ layout[f] \in Nat
  OBVIOUS
<1>4. \A f \in S : /\ Front(f) \in SUBSET S /\ f \notin Front(f)
                   /\ IsFiniteSet(Front(f))
                   /\ Cardinality(Front(f)) \in 0 .. n - 1
  <2> SUFFICES ASSUME NEW f \in S
               PROVE  /\ Front(f) \in SUBSET S /\ f \notin Front(f)
                      /\ IsFiniteSet(Front(f))
                      /\ Cardinality(Front(f)) \in 0 .. n - 1
    OBVIOUS
  <2>1. Front(f) \in SUBSET S /\ f \notin Front(f)
    BY <1>3
  <2> HIDE DEF S, Front
  <2>2. IsFiniteSet(Front(f)) /\ Cardinality(Front(f)) <= n
    BY <1>2, <2>1, FS_Subset
  <2>3. Cardinality(Front(f)) # n
    BY <1>2, <2>1, FS_Subset
  <2>4. Cardinality(Front(f)) \in Nat
    BY <2>2, FS_CardinalityType
  <2> QED
    BY <1>2, <2>1, <2>2, <2>3, <2>4
<1>5. \A f, g \in S : f # g => Before(f, g) \/ Before(g, f)
  BY <1>3
<1>6. ASSUME NEW f \in S, NEW g \in S, Before(f, g)
      PROVE  Cardinality(Front(f)) < Cardinality(Front(g))
  <2>1. Front(f) \in SUBSET Front(g) /\ f \in Front(g)
    BY <1>3, <1>6
  <2>2. IsFiniteSet(Front(f)) /\ IsFiniteSet(Front(g)) /\ f \notin Front(f)
    BY <1>4
  <2> HIDE DEF S, Front
  <2>3. Cardinality(Front(f)) \in Nat /\ Cardinality(Front(g)) \in Nat
    BY <2>2, FS_CardinalityType
  <2>4. /\ Cardinality(Front(f)) <= Cardinality(Front(g))
        /\ Cardinality(Front(f)) # Cardinality(Front(g))
    BY <2>1, <2>2, FS_Subset
  <2> QED
    BY <2>3, <2>4
<1>7. rank \in Injection(S, 0 .. n - 1)
  <2>1. rank \in [S -> 0 .. n - 1]
    BY <1>4
  <2>2. ASSUME NEW f \in S, NEW g \in S, rank[f] = rank[g], f # g
        PROVE  FALSE
    <3>1. /\ Cardinality(Front(f)) \in 0 .. n - 1
          /\ Cardinality(Front(f)) = Cardinality(Front(g))
      BY <1>4, <2>2
    <3>2. Before(f, g) \/ Before(g, f)
      BY <1>5, <2>2
    <3> HIDE DEF S, Front, Before
    <3> QED
      BY <1>2, <1>6, <3>1, <3>2
  <2> HIDE DEF S, rank
  <2> QED
    BY <2>1, <2>2 DEF Injection, IsInjective
<1>8. IsFiniteSet(0 .. n - 1) /\ Cardinality(0 .. n - 1) = n
  <2> HIDE DEF S
  <2>1. 0 \in Int /\ n - 1 \in Int
    BY <1>2
  <2>2. /\ IsFiniteSet(0 .. n - 1)
        /\ Cardinality(0 .. n - 1) = IF 0 > n - 1 THEN 0 ELSE (n - 1) - 0 + 1
    BY <2>1, FS_Interval
  <2> QED
    BY <1>2, <2>2
<1>9. \A m \in 0 .. n - 1 : \E f \in S : Cardinality(Front(f)) = m
  <2>1. rank \in Surjection(S, 0 .. n - 1)
    <3> HIDE DEF S, rank
    <3> QED
      BY <1>7, <1>8, FS_Injection
  <2>2. \A m \in 0 .. n - 1 : \E f \in S : rank[f] = m
    <3> HIDE DEF S, rank
    <3> QED
      BY <2>1 DEF Surjection
  <2> QED
    BY <2>2
<1>10. PlanOf(hidden) = [k \in 1 .. n |-> CHOOSE f \in S : Cardinality(Front(f)) = k - 1]
  BY DEF PlanOf
<1>11. \A k \in 1 .. n : (CHOOSE f \in S : Cardinality(Front(f)) = k - 1) \in S
  <2> SUFFICES ASSUME NEW k \in 1 .. n
               PROVE  (CHOOSE f \in S : Cardinality(Front(f)) = k - 1) \in S
    OBVIOUS
  <2> HIDE DEF S, Front
  <2>1. k - 1 \in 0 .. n - 1
    BY <1>2
  <2> QED
    BY <1>9, <2>1
<1>12. PlanOf(hidden) \in [1 .. n -> 1 .. Len(layout)]
  <2>1. \A k \in 1 .. n : (CHOOSE f \in S : Cardinality(Front(f)) = k - 1)
                             \in 1 .. Len(layout)
    BY <1>1, <1>11
  <2> HIDE DEF S, Front
  <2> QED
    BY <1>10, <2>1
<1> HIDE DEF S
<1> QED
  BY <1>2, <1>12

-----------------------------------------------------------------------------

\* The settings of a backup are those of its rescue system.
LEMMA LayoutType ==
    ASSUME TypeOK
    PROVE  layout \in Seq(Nat) /\ Len(layout) \in Nat /\ Len(layout) > 0
BY TapeAssumption DEF TypeOK

\* Three files precede the archives of an OBDR tape, and linuxrc finds them.
LEMMA BackedUpFacts ==
    ASSUME TypeOK, WriteInv, BackedUp
    PROVE  /\ Ahead \in 0 .. 3 /\ Ahead <= Len(tape)
           /\ Forward(Rewound, Ahead) = Ahead
           /\ mode = "OBDR" => Len(tape) >= 3 /\ tape[3] = File("root", 0, TRUE)
<1>1. PICK from \in 0 .. Len(tape) : Recorded(from, Len(tape))
  BY DEF WriteInv
<1>2. Len(tape) \in Nat /\ tape \in Seq(Files)
  BY DEF TypeOK
<1>3. Ahead \in 0 .. 3 /\ Ahead <= Len(tape)
  BY <1>1, <1>2 DEF Recorded, Ahead
<1>4. mode = "OBDR" => Len(tape) >= 3 /\ tape[3] = File("root", 0, TRUE)
  BY <1>1, <1>2, <1>3 DEF Recorded, Ahead
<1>5. 0 + Ahead = Ahead
  BY <1>3
<1>6. Forward(Rewound, Ahead) = Ahead
  BY <1>3, <1>5 DEF Forward, Rewound
<1> QED
  BY <1>3, <1>4, <1>6

\* The types hold at the start.
LEMMA InitType == Init => TypeOK
<1> SUFFICES ASSUME Init
             PROVE  TypeOK
  OBVIOUS
<1>1. layout \in Seq(Nat) /\ Len(layout) \in Nat /\ Len(layout) > 0
  BY TapeAssumption DEF Init
<1>2. PICK n \in 0 .. MaxOld : tape = [k \in 1 .. n |-> File("old", 0, TRUE)]
  BY DEF Init
<1>3. File("old", 0, TRUE) \in Files /\ Nothing \in Files
  <2>1. 0 \in 0 .. Len(layout) /\ TRUE \in BOOLEAN
    BY <1>1
  <2> QED
    BY <1>1, <2>1, FileTypes
<1>4. n \in Nat
  BY TapeAssumption
<1>5. tape \in Seq(Files)
  <2>1. tape \in [1 .. n -> Files]
    BY <1>2, <1>3
  <2> QED
    BY <1>4, <2>1
<1>6. at \in 0 .. Len(tape)
  BY DEF Init
<1>7. <<>> \in Seq(1 .. Len(layout))
  OBVIOUS
<1>8. <<>> \in Seq([fs : 1 .. Len(layout), got : Files, broken : BOOLEAN])
  OBVIOUS
<1>9. plan \in Seq(1 .. Len(layout)) /\ Len(restored) <= Len(plan)
  BY <1>7 DEF Init
<1>10. restored \in Seq([fs : 1 .. Len(layout), got : Files, broken : BOOLEAN])
  BY <1>8 DEF Init
<1>11. cur \in 1 .. Len(layout) + 1 /\ FSF \in Nat /\ runs \in 0 .. MaxRuns
  <2>1. cur = 1 /\ FSF = 0 /\ runs = 0 /\ MaxRuns \in Nat
    BY TapeAssumption DEF Init
  <2> QED
    BY <1>1, <2>1
<1>12. skipped \subseteq Disks /\ root \in Files
  BY <1>3 DEF Init
<1>13. /\ mode \in Modes /\ layout \in Layouts /\ pc = "select"
       /\ inside \in BOOLEAN /\ full = "no" /\ script = "none"
  BY DEF Init
<1> QED
  BY <1>5, <1>6, <1>9, <1>10, <1>11, <1>12, <1>13 DEF TypeOK

\* A backup that has not begun has written nothing.
LEMMA InitWrite == Init => WriteInv
<1> SUFFICES ASSUME Init
             PROVE  WriteInv
  OBVIOUS
<1>1. PICK n \in 0 .. MaxOld : tape = [k \in 1 .. n |-> File("old", 0, TRUE)]
  BY DEF Init
<1>2. n \in Nat /\ Len(tape) = n
  BY <1>1, TapeAssumption
<1>3. \A k \in 1 .. Len(tape) : tape[k].kind = "old"
  BY <1>1, <1>2 DEF File
<1> QED
  BY <1>3 DEF Init, WriteInv, BackedUp, Chosen

\* The position of the tape is known at the beginning.
LEMMA InitPlace == Init => PlaceInv
BY DEF Init, PlaceInv, Loaded, RootImage, RightArchive, Unbroken

\* The types of the tape and of the scripts that write it, and those of the
\* scripts of the rescue system.
\* When the loop over the lines of a disk ends early, the script's lines up to
\* there stay and the others are lines of To_Restore still.
LEMMA LoopEndsFacts ==
    ASSUME plan \in Seq(1 .. Len(layout)), Len(restored) \in Nat,
           NEW done \in 0 .. Len(plan), done <= Len(restored) + 1, LoopEnds(done)
    PROVE  /\ plan' \in Seq(1 .. Len(layout))
           /\ Len(plan') >= done /\ Len(plan') \in Nat /\ Len(plan') <= Len(plan)
           /\ \A k \in 1 .. done : plan'[k] = plan[k]
<1>1. Len(plan) \in Nat
  OBVIOUS
<1>2. PICK e \in Len(restored) + 1 .. Len(plan) :
         plan' = SubSeq(plan, 1, done) \o SubSeq(plan, e + 1, Len(plan))
  BY DEF LoopEnds
<1>3. /\ SubSeq(plan, 1, done) \in Seq(1 .. Len(layout))
      /\ Len(SubSeq(plan, 1, done)) = done
      /\ \A k \in 1 .. done : SubSeq(plan, 1, done)[k] = plan[k]
  BY <1>1
<1>4. /\ SubSeq(plan, e + 1, Len(plan)) \in Seq(1 .. Len(layout))
      /\ Len(SubSeq(plan, e + 1, Len(plan))) = Len(plan) - e
  BY <1>1
<1> DEFINE s == SubSeq(plan, 1, done)
           t == SubSeq(plan, e + 1, Len(plan))
<1>5. /\ s \in Seq(1 .. Len(layout)) /\ t \in Seq(1 .. Len(layout))
      /\ Len(s) = done /\ Len(t) = Len(plan) - e /\ plan' = s \o t
      /\ \A k \in 1 .. done : s[k] = plan[k]
  BY <1>2, <1>3, <1>4
<1> HIDE DEF s, t
<1>6. /\ s \o t \in Seq(1 .. Len(layout)) /\ Len(s \o t) = done + (Len(plan) - e)
      /\ \A k \in 1 .. done : (s \o t)[k] = s[k]
  <2>1. s \o t \in Seq(1 .. Len(layout))
    BY <1>5
  <2>2. Len(s \o t) = Len(s) + Len(t)
    <3>1. s \in Seq(1 .. Len(layout)) /\ t \in Seq(1 .. Len(layout))
      BY <1>5
    <3> QED
      BY <3>1
  <2>3. \A k \in 1 .. Len(s) : (s \o t)[k] = s[k]
    BY <1>5
  <2> QED
    BY <1>1, <1>5, <2>1, <2>2, <2>3
<1>7. /\ done + (Len(plan) - e) >= done /\ done + (Len(plan) - e) \in Nat
      /\ done + (Len(plan) - e) <= Len(plan)
  BY <1>1
<1> QED
  BY <1>5, <1>6, <1>7

Places == {"select", "header", "image", "root", "write", "boot", "idle", "ask",
           "read", "stopped"}
TapeType ==
    /\ tape \in Seq(Files) /\ at \in 0 .. Len(tape)
    /\ inside \in BOOLEAN /\ full \in {"no", "near", "end"}
    /\ cur \in 1 .. Len(layout) + 1
Gift == [fs : 1 .. Len(layout), got : Files, broken : BOOLEAN]
RunType ==
    /\ root \in Files /\ script \in {"none", "start-restore.sh", "restore-fs.sh"}
    /\ FSF \in Nat /\ skipped \subseteq Disks
    /\ plan \in Seq(1 .. Len(layout)) /\ Len(restored) <= Len(plan)
    /\ restored \in Seq(Gift) /\ runs \in 0 .. MaxRuns

\* Every step of the backup and of the restore keeps the types, the head on
\* the tape and the file systems in To_Restore.
LEMMA TypeNext == TypeOK /\ WriteInv /\ PlaceInv /\ [Next]_vars => TypeOK'
<1> SUFFICES ASSUME TypeOK, WriteInv, PlaceInv, [Next]_vars
             PROVE  TypeOK'
  OBVIOUS
<1>1. /\ mode \in Modes /\ layout \in Layouts /\ pc \in Places
      /\ TapeType /\ RunType
  BY DEF TypeOK, Places, TapeType, RunType, Gift
<1>2. layout \in Seq(Nat) /\ Len(layout) \in Nat /\ Len(layout) > 0
  BY LayoutType
<1>3. Len(tape) \in Nat
  BY <1>1 DEF TapeType
<1>4. UNCHANGED settings
  BY DEF Next, vars, settings, Select, WriteHeader, WriteIso, IsoMissing, WriteRoot,
         WriteFs, WriteFsFull, BackupDone, Boot, Step2, Step3, Choose, ReadFs,
         ReadFsFails, MountFails, RestoreDone, Terminated
<1>5. layout' = layout /\ mode' = mode /\ Files' = Files /\ Disks' = Disks
      /\ Gift' = Gift
  BY <1>4 DEF settings, Files, Disks, Gift
<1>6. SUFFICES pc' \in Places /\ TapeType' /\ RunType'
  BY <1>1, <1>5 DEF TypeOK, Places, TapeType, RunType, Gift
<1>7. UNCHANGED session => RunType'
  BY <1>1, <1>5 DEF RunType, session, running
<1>8. UNCHANGED <<tape, writing>> /\ at' \in 0 .. Len(tape) /\ inside' \in BOOLEAN
         => TapeType'
  BY <1>1, <1>5 DEF TapeType, writing
<1>9. UNCHANGED <<tape, head, writing>> => TapeType'
  BY <1>1, <1>5 DEF TapeType, writing, head
<1>10. ASSUME NEW file \in Files, tape' = Written(file), at' = at + 1,
              inside' = inside, full' \in {"no", "near", "end"},
              cur' \in 1 .. Len(layout) + 1
       PROVE  TapeType'
  <2>1. Written(file) \in Seq(Files) /\ Len(Written(file)) = at + 1
    BY <1>1, WrittenFacts DEF TapeType
  <2>2. at + 1 \in 0 .. at + 1
    BY <1>1, <1>3 DEF TapeType
  <2> QED
    BY <1>1, <1>5, <1>10, <2>1, <2>2 DEF TapeType
<1>11. /\ File("header", 0, TRUE) \in Files /\ File("iso", 0, TRUE) \in Files
       /\ File("root", 0, TRUE) \in Files
  <2>1. 0 \in 0 .. Len(layout) /\ TRUE \in BOOLEAN
    BY <1>2
  <2> QED
    BY <1>2, <2>1, FileTypes
<1>12. CASE Select
  <2>1. pc' \in Places /\ at' \in 0 .. Len(tape)
    BY <1>1, <1>3, <1>12 DEF Select, Places, TapeType
  <2> QED
    BY <1>1, <1>7, <1>8, <1>12, <2>1 DEF Select, TapeType
<1>13. CASE WriteHeader
  <2>1. tape' \in Seq(Files) /\ Len(tape') = 1
    <3>1. \A x \in Files : <<x>> \in Seq(Files) /\ Len(<<x>>) = 1
      OBVIOUS
    <3> QED
      BY <1>11, <1>13, <3>1 DEF WriteHeader
  <2>2. at' \in 0 .. Len(tape')
    BY <1>13, <2>1 DEF WriteHeader
  <2>3. TapeType'
    BY <1>1, <1>5, <1>13, <2>1, <2>2 DEF WriteHeader, TapeType, writing
  <2> QED
    BY <1>7, <1>13, <2>3 DEF WriteHeader, Places
<1>14. CASE WriteIso
  <2>1. TapeType'
    BY <1>1, <1>10, <1>11, <1>14 DEF WriteIso, TapeType, writing
  <2> QED
    BY <1>7, <1>14, <2>1 DEF WriteIso, Places
<1>15. CASE IsoMissing
  BY <1>7, <1>9, <1>15 DEF IsoMissing, Places
<1>16. CASE WriteRoot
  <2>1. TapeType'
    BY <1>1, <1>10, <1>11, <1>16 DEF WriteRoot, TapeType, writing
  <2> QED
    BY <1>7, <1>16, <2>1 DEF WriteRoot, Places
<1>17. CASE WriteFs
  <2>1. cur \in 0 .. Len(layout) /\ cur + 1 \in 1 .. Len(layout) + 1
    BY <1>1, <1>2, <1>17 DEF WriteFs, TapeType
  <2>2. Archive(cur) \in Files
    BY <1>2, <2>1, FileTypes DEF Archive
  <2>3. TapeType'
    BY <1>1, <1>10, <1>17, <2>1, <2>2 DEF WriteFs, TapeType
  <2> QED
    BY <1>1, <1>7, <1>17, <2>3 DEF WriteFs
<1>18. CASE WriteFsFull
  <2>1. cur \in 0 .. Len(layout) /\ cur + 1 \in 1 .. Len(layout) + 1
    BY <1>1, <1>2, <1>18 DEF WriteFsFull, TapeType
  <2>2. File("fs", cur, FALSE) \in Files
    BY <1>2, <2>1, FileTypes
  <2>3. TapeType'
    <3>1. CASE tape' = Written(File("fs", cur, FALSE)) /\ at' = at + 1 /\ full' = "near"
      BY <1>1, <1>10, <1>18, <2>1, <2>2, <3>1 DEF WriteFsFull
    <3>2. CASE UNCHANGED <<tape, at>> /\ full' = "end"
      BY <1>1, <1>5, <1>18, <2>1, <3>2 DEF WriteFsFull, TapeType
    <3> QED
      BY <1>18, <3>1, <3>2 DEF WriteFsFull
  <2> QED
    BY <1>1, <1>7, <1>18, <2>3 DEF WriteFsFull
<1>19. CASE BackupDone
  BY <1>7, <1>9, <1>19 DEF BackupDone, Places
<1>20. ASSUME NEW n \in Nat, NEW a \in Nat
       PROVE  Forward(a, n) \in 0 .. Len(tape)
  BY <1>1, ForwardFacts DEF TapeType
<1>21. CASE Boot
  <2>1. BackedUp
    BY <1>21 DEF Boot, BackedUp
  <2>2. mode = "OBDR" => Len(tape) >= 3 /\ tape[3] \in Files
    BY <1>11, <2>1, BackedUpFacts
  <2>3. mode = "OBDR" => Forward(Rewound, 2) + 1 = 3
    BY <1>3, <2>2 DEF Forward, Rewound
  <2>4. root' \in Files
    BY <1>11, <1>21, <2>2, <2>3 DEF Boot
  <2>5. at' \in 0 .. Len(tape)
    <3>1. 3 \in Nat /\ Rewound \in Nat /\ 0 \in 0 .. Len(tape)
      BY <1>3 DEF Rewound
    <3>2. Forward(Rewound, 3) \in 0 .. Len(tape)
      BY <1>20, <3>1
    <3>3. at \in 0 .. Len(tape)
      BY <1>1 DEF TapeType
    <3> QED
      BY <1>21, <3>1, <3>2, <3>3 DEF Boot
  <2>6. TapeType'
    BY <1>8, <1>21, <2>5 DEF Boot
  <2>7. RunType'
    BY <1>1, <1>5, <1>21, <2>4 DEF Boot, RunType, running
  <2> QED
    BY <1>21, <2>6, <2>7 DEF Boot, Places
<1>22. CASE Step2
  <2>1. at' \in 0 .. Len(tape)
    <3>1. 3 \in Nat /\ Rewound \in Nat /\ Rewound \in 0 .. Len(tape)
      BY <1>3 DEF Rewound
    <3>2. Forward(Rewound, 3) \in 0 .. Len(tape)
      BY <1>20, <3>1
    <3> QED
      BY <1>22, <3>1, <3>2 DEF Step2
  <2>2. TapeType'
    BY <1>8, <1>22, <2>1 DEF Step2
  <2>3. runs' \in 0 .. MaxRuns
    <3>1. runs \in 0 .. MaxRuns /\ runs < MaxRuns /\ runs' = runs + 1 /\ MaxRuns \in Nat
      BY <1>1, <1>22, TapeAssumption DEF Step2, RunType
    <3> QED
      BY <3>1
  <2>4. plan' \in Seq(1 .. Len(layout)) /\ restored' \in Seq(Gift)
    BY <1>22 DEF Step2
  <2>5. Len(restored') <= Len(plan') /\ FSF' \in Nat
    BY <1>22 DEF Step2
  <2>6. /\ script' \in {"none", "start-restore.sh", "restore-fs.sh"}
        /\ root' \in Files /\ skipped' \subseteq Disks
    BY <1>1, <1>22 DEF Step2, RunType
  <2>7. RunType'
    BY <1>5, <2>3, <2>4, <2>5, <2>6 DEF RunType
  <2> QED
    BY <1>22, <2>2, <2>7 DEF Step2, Places
<1>23. CASE Step3
  <2>1. TapeType'
    BY <1>9, <1>23 DEF Step3
  <2>2. skipped' \subseteq Disks /\ FSF' = 0
    BY <1>1, <1>23 DEF Step3, RunType, LogsOf
  <2>3. plan' \in Seq(1 .. Len(layout))
    BY <1>2, <1>23, PlanType DEF Step3
  <2>4. Len(restored') <= Len(plan')
    <3>1. restored' = <<>> /\ Len(plan') \in Nat
      BY <1>23, <2>3 DEF Step3, PlaceInv
    <3> QED
      BY <3>1
  <2>5. RunType'
    BY <1>1, <1>5, <1>23, <2>2, <2>3, <2>4 DEF Step3, RunType
  <2> QED
    BY <1>23, <2>1, <2>5 DEF Step3, Places
<1>24. CASE Choose
  <2>1. PICK f \in 1 .. Len(layout) : plan' = <<f>> /\ FSF' = f - 1 /\ at' = Forward(at, FSF')
    BY <1>24 DEF Choose, Positioned
  <2>2. f - 1 \in Nat
    BY <1>2
  <2>3. at' \in 0 .. Len(tape)
    BY <1>1, <1>3, <1>20, <2>1, <2>2 DEF TapeType
  <2>4. TapeType'
    BY <1>1, <1>8, <1>24, <2>3 DEF Choose, TapeType
  <2>5. plan' \in Seq(1 .. Len(layout)) /\ Len(plan') = 1
    BY <2>1
  <2>6. Len(restored') <= Len(plan')
    BY <1>24, <2>5 DEF Choose, PlaceInv
  <2>7. RunType'
    BY <1>1, <1>5, <1>24, <2>1, <2>2, <2>5, <2>6 DEF Choose, RunType
  <2> QED
    BY <1>24, <2>4, <2>7 DEF Choose, Places
<1>25. ASSUME pc = "read"
       PROVE  Wound \in 0 .. Len(tape)
  <2>1. at \in 0 .. Len(tape) /\ at \in Nat /\ FSF \in Nat
    BY <1>1, <1>3 DEF TapeType, RunType
  <2>2. Forward(at, FSF) \in 0 .. Len(tape)
    BY <1>20, <2>1
  <2> QED
    BY <2>1, <2>2 DEF Wound
<1>31. /\ plan \in Seq(1 .. Len(layout)) /\ Len(plan) \in Nat
       /\ Len(restored) \in Nat /\ Len(restored) <= Len(plan)
  BY <1>1 DEF RunType
<1>26. ASSUME pc = "read", Len(restored) < Len(plan), NEW b \in BOOLEAN,
              restored' = Append(restored, Given(b)), LoopGoesOn,
              UNCHANGED <<root, script, FSF, skipped, runs>>
       PROVE  RunType'
  <2>1. Len(restored) \in Nat /\ Len(plan) \in Nat
    BY <1>1 DEF RunType
  <2>2. Len(restored) + 1 \in 1 .. Len(plan)
    BY <1>26, <2>1
  <2>3. plan[Len(restored) + 1] \in 1 .. Len(layout)
    BY <1>1, <2>2 DEF RunType
  <2>4. Under(Wound) \in Files
    <3>1. CASE Wound >= Len(tape)
      BY <1>2, <3>1, FileTypes DEF Under
    <3>2. CASE ~ (Wound >= Len(tape))
      <4>1. Wound + 1 \in 1 .. Len(tape)
        BY <1>3, <1>25, <1>26, <3>2
      <4>2. tape[Wound + 1] \in Files
        BY <1>1, <4>1 DEF TapeType
      <4>3. [tape[Wound + 1] EXCEPT !.whole = FALSE] \in Files
        BY <4>2 DEF Files
      <4> QED
        BY <3>2, <4>2, <4>3 DEF Under
    <3> QED
      BY <3>1, <3>2
  <2>5. Given(b) \in Gift
    BY <2>3, <2>4 DEF Given, Gift
  <2>6. restored' \in Seq(Gift) /\ Len(restored') = Len(restored) + 1
    BY <1>1, <1>26, <2>5 DEF RunType
  <2>7. plan' \in Seq(1 .. Len(layout)) /\ Len(restored') <= Len(plan')
    <3>1. CASE UNCHANGED plan
      BY <1>1, <1>26, <2>1, <2>6, <3>1 DEF RunType
    <3>2. CASE LoopEnds(Len(restored) + 1)
      <4>1. Len(restored) + 1 \in 0 .. Len(plan) /\ Len(restored) + 1 <= Len(restored) + 1
        BY <1>26, <2>1
      <4>2. plan' \in Seq(1 .. Len(layout)) /\ Len(plan') >= Len(restored) + 1
            /\ Len(plan') \in Nat
        BY <1>31, <3>2, <4>1, LoopEndsFacts
      <4> QED
        BY <2>1, <2>6, <4>2
    <3> QED
      BY <1>26, <3>1, <3>2 DEF LoopGoesOn
  <2> QED
    BY <1>1, <1>5, <1>26, <2>6, <2>7 DEF RunType
<1>27. CASE ReadFs
  <2>1. at' \in 0 .. Len(tape)
    BY <1>3, <1>20, <1>25, <1>27 DEF ReadFs
  <2>2. TapeType'
    BY <1>8, <1>27, <2>1 DEF ReadFs
  <2>3. RunType'
    BY <1>26, <1>27 DEF ReadFs
  <2> QED
    BY <1>1, <1>27, <2>2, <2>3 DEF ReadFs
<1>28. CASE ReadFsFails
  <2>1. TapeType'
    BY <1>8, <1>25, <1>28 DEF ReadFsFails
  <2>2. RunType'
    BY <1>26, <1>28 DEF ReadFsFails
  <2> QED
    BY <1>1, <1>28, <2>1, <2>2 DEF ReadFsFails
<1>32. CASE MountFails
  <2>1. TapeType'
    BY <1>8, <1>25, <1>32, <1>1 DEF MountFails, TapeType
  <2>2. Len(restored) \in 0 .. Len(plan) /\ Len(restored) \in Nat
        /\ Len(restored) <= Len(restored) + 1
    BY <1>1, <1>31
  <2>3. plan' \in Seq(1 .. Len(layout)) /\ Len(plan') >= Len(restored)
        /\ Len(plan') \in Nat
    BY <1>31, <1>32, <2>2, LoopEndsFacts DEF MountFails
  <2>4. RunType'
    BY <1>1, <1>5, <1>32, <2>2, <2>3 DEF MountFails, RunType
  <2> QED
    BY <1>1, <1>32, <2>1, <2>4 DEF MountFails
<1>29. CASE RestoreDone
  BY <1>7, <1>9, <1>29 DEF RestoreDone, Places
<1>30. CASE Terminated \/ UNCHANGED vars
  BY <1>1, <1>7, <1>9, <1>30 DEF Terminated, vars, session, running, head, writing
<1> QED
  BY <1>12, <1>13, <1>14, <1>15, <1>16, <1>17, <1>18, <1>19, <1>21, <1>22, <1>23,
     <1>24, <1>27, <1>28, <1>29, <1>30, <1>32 DEF Next

-----------------------------------------------------------------------------

\* One more line of To_Backup is written behind the others.
LEMMA RecordedGrows ==
    ASSUME TypeOK, NEW from \in 0 .. at, Recorded(from, at), full # "end",
           cur <= Len(layout),
           NEW whole \in BOOLEAN, full' = IF whole THEN full ELSE "near",
           tape' = Written(File("fs", cur, whole)), at' = at + 1,
           cur' = cur + 1, UNCHANGED settings
    PROVE  Recorded(from, at)' /\ Len(tape') = at'
<1>1. /\ tape \in Seq(Files) /\ at \in 0 .. Len(tape) /\ Len(tape) \in Nat
      /\ cur \in 1 .. Len(layout) + 1
  BY DEF TypeOK
<1>2. layout \in Seq(Nat) /\ Len(layout) \in Nat
  BY LayoutType
<1>3. at \in Nat /\ cur \in Nat /\ cur >= 1 /\ cur \in 0 .. Len(layout)
  BY <1>1, <1>2
<1>4. File("fs", cur, whole) \in Files
  BY <1>2, <1>3, FileTypes
<1>5. /\ Len(tape') = at + 1
      /\ \A k \in 1 .. at : tape'[k] = tape[k]
      /\ tape'[at + 1] = File("fs", cur, whole)
  BY <1>1, <1>4, WrittenFacts
<1>6. from \in Nat /\ from <= at /\ at - from = cur - 1
  BY <1>3 DEF Recorded
<1>7. (at + 1) - from = cur /\ from + cur = at + 1
  BY <1>3, <1>6
<1>8. \A k : ArchiveOf(k) \subseteq ArchiveOf(k)'
  BY DEF ArchiveOf
<1>9. \A k : File("fs", k, whole) \in ArchiveOf(k)'
  <2>1. CASE whole = TRUE
    BY <2>1 DEF ArchiveOf, Archive
  <2>2. CASE whole = FALSE
    <3>1. full' # "no"
      BY <2>2
    <3> QED
      BY <2>2, <3>1 DEF ArchiveOf
  <2> QED
    BY <2>1, <2>2
<1>10. ASSUME NEW k \in 1 .. cur
       PROVE  tape'[from + k] \in ArchiveOf(k)'
  <2>1. CASE k = cur
    <3>1. tape'[from + k] = File("fs", k, whole)
      BY <1>5, <1>7, <2>1
    <3> QED
      BY <1>9, <3>1
  <2>2. CASE k # cur
    <3>1. k \in 1 .. at - from /\ from + k \in 1 .. at
      BY <1>3, <1>6, <2>2
    <3>2. tape[from + k] \in ArchiveOf(k)
      BY <3>1 DEF Recorded
    <3> QED
      BY <1>5, <1>8, <3>1, <3>2
  <2> QED
    BY <2>1, <2>2
<1>11. mode' = mode /\ Ahead' = Ahead
  BY DEF settings, Ahead
<1>12. mode = "OBDR" => tape'[3] = File("root", 0, TRUE)
  <2> SUFFICES ASSUME mode = "OBDR"
               PROVE  tape'[3] = File("root", 0, TRUE)
    OBVIOUS
  <2>1. from = 3 /\ tape[3] = File("root", 0, TRUE)
    BY DEF Recorded, Ahead
  <2>2. 3 \in 1 .. at
    BY <1>3, <1>6, <2>1
  <2> QED
    BY <1>5, <2>1, <2>2
<1>13. mode = "menu" => \A k \in 1 .. from : tape'[k].kind = "old"
  <2> SUFFICES ASSUME mode = "menu", NEW k \in 1 .. from
               PROVE  tape'[k].kind = "old"
    OBVIOUS
  <2>1. k \in 1 .. at /\ tape[k].kind = "old"
    BY <1>3, <1>6 DEF Recorded
  <2> QED
    BY <1>5, <2>1
<1>14. mode # "menu" => from = Ahead
  BY DEF Recorded
<1>15. /\ from \in 0 .. at' /\ at' - from = cur /\ cur' - 1 = cur
       /\ cur <= cur
  BY <1>3, <1>6, <1>7
<1>16. \A k \in 1 .. at' - from : tape'[from + k] \in ArchiveOf(k)'
  BY <1>10, <1>15
<1> QED
  BY <1>5, <1>11, <1>12, <1>13, <1>14, <1>15, <1>16 DEF Recorded

\* Every step keeps the archives where they were written.
LEMMA WriteNext == TypeOK /\ WriteInv /\ [Next]_vars => WriteInv'
<1> SUFFICES ASSUME TypeOK, WriteInv, [Next]_vars
             PROVE  WriteInv'
  OBVIOUS
<1>1. /\ tape \in Seq(Files) /\ at \in 0 .. Len(tape) /\ Len(tape) \in Nat
      /\ cur \in 1 .. Len(layout) + 1 /\ mode \in {"menu", "device", "OBDR"}
      /\ full \in {"no", "near", "end"}
  BY TapeAssumption DEF TypeOK
<1>2. layout \in Seq(Nat) /\ Len(layout) \in Nat /\ Len(layout) > 0
  BY LayoutType
<1>3. 0 \in 0 .. Len(layout) /\ TRUE \in BOOLEAN
  BY <1>2
<1>4. File("iso", 0, TRUE) \in Files /\ File("root", 0, TRUE) \in Files
  BY <1>2, <1>3, FileTypes
<1>5. ASSUME UNCHANGED <<settings, tape, writing>>, NEW from, NEW n
      PROVE  Recorded(from, n)' <=> Recorded(from, n)
  BY <1>5 DEF settings, writing, Recorded, ArchiveOf, Ahead
<1>6. CASE Select
  <2>1. cur' = 1 /\ full' = "no" /\ mode' = mode /\ tape' = tape
        /\ \A k \in 1 .. Len(tape) : tape[k].kind = "old"
    BY <1>6 DEF Select, WriteInv, Chosen, settings, writing
  <2>2. CASE mode = "OBDR"
    BY <1>6, <2>1, <2>2 DEF Select, WriteInv, Chosen, BackedUp
  <2>3. CASE mode # "OBDR"
    <3>1. pc' = "write" /\ at' = IF mode = "menu" THEN at ELSE 0
      BY <1>6, <2>3 DEF Select
    <3>2. at' \in 0 .. Len(tape) /\ at' \in Nat /\ at' - at' = 0 /\ at' \in 0 .. at'
      BY <1>1, <3>1
    <3>3. mode # "menu" => at' = Ahead'
      BY <2>1, <2>3, <3>1 DEF Ahead
    <3>4. \A k \in 1 .. at' : tape'[k].kind = "old"
      BY <1>1, <2>1, <3>2
    <3>5. cur' - 1 = 0 /\ 0 <= 0 /\ 1 .. 0 = {}
      BY <2>1
    <3>6. \A k \in 1 .. at' - at' : tape'[at' + k] \in ArchiveOf(k)'
      BY <3>2, <3>5
    <3>7. Recorded(at, at)'
      BY <2>1, <2>3, <3>2, <3>3, <3>4, <3>5, <3>6 DEF Recorded
    <3>8. \E from \in 0 .. at' : Recorded(from, at)'
      BY <3>2, <3>7
    <3> QED
      BY <2>1, <3>1, <3>8 DEF WriteInv, Chosen, BackedUp
  <2> QED
    BY <2>2, <2>3
<1>7. CASE WriteHeader
  BY <1>7 DEF WriteHeader, WriteInv, Chosen, BackedUp, settings, writing
<1>8. CASE WriteIso
  <2>1. Len(tape') = at + 1 /\ at = 1 /\ at' = at + 1
    BY <1>1, <1>4, <1>8, WrittenFacts DEF WriteIso, WriteInv
  <2>2. Len(tape') = 2 /\ at' = 2
    BY <2>1
  <2> QED
    BY <1>8, <2>2 DEF WriteIso, WriteInv, Chosen, BackedUp, settings, writing
<1>9. CASE IsoMissing
  BY <1>9 DEF IsoMissing, WriteInv, Chosen, BackedUp, writing
<1>10. CASE WriteRoot
  <2>1. Len(tape') = at + 1 /\ at = 2 /\ at' = at + 1 /\ tape'[at + 1] = File("root", 0, TRUE)
    BY <1>1, <1>4, <1>10, WrittenFacts DEF WriteRoot, WriteInv
  <2>2. Len(tape') = 3 /\ at' = 3 /\ tape'[3] = File("root", 0, TRUE)
    <3>1. at + 1 = 3
      BY <2>1
    <3> QED
      BY <2>1, <3>1
  <2>3. mode' = "OBDR" /\ cur' = 1 /\ full' = "no" /\ pc' = "write" /\ Ahead' = 3
    BY <1>10 DEF WriteRoot, WriteInv, Chosen, settings, writing, Ahead
  <2>4. 3 \in 0 .. 3 /\ 3 - 3 <= 1 - 1 /\ 3 - 3 = 1 - 1 /\ 1 .. 3 - 3 = {}
    OBVIOUS
  <2>5. Recorded(3, at)'
    BY <2>2, <2>3, <2>4 DEF Recorded
  <2>6. \E from \in 0 .. at' : Recorded(from, at)'
    BY <2>2, <2>4, <2>5
  <2> QED
    BY <2>3, <2>6 DEF WriteInv, Chosen, BackedUp
<1>11. ASSUME WriteFs \/ WriteFsFull
       PROVE  WriteInv'
  <2>1. pc = "write" /\ pc' = "write" /\ cur <= Len(layout) /\ cur' = cur + 1
        /\ UNCHANGED settings
    BY <1>11 DEF WriteFs, WriteFsFull
  <2>2. PICK from \in 0 .. at : Recorded(from, at)
    BY <2>1 DEF WriteInv
  <2>3. cur' > 1 /\ cur' # 1 /\ at \in Nat
    BY <1>1, <1>2, <2>1
  <2>4. from \in 0 .. at + 1
    BY <2>3
  <2>5. SUFFICES /\ at' = Len(tape')
                 /\ \E g \in 0 .. at' : Recorded(g, at)'
    BY <2>1, <2>3 DEF WriteInv, Chosen, BackedUp
  <2>6. CASE WriteFs
    <3>1. /\ full # "end" /\ full' = IF TRUE THEN full ELSE "near"
          /\ tape' = Written(File("fs", cur, TRUE)) /\ at' = at + 1
      BY <2>6 DEF WriteFs, Archive
    <3>2. Recorded(from, at)' /\ Len(tape') = at'
      BY <2>1, <2>2, <3>1, RecordedGrows
    <3> QED
      BY <2>4, <3>1, <3>2
  <2>7. CASE /\ full # "end" /\ full' = "near"
             /\ tape' = Written(File("fs", cur, FALSE)) /\ at' = at + 1
    <3>1. full' = IF FALSE THEN full ELSE "near"
      BY <2>7
    <3>2. Recorded(from, at)' /\ Len(tape') = at'
      BY <2>1, <2>2, <2>7, <3>1, RecordedGrows
    <3> QED
      BY <2>4, <2>7, <3>2
  <2>8. CASE /\ full # "no" /\ full' = "end"
             /\ tape' = tape /\ at' = at
    <3>1. at - from <= cur - 1 /\ at - from <= cur' - 1
      BY <1>1, <2>1, <2>2, <2>3 DEF Recorded
    <3>2. \A k : ArchiveOf(k)' = ArchiveOf(k)
      BY <2>8 DEF ArchiveOf
    <3>3. Recorded(from, at)'
      BY <2>1, <2>2, <2>8, <3>1, <3>2 DEF Recorded, settings, Ahead
    <3>4. cur # 1
      BY <2>8, <1>1 DEF WriteInv
    <3>5. at = Len(tape)
      BY <1>1, <2>1, <3>4 DEF WriteInv
    <3> QED
      BY <2>2, <2>8, <3>3, <3>5
  <2> QED
    BY <1>11, <2>6, <2>7, <2>8 DEF WriteFsFull
<1>12. CASE BackupDone
  <2>1. cur = Len(layout) + 1 /\ cur > 1
    BY <1>1, <1>2, <1>12 DEF BackupDone
  <2>2. at = Len(tape)
    BY <1>12, <2>1 DEF BackupDone, WriteInv
  <2>3. PICK from \in 0 .. Len(tape) : Recorded(from, Len(tape))
    BY <1>12, <2>2 DEF BackupDone, WriteInv
  <2>4. UNCHANGED <<settings, tape, writing>> /\ pc' = "boot"
    BY <1>12 DEF BackupDone
  <2>5. Recorded(from, Len(tape))'
    BY <1>5, <2>3, <2>4
  <2>6. cur' = Len(layout') + 1 /\ tape' = tape /\ (cur' = 1 => full' = "no")
    BY <2>1, <2>4 DEF settings, writing, WriteInv
  <2> QED
    BY <2>4, <2>5, <2>6 DEF WriteInv, Chosen, BackedUp
<1>13. ASSUME BackedUp, UNCHANGED <<settings, tape, writing>>, pc' \in Loaded
       PROVE  WriteInv'
  <2>1. PICK from \in 0 .. Len(tape) : Recorded(from, Len(tape))
    BY <1>13 DEF WriteInv
  <2>2. Recorded(from, Len(tape))'
    BY <1>5, <1>13, <2>1
  <2>3. cur' = Len(layout') + 1 /\ tape' = tape /\ (cur' = 1 => full' = "no")
    BY <1>13 DEF settings, writing, WriteInv
  <2> QED
    BY <1>13, <2>2, <2>3 DEF WriteInv, Chosen, BackedUp, Loaded
<1>14. CASE \/ Boot \/ Step2 \/ Step3 \/ Choose \/ MountFails \/ ReadFs \/ ReadFsFails
            \/ RestoreDone
  BY <1>13, <1>14 DEF Boot, Step2, Step3, Choose, MountFails, ReadFs, ReadFsFails,
                      RestoreDone, BackedUp, Loaded
<1>15. CASE Terminated \/ UNCHANGED vars
  <2>1. UNCHANGED <<settings, tape, writing, pc, at>>
    BY <1>15 DEF Terminated, vars, settings, writing
  <2>2. \A from, n : Recorded(from, n)' <=> Recorded(from, n)
    BY <1>5, <2>1
  <2>3. layout' = layout /\ mode' = mode /\ full' = full /\ cur' = cur
    BY <2>1 DEF settings, writing
  <2> QED
    BY <2>1, <2>2, <2>3 DEF WriteInv, BackedUp
<1> QED
  BY <1>6, <1>7, <1>8, <1>9, <1>10, <1>11, <1>12, <1>14, <1>15 DEF Next

-----------------------------------------------------------------------------

\* start-restore.sh skips no file: FSF counts logs, and there are none.
LEMMA WoundIsAt ==
    ASSUME TypeOK, PlaceInv, pc = "read"
    PROVE  Wound = at
<1>1. at \in 0 .. Len(tape) /\ Len(tape) \in Nat /\ at \in Nat /\ tape \in Seq(Files)
  BY DEF TypeOK
<1>2. script = "start-restore.sh" => Forward(at, FSF) = at
  BY <1>1, ForwardFacts DEF PlaceInv
<1> QED
  BY <1>2 DEF Wound

\* On a tape that was at its beginning the archives follow the files of OBDR.
LEMMA FreshFrom ==
    ASSUME TypeOK, WriteInv, BackedUp, Fresh
    PROVE  Recorded(Ahead, Len(tape))
<1>1. PICK from \in 0 .. Len(tape) : Recorded(from, Len(tape))
  BY DEF WriteInv
<1>2. Len(tape) \in Nat
  BY DEF TypeOK
<1>3. ASSUME mode = "menu"
      PROVE  from = 0
  <2>1. CASE from > 0
    <3>1. 1 \in 1 .. from /\ Len(tape) > 0
      BY <1>2, <2>1
    <3>2. tape[1].kind = "old"
      BY <1>1, <1>3, <3>1 DEF Recorded
    <3>3. Ahead = 0 /\ 0 + 1 = 1
      BY <1>3 DEF Ahead
    <3>4. tape[1].kind # "old"
      BY <3>1, <3>3 DEF Fresh
    <3> QED
      BY <3>2, <3>4
  <2> QED
    BY <1>2, <2>1
<1>4. from = Ahead
  BY <1>1, <1>3 DEF Recorded, Ahead
<1> QED
  BY <1>1, <1>4

\* What is read next is the archive of the next file system of the script.
LEMMA NextArchive ==
    ASSUME TypeOK, WriteInv, PlaceInv, pc = "read", Len(restored) < Len(plan),
           Unbroken(Len(restored) + 1), Fresh, NEW b,
           script = "restore-fs.sh" \/ Given(b).fs = Len(restored) + 1
    PROVE  LET r == Given(b)
           IN  \/ r.got = Archive(r.fs)
               \/ full # "no" /\ r.got \in {Nothing, File("fs", r.fs, FALSE)}
<1> DEFINE j == Len(restored) + 1
           f == plan[j]
<1>1. /\ Len(tape) \in Nat /\ Len(restored) \in Nat /\ Len(plan) \in Nat
      /\ plan \in Seq(1 .. Len(layout)) /\ tape \in Seq(Files)
  BY DEF TypeOK
<1>2. Len(layout) \in Nat
  BY LayoutType
<1>3. j \in 1 .. Len(plan) /\ f \in 1 .. Len(layout)
  <2>1. j \in 1 .. Len(plan)
    BY <1>1
  <2> QED
    BY <1>1, <2>1
<1>4. BackedUp /\ Ahead \in 0 .. 3 /\ Ahead \in Nat
  BY BackedUpFacts DEF BackedUp
<1>5. Recorded(Ahead, Len(tape)) /\ cur = Len(layout) + 1
  BY <1>4, FreshFrom DEF WriteInv
<1>6. FSF + Len(restored) = f - 1
  <2>1. CASE script = "restore-fs.sh"
    <3>1. Len(plan) = 1 /\ FSF = plan[1] - 1
      BY <1>1, <2>1 DEF PlaceInv
    <3>2. j = 1 /\ Len(restored) = 0
      BY <1>1, <1>3, <3>1
    <3>3. f = plan[1] /\ f \in Nat
      BY <1>2, <1>3, <3>2
    <3> HIDE DEF f
    <3> QED
      BY <3>1, <3>2, <3>3
  <2>2. CASE script # "restore-fs.sh"
    <3>1. script = "start-restore.sh"
      BY <2>2 DEF PlaceInv, TypeOK
    <3>2. FSF = 0 /\ f = j
      BY <2>2, <3>1 DEF PlaceInv, Given
    <3> HIDE DEF f
    <3> QED
      BY <1>1, <3>2
  <2> QED
    BY <2>1, <2>2
<1>7. Wound = Forward(Ahead, FSF + Len(restored)) /\ ~inside
  BY WoundIsAt DEF PlaceInv
<1>8. f \in Nat /\ f >= 1 /\ f <= Len(layout)
  BY <1>2, <1>3
<1>10. Given(b).fs = f /\ Given(b).got = Under(Wound)
  BY DEF Given
<1> HIDE DEF f, j
<1>11. CASE Ahead + f <= Len(tape)
  <2>1. Wound = Ahead + (f - 1)
    BY <1>1, <1>4, <1>7, <1>6, <1>8, <1>11 DEF Forward
  <2>2. Wound + 1 = Ahead + f /\ ~ (Wound >= Len(tape))
    BY <1>1, <1>4, <1>8, <1>11, <2>1
  <2>3. Under(Wound) = tape[Ahead + f]
    BY <1>7, <2>2 DEF Under
  <2>4. f \in 1 .. Len(tape) - Ahead
    BY <1>1, <1>4, <1>8, <1>11
  <2>5. tape[Ahead + f] \in ArchiveOf(f)
    BY <1>5, <2>4 DEF Recorded
  <2> QED
    BY <1>10, <2>3, <2>5 DEF ArchiveOf
<1>12. CASE Ahead + f > Len(tape)
  <2>1. full # "no"
    <3>1. full = "no" => Len(tape) - Ahead = Len(layout)
      BY <1>2, <1>5 DEF Recorded
    <3> QED
      BY <1>1, <1>2, <1>4, <1>8, <1>12, <3>1
  <2>2. Ahead <= Len(tape)
    BY <1>4, BackedUpFacts
  <2>3. Wound = Len(tape)
    BY <1>1, <1>4, <1>7, <1>6, <1>8, <1>12, <2>2 DEF Forward
  <2>4. Under(Wound) = Nothing
    BY <1>1, <2>3 DEF Under
  <2> QED
    BY <1>10, <2>1, <2>4
<1>13. Ahead + f <= Len(tape) \/ Ahead + f > Len(tape)
  BY <1>1, <1>4, <1>8
<1> QED
  BY <1>11, <1>12, <1>13

\* Reading one more archive keeps what is right about those before it.
LEMMA RightGrows ==
    ASSUME TypeOK, WriteInv, PlaceInv, pc = "read", Len(restored) < Len(plan),
           NEW b \in BOOLEAN, restored' = Append(restored, Given(b)),
           UNCHANGED <<settings, tape, writing, script>>
    PROVE  /\ RightArchive'
           /\ Len(restored') = Len(restored) + 1
           /\ Unbroken(Len(restored) + 1)' => Unbroken(Len(restored) + 1) /\ ~b
<1> DEFINE n == Len(restored)
<1>1. n \in Nat /\ restored \in Seq([fs : 1 .. Len(layout), got : Files, broken : BOOLEAN])
  BY DEF TypeOK
<1>2. /\ Len(restored') = n + 1
      /\ \A j \in 1 .. n : restored'[j] = restored[j]
      /\ restored'[n + 1] = Given(b)
  BY <1>1
<1> HIDE DEF n
<1>3. \A j \in 1 .. n + 1 : Unbroken(j)' <=> Unbroken(j)
  <2> SUFFICES ASSUME NEW j \in 1 .. n + 1
               PROVE  Unbroken(j)' <=> Unbroken(j)
    OBVIOUS
  <2>1. \A k \in 1 .. j - 1 : k \in 1 .. n
    BY <1>1
  <2>2. \A k \in 1 .. j - 1 : restored'[k] = restored[k]
    BY <1>2, <2>1
  <2> QED
    BY <2>2 DEF Unbroken
<1>4. Fresh' <=> Fresh
  BY DEF Fresh, Ahead, settings
<1>6. full' = full
  BY DEF writing
<1>7. ASSUME Fresh, NEW j \in 1 .. n + 1, Unbroken(j), InStep(j)'
      PROVE  Right(j)'
  <2>1. CASE j = n + 1
    <3>2. restored'[j] = Given(b)
      BY <1>2, <2>1
    <3>3. script = "restore-fs.sh" \/ Given(b).fs = n + 1
      BY <1>7, <2>1, <3>2 DEF InStep
    <3>1. \/ Given(b).got = Archive(Given(b).fs)
          \/ full # "no" /\ Given(b).got \in {Nothing, File("fs", Given(b).fs, FALSE)}
      BY <1>7, <2>1, <3>3, NextArchive DEF n
    <3> QED
      BY <1>6, <3>1, <3>2 DEF Right
  <2>2. CASE j # n + 1
    <3>1. j \in 1 .. n
      BY <1>1, <2>2
    <3>3. restored'[j] = restored[j]
      BY <1>2, <3>1
    <3>4. InStep(j)
      BY <1>7, <3>3 DEF InStep
    <3>2. Right(j)
      BY <1>7, <3>1, <3>4 DEF PlaceInv, RightArchive, n
    <3> QED
      BY <1>6, <3>2, <3>3 DEF Right
  <2> QED
    BY <2>1, <2>2
<1>8. RightArchive'
  <2> SUFFICES ASSUME Fresh', NEW j \in 1 .. n + 1, Unbroken(j)', InStep(j)'
               PROVE  Right(j)'
    BY <1>2 DEF RightArchive
  <2> QED
    BY <1>3, <1>4, <1>7
<1>9. ASSUME Unbroken(Len(restored) + 1)'
      PROVE  Unbroken(n + 1) /\ ~b
  <2>1. \A k \in 1 .. (n + 1 + 1) - 1 : ~restored'[k].broken
    BY <1>2, <1>9 DEF Unbroken
  <2>2. n + 1 \in 1 .. (n + 1 + 1) - 1
    BY <1>1
  <2>3. ~restored'[n + 1].broken
    BY <2>1, <2>2
  <2>4. ~b
    BY <1>2, <2>3 DEF Given
  <2>5. \A k \in 1 .. (n + 1) - 1 : k \in 1 .. (n + 1 + 1) - 1 /\ k \in 1 .. n
    BY <1>1
  <2>6. \A k \in 1 .. (n + 1) - 1 : ~restored[k].broken
    BY <1>2, <2>1, <2>5
  <2> QED
    BY <2>4, <2>6 DEF Unbroken
<1> QED
  BY <1>2, <1>8, <1>9 DEF n

\* Every step of the rescue system keeps the head where the script expects it.
LEMMA PlaceNext ==
    TypeOK /\ TypeOK' /\ WriteInv /\ PlaceInv /\ [Next]_vars => PlaceInv'
<1> SUFFICES ASSUME TypeOK, TypeOK', WriteInv, PlaceInv, [Next]_vars
             PROVE  PlaceInv'
  OBVIOUS
<1>1. /\ Len(tape) \in Nat /\ Len(restored) \in Nat /\ tape \in Seq(Files)
      /\ at \in 0 .. Len(tape) /\ at \in Nat
  <2>1. tape \in Seq(Files) /\ at \in 0 .. Len(tape)
    BY DEF TypeOK
  <2>2. Len(restored) \in Nat
    BY DEF TypeOK
  <2> QED
    BY <2>1, <2>2
<1>2. ASSUME restored' = <<>>
      PROVE  RightArchive' /\ Len(restored') = 0
  BY <1>2 DEF RightArchive
<1>3. CASE Select \/ WriteHeader \/ WriteIso \/ IsoMissing \/ WriteRoot
           \/ WriteFs \/ WriteFsFull \/ BackupDone
  <2>1. pc \notin Loaded /\ pc' \notin Loaded /\ UNCHANGED running
    BY <1>3 DEF Select, WriteHeader, WriteIso, IsoMissing, WriteRoot, WriteFs,
                WriteFsFull, BackupDone, Loaded, session
  <2>2. restored' = <<>> /\ plan' = <<>> /\ script' = script /\ FSF' = FSF
    BY <2>1 DEF PlaceInv, running
  <2>3. Len(plan') = 0
    BY <2>2
  <2> QED
    BY <1>2, <2>1, <2>2, <2>3 DEF PlaceInv, RootImage, Loaded
<1>4. CASE Boot
  <2>1. restored' = <<>> /\ plan' = <<>> /\ script' = script /\ FSF' = FSF
        /\ pc' = "idle"
    BY <1>4 DEF Boot, PlaceInv, running, Loaded
  <2>2. root'.kind = "root"
    <3>1. BackedUp
      BY <1>4 DEF Boot, BackedUp
    <3>2. mode = "OBDR" => Len(tape) >= 3 /\ tape[3] = File("root", 0, TRUE)
      BY <3>1, BackedUpFacts
    <3>3. mode = "OBDR" => Forward(Rewound, 2) + 1 = 3
      BY <1>1, <3>2 DEF Forward, Rewound
    <3> QED
      BY <1>4, <3>2, <3>3 DEF Boot, File
  <2>3. Len(plan') = 0
    BY <2>1
  <2> QED
    BY <1>2, <2>1, <2>2, <2>3 DEF PlaceInv, RootImage, Loaded
<1>5. CASE Step2
  <2>1. restored' = <<>> /\ plan' = <<>> /\ FSF' = 0 /\ pc' = "ask" /\ inside' = FALSE
        /\ root' = root /\ mode' = mode
    BY <1>5 DEF Step2, settings
  <2>2. root'.kind = "root"
    BY <1>5, <2>1 DEF Step2, PlaceInv, RootImage
  <2>3. at' = Ahead'
    <3>1. BackedUp
      BY <1>5 DEF Step2, BackedUp
    <3>2. Forward(Rewound, Ahead) = Ahead
      BY <3>1, BackedUpFacts
    <3> QED
      BY <1>5, <2>1, <3>2 DEF Step2, Ahead, Rewound
  <2>4. Len(plan') = 0
    BY <2>1
  <2> QED
    BY <1>2, <2>1, <2>2, <2>3, <2>4 DEF PlaceInv, RootImage, Loaded
<1>6. ASSUME Step3 \/ Choose
      PROVE  /\ pc = "ask" /\ pc' = "read" /\ restored' = <<>> /\ inside' = FALSE
             /\ root'.kind = "root" /\ at = Ahead /\ BackedUp /\ Ahead' = Ahead
             /\ tape' = tape
  BY <1>6 DEF Step3, Choose, PlaceInv, RootImage, head, settings, BackedUp, Ahead
<1>7. CASE Step3
  <2>1. script' = "start-restore.sh" /\ FSF' = 0 /\ at' = at
    BY <1>7 DEF Step3, head, LogsOf
  <2>2. FSF' = 0 /\ Len(restored') = 0 /\ 0 + 0 = 0
    BY <1>6, <1>7, <2>1
  <2>3. Forward(Ahead, 0) = Ahead
    <3>1. Ahead \in 0 .. Len(tape) /\ Ahead \in Nat
      BY <1>1, <1>6, <1>7
    <3> QED
      BY <1>1, <3>1, ForwardFacts
  <2>4. at' = Forward(Ahead, FSF + Len(restored))'
    BY <1>6, <1>7, <2>1, <2>2, <2>3 DEF Forward
  <2> QED
    BY <1>2, <1>6, <1>7, <2>1, <2>4 DEF PlaceInv, RootImage, Loaded
<1>8. CASE Choose
  <2>1. PICK f \in 1 .. Len(layout) : plan' = <<f>> /\ FSF' = f - 1 /\ at' = Forward(at, FSF')
    BY <1>8 DEF Choose, Positioned
  <2>2. script' = "restore-fs.sh"
    BY <1>8 DEF Choose
  <2>3. f \in Int /\ Len(plan') = 1 /\ plan'[1] = f /\ Len(restored') = 0
    BY <1>6, <1>8, <2>1, LayoutType
  <2>4. FSF' = f - 1 /\ (f - 1) + 0 = f - 1
    BY <2>1, <2>3
  <2>5. at' = Forward(Ahead, FSF + Len(restored))'
    BY <1>6, <1>8, <2>1, <2>3, <2>4 DEF Forward
  <2> QED
    BY <1>2, <1>6, <1>8, <2>2, <2>3, <2>4, <2>5 DEF PlaceInv, RootImage, Loaded
<1>15. /\ plan \in Seq(1 .. Len(layout)) /\ Len(plan) \in Nat
       /\ Len(restored) <= Len(plan)
  BY DEF TypeOK
<1>16. ASSUME NEW done \in 0 .. Len(plan), done <= Len(restored) + 1, LoopEnds(done),
              script = "restore-fs.sh", Len(plan') > 0
       PROVE  Len(plan') = 1 /\ plan'[1] = plan[1] /\ FSF = plan[1] - 1
  <2>1. /\ Len(plan') >= done /\ Len(plan') \in Nat /\ Len(plan') <= Len(plan)
        /\ \A k \in 1 .. done : plan'[k] = plan[k]
    BY <1>1, <1>15, <1>16, LoopEndsFacts
  <2>4. Len(plan) > 0
    BY <1>15, <1>16, <2>1
  <2>5. Len(plan) = 1 /\ FSF = plan[1] - 1
    BY <1>16, <2>4 DEF PlaceInv
  <2>2. Len(plan) = 1 /\ FSF = plan[1] - 1 /\ Len(plan') = 1
    <3>1. Len(plan') \in Nat /\ Len(plan') > 0 /\ Len(plan') <= 1
      BY <1>16, <2>1, <2>5
    <3>2. Len(plan') = 1
      BY <3>1
    <3> QED
      BY <2>5, <3>2
  <2>3. done = 1
    <3>1. PICK e \in Len(restored) + 1 .. Len(plan) :
             plan' = SubSeq(plan, 1, done) \o SubSeq(plan, e + 1, Len(plan))
      BY <1>16 DEF LoopEnds
    <3>2. e = 1 /\ e + 1 = 2
      BY <1>1, <2>2
    <3>3. CASE done = 0
      <4>1. Len(SubSeq(plan, 1, 0)) = 0 /\ Len(SubSeq(plan, 2, 1)) = 0
            /\ SubSeq(plan, 1, 0) \in Seq(1 .. Len(layout))
            /\ SubSeq(plan, 2, 1) \in Seq(1 .. Len(layout))
        BY <1>15, <2>2
      <4>2. Len(SubSeq(plan, 1, 0) \o SubSeq(plan, 2, 1)) = 0
        BY <4>1
      <4> QED
        BY <2>2, <3>1, <3>2, <3>3, <4>2
    <3> QED
      BY <2>2, <3>3
  <2> QED
    BY <2>1, <2>2, <2>3
<1>9. ASSUME NEW b \in BOOLEAN, pc = "read", Len(restored) < Len(plan),
             restored' = Append(restored, Given(b)), pc' = "read", LoopGoesOn,
             UNCHANGED <<settings, tape, writing, script, FSF, root>>,
             ~b => inside' = FALSE /\ at' = Forward(Wound, 1)
      PROVE  PlaceInv'
  <2>1. /\ RightArchive' /\ Len(restored') = Len(restored) + 1
        /\ Unbroken(Len(restored) + 1)' => Unbroken(Len(restored) + 1) /\ ~b
    BY <1>9, RightGrows
  <2>2. ASSUME Unbroken(Len(restored) + 1)'
        PROVE  inside' = FALSE /\ at' = Forward(Ahead, FSF + Len(restored))'
    <3>1. at = Forward(Ahead, FSF + Len(restored)) /\ ~b
      BY <1>9, <2>1, <2>2 DEF PlaceInv
    <3>2. Wound = at
      BY <1>9, WoundIsAt
    <3>3. FSF \in Int
      BY DEF TypeOK
    <3>4. FSF' = FSF /\ Ahead' = Ahead /\ tape' = tape
      BY <1>9 DEF Ahead, settings
    <3>5. Ahead \in Int
      BY DEF Ahead
    <3>6. Forward(at, 1) = Forward(Ahead, FSF + (Len(restored) + 1))
      BY <1>1, <3>1, <3>3, <3>5 DEF Forward
    <3>7. at' = Forward(at, 1) /\ inside' = FALSE
      BY <1>9, <3>1, <3>2
    <3>8. Forward(Ahead, FSF + Len(restored))' = Forward(Ahead, FSF + (Len(restored) + 1))
      BY <2>1, <3>4 DEF Forward
    <3> QED
      BY <3>6, <3>7, <3>8
  <2>3. root'.kind = "root" /\ script' # "none"
    BY <1>9 DEF PlaceInv, RootImage
  <2>4. /\ script' = "start-restore.sh" => FSF' = 0
        /\ script' = "restore-fs.sh" /\ Len(plan') > 0 =>
              Len(plan') = 1 /\ FSF' = plan'[1] - 1
    <3>1. CASE UNCHANGED plan
      BY <1>9, <3>1 DEF PlaceInv
    <3>2. CASE LoopEnds(Len(restored) + 1)
      <4>1. Len(restored) + 1 \in 0 .. Len(plan) /\ Len(restored) + 1 <= Len(restored) + 1
        BY <1>1, <1>9, <1>15
      <4> QED
        BY <1>9, <1>16, <3>2, <4>1 DEF PlaceInv
    <3> QED
      BY <1>9, <3>1, <3>2 DEF LoopGoesOn
  <2> QED
    BY <1>9, <2>1, <2>2, <2>3, <2>4 DEF PlaceInv, RootImage, Loaded
<1>10. CASE ReadFs
  <2>1. /\ pc = "read" /\ pc' = "read" /\ Len(restored) < Len(plan)
        /\ restored' = Append(restored, Given(FALSE))
        /\ inside' = FALSE /\ at' = Forward(Wound, 1) /\ LoopGoesOn
        /\ UNCHANGED <<settings, tape, writing, script, FSF, root>>
    BY <1>10 DEF ReadFs
  <2> QED
    BY <1>9, <2>1
<1>11. CASE ReadFsFails
  <2>1. /\ pc = "read" /\ pc' = "read" /\ Len(restored) < Len(plan)
        /\ restored' = Append(restored, Given(TRUE)) /\ LoopGoesOn
        /\ UNCHANGED <<settings, tape, writing, script, FSF, root>>
    BY <1>11 DEF ReadFsFails
  <2> QED
    BY <1>9, <2>1
<1>17. CASE MountFails
  <2>1. /\ pc = "read" /\ pc' = "read" /\ restored' = restored /\ inside' = inside
        /\ at' = Wound /\ LoopEnds(Len(restored)) /\ tape' = tape /\ mode' = mode
        /\ UNCHANGED <<settings, writing, script, FSF, root>>
    BY <1>17 DEF MountFails, settings
  <2>2. at' = at
    BY <2>1, WoundIsAt
  <2>3. Unbroken(Len(restored) + 1)' <=> Unbroken(Len(restored) + 1)
    BY <2>1 DEF Unbroken
  <2>4. RightArchive'
    <3>1. full' = full
      BY <2>1 DEF writing
    <3> QED
      BY <2>1, <3>1 DEF PlaceInv, RightArchive, Fresh, InStep, Unbroken, Right, Ahead
  <2>5. script = "restore-fs.sh" /\ Len(plan') > 0 =>
           Len(plan') = 1 /\ FSF = plan'[1] - 1
    <3>1. Len(restored) \in 0 .. Len(plan) /\ Len(restored) <= Len(restored) + 1
      BY <1>1, <1>15
    <3> QED
      BY <1>16, <2>1, <3>1
  <2>6. Forward(Ahead, FSF + Len(restored))' = Forward(Ahead, FSF + Len(restored))
    BY <2>1 DEF Forward, Ahead
  <2> QED
    BY <2>1, <2>2, <2>3, <2>4, <2>5, <2>6 DEF PlaceInv, RootImage, Loaded
<1>12. ASSUME UNCHANGED <<settings, tape, writing, session>>
       PROVE  /\ RightArchive' <=> RightArchive
              /\ plan' = plan /\ restored' = restored /\ script' = script
              /\ FSF' = FSF /\ root' = root /\ mode' = mode
  BY <1>12 DEF RightArchive, Fresh, InStep, Unbroken, Right, Ahead, settings,
               writing, session, running
<1>13. CASE RestoreDone
  BY <1>12, <1>13 DEF RestoreDone, PlaceInv, RootImage, Loaded
<1>14. CASE Terminated \/ UNCHANGED vars
  <2>1. UNCHANGED <<settings, tape, writing, session>> /\ pc' = pc /\ at' = at
        /\ inside' = inside /\ tape' = tape
    BY <1>14 DEF Terminated, vars, settings, writing, session, running
  <2>2. /\ plan' = plan /\ restored' = restored /\ script' = script
        /\ FSF' = FSF /\ root' = root /\ mode' = mode
        /\ RightArchive' <=> RightArchive
    BY <1>12, <2>1
  <2> QED
    BY <2>1, <2>2 DEF PlaceInv, RootImage, Unbroken, Forward, Ahead
<1> QED
  BY <1>3, <1>4, <1>5, <1>7, <1>8, <1>10, <1>11, <1>13, <1>14, <1>17 DEF Next

\* The inductive invariant.
LEMMA TapeInvariant == Spec => []TapeInv
<1>1. Init => TapeInv
  BY InitType, InitWrite, InitPlace DEF TapeInv
<1>2. TapeInv /\ [Next]_vars => TapeInv'
  BY TypeNext, WriteNext, PlaceNext DEF TapeInv
<1> QED
  BY <1>1, <1>2, PTL DEF Spec

\* The types of Tape: tar-it.sh and the restore scripts never move the head off
\* the recorded tape and restore nothing that To_Restore does not have.
THEOREM TypeCorrect == Spec => []TypeOK
<1>1. TapeInv => TypeOK
  BY DEF TapeInv
<1> QED
  BY <1>1, TapeInvariant, PTL

\* linuxrc: from an OBDR tape the root image is loaded, however many file
\* systems were backed up to it.
THEOREM RootImageLoaded == Spec => []RootImage
<1>1. TapeInv => RootImage
  BY DEF TapeInv, PlaceInv
<1> QED
  BY <1>1, TapeInvariant, PTL

\* start-restore.sh and restore-fs.sh: a file system is given its own archive
\* or, on a tape that was too short, what there is of it, never another's.
THEOREM OwnArchive == Spec => []RightArchive
<1>1. TapeInv => RightArchive
  BY DEF TapeInv, PlaceInv
<1> QED
  BY <1>1, TapeInvariant, PTL

\* tar-it.sh: a backup that fitted is on the tape completely and in order.
THEOREM TapeIsComplete == Spec => []TapeComplete
<1>1. ASSUME TapeInv
      PROVE  TapeComplete
  <2> SUFFICES ASSUME BackedUp, full = "no"
               PROVE  \E from \in 0 .. Len(tape) :
                         /\ mode # "menu" => from = Ahead
                         /\ SubSeq(tape, from + 1, Len(tape)) =
                                [f \in 1 .. Len(layout) |-> Archive(f)]
    BY DEF TapeComplete
  <2>1. TypeOK /\ WriteInv
    BY <1>1 DEF TapeInv
  <2>2. PICK from \in 0 .. Len(tape) : Recorded(from, Len(tape))
    BY <2>1 DEF WriteInv
  <2>3. Len(layout) \in Nat /\ Len(tape) \in Nat /\ tape \in Seq(Files)
        /\ cur = Len(layout) + 1
    BY <2>1, LayoutType DEF TypeOK, WriteInv
  <2>4. Len(tape) - from = Len(layout) /\ (mode # "menu" => from = Ahead)
    BY <2>2, <2>3 DEF Recorded
  <2>5. \A k \in 1 .. Len(layout) : tape[from + k] = Archive(k)
    BY <2>2, <2>4 DEF Recorded, ArchiveOf
  <2> DEFINE s == SubSeq(tape, from + 1, Len(tape))
  <2>6. Len(s) = Len(layout) /\ DOMAIN s = 1 .. Len(layout)
        /\ s = [k \in 1 .. Len(s) |-> s[k]]
    BY <2>2, <2>3, <2>4
  <2>7. \A k \in 1 .. Len(layout) : s[k] = tape[from + k]
    BY <2>2, <2>3, <2>4
  <2> HIDE DEF s
  <2>8. s = [f \in 1 .. Len(layout) |-> Archive(f)]
    BY <2>5, <2>6, <2>7
  <2> QED
    BY <2>4, <2>8 DEF s
<1>2. TapeInv => TapeComplete
  BY <1>1
<1> QED
  BY <1>2, TapeInvariant, PTL
=============================================================================
