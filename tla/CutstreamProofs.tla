-------------------------- MODULE CutstreamProofs --------------------------
(***************************************************************************)
(* cutstream for every buffer size, volume size, stream length and room on *)
(* the first volume.                                                       *)
(***************************************************************************)
EXTENDS Cutstream, TLAPS

\* The size of a volume in bytes is positive, and the first capacity natural.
LEMMA VolumePositive ==
    /\ Volume \in Nat \ {0}
    /\ FirstCapacity \subseteq Nat
BY CutstreamAssumption DEF Volume, FirstCapacity

\* The ends of consecutive pieces are one volume apart.
LEMMA PieceEndStep ==
    ASSUME cap \in Nat
    PROVE  /\ PieceEnd(1) = cap
           /\ \A j \in Nat \ {0} : /\ PieceEnd(j) \in Nat
                                   /\ PieceEnd(j + 1) = PieceEnd(j) + Volume
<1>1. Volume \in Nat
  BY VolumePositive
<1>2. ASSUME NEW V \in Nat, NEW j \in Nat \ {0}
      PROVE  /\ (j - 1) * V \in Nat
             /\ ((j + 1) - 1) * V = (j - 1) * V + V
  OBVIOUS
<1>3. ASSUME NEW j \in Nat \ {0}
      PROVE  PieceEnd(j) \in Nat /\ PieceEnd(j + 1) = PieceEnd(j) + Volume
  BY <1>1, <1>2 DEF PieceEnd
<1>4. PieceEnd(1) = cap
  BY <1>1 DEF PieceEnd
<1>. QED
  BY <1>3, <1>4

\* The inductive invariant of filepipe's loop: what the runs check, and where
\* every counter stands at every statement.
IInv == TypeOK /\ OutputIsInput /\ PiecesFull /\ LoopInvariant

\* It holds when cutstream starts: nothing read, nothing written, the capacity
\* of the first piece taken from ${CAPACITY}.
THEOREM InitInv == Init => IInv
<1>. SUFFICES ASSUME Init PROVE IInv
  OBVIOUS
<1>1. TypeOK
  <2>1. cap \in Nat /\ capacity \in Nat /\ first \in Nat /\ len \in Nat
    BY CutstreamAssumption, VolumePositive DEF Init
  <2>2. sealed \in Seq([vol : Nat, upto : Nat]) /\ out \in Seq(Nat)
    BY DEF Init
  <2>3. feof \in BOOLEAN
    BY DEF Init
  <2>. QED
    BY <2>1, <2>2, <2>3, CutstreamAssumption DEF Init, TypeOK, PCs
<1>2. OutputIsInput /\ PiecesFull
  BY DEF Init, OutputIsInput, PiecesFull
<1>3. LoopInvariant
  BY <1>1 DEF Init, TypeOK, LoopInvariant, PieceStart
<1>. QED
  BY <1>1, <1>2, <1>3 DEF IInv

\* The current piece starts at a natural position and ends one capacity later.
LEMMA CurrentPiece ==
    ASSUME TypeOK
    PROVE  /\ Len(sealed) \in Nat
           /\ PieceStart \in Nat
           /\ PieceEnd(Len(sealed) + 1)
                = PieceStart + (IF sealed = <<>> THEN cap ELSE Volume)
<1>1. cap \in Nat /\ Len(sealed) \in Nat /\ (sealed # <<>> => Len(sealed) # 0)
  BY DEF TypeOK
<1>2. CASE sealed = <<>>
  <2>1. Len(sealed) + 1 = 1
    BY <1>2
  <2>. QED
    BY <1>1, <1>2, <2>1, PieceEndStep DEF PieceStart
<1>3. CASE sealed # <<>>
  BY <1>1, <1>3, PieceEndStep DEF PieceStart
<1>. QED
  BY <1>1, <1>2, <1>3

\* Every statement of filepipe preserves it, one step per action.
THEOREM StepInv == IInv /\ [Next]_vars => IInv'
<1>. SUFFICES ASSUME IInv, [Next]_vars PROVE IInv'
  OBVIOUS
<1>a. TypeOK /\ OutputIsInput /\ PiecesFull /\ LoopInvariant
  BY DEF IInv
<1>b. /\ Volume \in Nat \ {0} /\ MAXIOSIZE \in Nat \ {0}
      /\ Len(sealed) \in Nat /\ PieceStart \in Nat
      /\ PieceEnd(Len(sealed) + 1)
                = PieceStart + (IF sealed = <<>> THEN cap ELSE Volume)
  BY <1>a, CurrentPiece, VolumePositive, CutstreamAssumption
<1>1. CASE Open
  <2>1. TypeOK'
    BY <1>a, <1>1 DEF Open, TypeOK, PCs, input
  <2>2. OutputIsInput' /\ PiecesFull'
    BY <1>a, <1>1 DEF Open, input, OutputIsInput, PiecesFull, PieceEnd
  <2>3. LoopInvariant'
    BY <1>a, <1>1 DEF Open, input, LoopInvariant, PieceStart, PieceEnd
  <2>. QED
    BY <2>1, <2>2, <2>3 DEF IInv
<1>2. CASE OpenFails
  <2>1. TypeOK'
    BY <1>a, <1>2 DEF OpenFails, TypeOK, PCs, input
  <2>2. OutputIsInput' /\ PiecesFull'
    BY <1>a, <1>2 DEF OpenFails, input, OutputIsInput, PiecesFull, PieceEnd
  <2>3. PieceFits
    BY <1>a, <1>b, <1>2 DEF OpenFails, LoopInvariant, PieceFits, TypeOK
  <2>4. LoopInvariant'
    BY <1>a, <1>2, <2>3 DEF OpenFails, input, LoopInvariant, PieceFits, PieceEnd
  <2>. QED
    BY <2>1, <2>2, <2>4 DEF IInv
<1>3. CASE Fill
  <2>. DEFINE trial == Minimum(MAXIOSIZE, capacity - i)
              n == Minimum(trial, len - pos)
  <2>1. /\ n \in Nat /\ trial \in Nat /\ n <= trial /\ n <= len - pos
        /\ trial <= MAXIOSIZE /\ trial <= capacity - i
        /\ n < trial => n = len - pos
    BY <1>a, <1>b, <1>3 DEF Fill, TypeOK, LoopInvariant, Minimum
  <2>2. /\ numRead' = n /\ pos' = pos + n /\ feof' = (n < trial)
        /\ writeProgress' = 0 /\ pc' = "write" /\ pc = "read"
        /\ UNCHANGED <<input, i, capacity, volno, volnoFile, out, sealed>>
    BY <1>3 DEF Fill
  <2>. HIDE DEF n, trial
  <2>3. TypeOK'
    <3>1. feof' \in BOOLEAN
      BY <2>2
    <3>. QED
      BY <1>a, <1>b, <2>1, <2>2, <3>1 DEF TypeOK, PCs, input
  <2>4. OutputIsInput' /\ PiecesFull'
    BY <1>a, <2>2 DEF input, OutputIsInput, PiecesFull, PieceEnd
  <2>5. PieceStart' = PieceStart
    BY <2>2 DEF PieceStart, PieceEnd, input
  <2>6. feof' => pos' = len /\ i + numRead' < capacity
    BY <1>a, <1>b, <2>1, <2>2 DEF TypeOK, LoopInvariant
  <2>7. LoopInvariant'
    BY <1>a, <1>b, <2>1, <2>2, <2>5, <2>6 DEF input, TypeOK, LoopInvariant
  <2>. QED
    BY <2>3, <2>4, <2>7 DEF IInv
<1>4. CASE Write
  <2>1. PICK n \in 1 .. numRead :
          /\ writeProgress + n <= numRead
          /\ out' = out \o [k \in 1 .. n |-> pos - numRead + writeProgress + k]
          /\ writeProgress' = writeProgress + n
    BY <1>4 DEF Write
  <2>2. /\ pc = "write" /\ pc' = pc
        /\ UNCHANGED <<input, pos, feof, numRead, i, capacity, volno,
                       volnoFile, sealed>>
    BY <1>4 DEF Write
  <2>. DEFINE chunk == [k \in 1 .. n |-> pos - numRead + writeProgress + k]
  <2>a. /\ pos = PieceStart + i + numRead
        /\ Len(out) = PieceStart + i + writeProgress
        /\ pos <= len /\ i + numRead <= capacity
        /\ feof => pos = len /\ i + numRead < capacity
    BY <1>a, <2>2 DEF LoopInvariant
  <2>b. /\ i \in Nat /\ pos \in Nat /\ len \in Nat /\ capacity \in Nat
        /\ numRead \in Nat /\ writeProgress \in Nat
        /\ out \in Seq(Nat) /\ Len(out) \in Nat
    BY <1>a, <1>b DEF TypeOK
  <2>3. /\ n \in Nat
        /\ pos - numRead + writeProgress \in Nat
        /\ pos - numRead + writeProgress = Len(out)
    BY <1>b, <2>1, <2>a, <2>b
  <2>4. chunk \in Seq(Nat) /\ Len(chunk) = n
    BY <2>3
  <2>c. \A k \in 1 .. n : chunk[k] = Len(out) + k
    BY <2>3
  <2>5. /\ out' \in Seq(Nat)
        /\ Len(out') = Len(out) + n
        /\ \A k \in 1 .. Len(out') :
              out'[k] = IF k <= Len(out) THEN out[k] ELSE chunk[k - Len(out)]
    BY <2>1, <2>3, <2>4, <2>b
  <2>6. TypeOK'
    BY <1>a, <1>b, <2>1, <2>2, <2>5 DEF TypeOK, PCs, input
  <2>7. OutputIsInput'
    <3>. HIDE DEF chunk
    <3>. SUFFICES ASSUME NEW k \in 1 .. Len(out') PROVE out'[k] = k
      BY DEF OutputIsInput
    <3>1. CASE k <= Len(out)
      BY <1>a, <2>5, <2>b, <3>1 DEF OutputIsInput
    <3>2. CASE k > Len(out)
      <4>1. k - Len(out) \in 1 .. n
        BY <2>3, <2>5, <2>b, <3>2
      <4>2. out'[k] = chunk[k - Len(out)]
        BY <2>5, <2>b, <3>2
      <4>3. chunk[k - Len(out)] = Len(out) + (k - Len(out))
        BY <2>c, <4>1
      <4>. QED
        BY <2>b, <4>2, <4>3
    <3>. QED
      BY <2>5, <2>b, <3>1, <3>2
  <2>8. PiecesFull' /\ PieceStart' = PieceStart
    BY <1>a, <2>2 DEF input, PiecesFull, PieceStart, PieceEnd
  <2>9. LoopInvariant'
    <3>1. Len(out') = PieceStart + i + writeProgress'
          /\ writeProgress' <= numRead
      BY <1>b, <2>1, <2>3, <2>5, <2>a, <2>b
    <3>. QED
      BY <1>a, <2>2, <2>8, <2>a, <3>1 DEF input, LoopInvariant
  <2>. QED
    BY <2>6, <2>7, <2>8, <2>9 DEF IInv
<1>5. CASE Account
  <2>1. TypeOK'
    BY <1>a, <1>5 DEF Account, TypeOK, PCs, input
  <2>2. OutputIsInput' /\ PiecesFull' /\ PieceStart' = PieceStart
    BY <1>a, <1>5
    DEF Account, input, OutputIsInput, PiecesFull, PieceStart, PieceEnd
  <2>3. LoopInvariant'
    BY <1>a, <1>b, <1>5, <2>2 DEF Account, input, TypeOK, LoopInvariant
  <2>. QED
    BY <2>1, <2>2, <2>3 DEF IInv
<1>6. CASE Number
  <2>1. TypeOK'
    BY <1>a, <1>6 DEF Number, TypeOK, PCs, input
  <2>2. OutputIsInput' /\ PiecesFull' /\ PieceStart' = PieceStart
    BY <1>a, <1>6
    DEF Number, input, OutputIsInput, PiecesFull, PieceStart, PieceEnd
  <2>3. LoopInvariant'
    BY <1>a, <1>b, <1>6, <2>2 DEF Number, input, TypeOK, LoopInvariant
  <2>. QED
    BY <2>1, <2>2, <2>3 DEF IInv
<1>7. CASE NumberFails
  <2>1. TypeOK'
    BY <1>a, <1>7 DEF NumberFails, TypeOK, PCs, input
  <2>2. OutputIsInput' /\ PiecesFull' /\ PieceStart' = PieceStart
    BY <1>a, <1>7
    DEF NumberFails, input, OutputIsInput, PiecesFull, PieceStart, PieceEnd
  <2>3. PieceFits
    BY <1>a, <1>b, <1>7 DEF NumberFails, LoopInvariant, PieceFits, TypeOK
  <2>4. LoopInvariant'
    BY <1>a, <1>7, <2>2, <2>3
    DEF NumberFails, input, LoopInvariant, PieceFits, PieceEnd
  <2>. QED
    BY <2>1, <2>2, <2>4 DEF IInv
<1>8. CASE MakeIso
  <2>. DEFINE piece == [vol |-> volnoFile, upto |-> Len(out)]
  <2>1. /\ pc = "iso" /\ pc' = "reopen" /\ sealed' = Append(sealed, piece)
        /\ UNCHANGED <<input, pos, feof, numRead, writeProgress, i, capacity,
                       volno, volnoFile, out>>
    BY <1>8 DEF MakeIso
  <2>2. piece \in [vol : Nat, upto : Nat]
    BY <1>a DEF TypeOK
  <2>. HIDE DEF piece
  <2>a. sealed \in Seq([vol : Nat, upto : Nat])
    BY <1>a DEF TypeOK
  <2>3. /\ sealed' \in Seq([vol : Nat, upto : Nat])
        /\ Len(sealed') = Len(sealed) + 1
        /\ sealed' # <<>>
        /\ \A j \in 1 .. Len(sealed') :
              sealed'[j] = IF j <= Len(sealed) THEN sealed[j] ELSE piece
    BY <2>1, <2>2, <2>a
  <2>4. TypeOK'
    BY <1>a, <2>1, <2>3 DEF TypeOK, PCs, input
  <2>5. piece = [vol |-> first + (Len(sealed) + 1),
                 upto |-> PieceEnd(Len(sealed) + 1)]
    <3>1. /\ volnoFile = first + Len(sealed) + 1
          /\ Len(out) = PieceStart + (IF sealed = <<>> THEN cap ELSE Volume)
      BY <1>a, <2>1 DEF LoopInvariant
    <3>2. volnoFile = first + (Len(sealed) + 1)
      BY <1>a, <1>b, <3>1 DEF TypeOK
    <3>. QED
      BY <1>b, <3>1, <3>2 DEF piece
  <2>6. \A j : PieceEnd(j)' = PieceEnd(j)
    BY <2>1 DEF input, PieceEnd
  <2>7. PiecesFull'
    <3>. SUFFICES ASSUME NEW j \in 1 .. Len(sealed')
                  PROVE  sealed'[j] = [vol |-> first + j, upto |-> PieceEnd(j)]
      BY <2>1, <2>6 DEF PiecesFull, input
    <3>1. CASE j <= Len(sealed)
      <4>1. j \in 1 .. Len(sealed)
        BY <1>b, <3>1
      <4>2. sealed[j] = [vol |-> first + j, upto |-> PieceEnd(j)]
        BY <1>a, <4>1 DEF PiecesFull
      <4>. QED
        BY <2>3, <3>1, <4>2
    <3>2. CASE j = Len(sealed) + 1
      BY <1>b, <2>3, <2>5, <3>2
    <3>. QED
      BY <1>b, <2>3, <3>1, <3>2
  <2>8. OutputIsInput'
    BY <1>a, <2>1 DEF OutputIsInput
  <2>9. PieceStart' = PieceEnd(Len(sealed) + 1)
    BY <2>3, <2>6 DEF PieceStart
  <2>10. LoopInvariant'
    <3>1. /\ ~feof /\ volno = first + Len(sealed) + 1 /\ volnoFile = volno
          /\ pos = PieceStart + (IF sealed = <<>> THEN cap ELSE Volume)
          /\ Len(out) = pos /\ pos <= len
      BY <1>a, <2>1 DEF LoopInvariant
    <3>2. volno = first + (Len(sealed) + 1)
      BY <1>a, <1>b, <3>1 DEF TypeOK
    <3>3. volno' = first' + Len(sealed')
      BY <2>1, <2>3, <3>2 DEF input
    <3>4. /\ ~feof' /\ volnoFile' = volno' /\ pos' = PieceStart'
          /\ Len(out') = pos' /\ pos' <= len'
      BY <1>b, <2>1, <2>9, <3>1 DEF input
    <3>. QED
      BY <2>1, <2>3, <3>3, <3>4 DEF LoopInvariant
  <2>. QED
    BY <2>4, <2>7, <2>8, <2>10 DEF IInv
<1>9. CASE Reopen
  <2>1. TypeOK'
    BY <1>a, <1>b, <1>9 DEF Reopen, TypeOK, PCs, input
  <2>2. OutputIsInput' /\ PiecesFull' /\ PieceStart' = PieceStart
    BY <1>a, <1>9
    DEF Reopen, input, OutputIsInput, PiecesFull, PieceStart, PieceEnd
  <2>3. LoopInvariant'
    BY <1>a, <1>b, <1>9, <2>2 DEF Reopen, input, TypeOK, LoopInvariant
  <2>. QED
    BY <2>1, <2>2, <2>3 DEF IInv
<1>10. CASE ReopenFails
  <2>1. TypeOK'
    BY <1>a, <1>10 DEF ReopenFails, TypeOK, PCs, input
  <2>2. OutputIsInput' /\ PiecesFull' /\ PieceStart' = PieceStart
    BY <1>a, <1>10
    DEF ReopenFails, input, OutputIsInput, PiecesFull, PieceStart, PieceEnd
  <2>3. PieceFits
    BY <1>a, <1>b, <1>10 DEF ReopenFails, LoopInvariant, PieceFits, TypeOK
  <2>4. LoopInvariant'
    BY <1>a, <1>10, <2>2, <2>3
    DEF ReopenFails, input, LoopInvariant, PieceFits, PieceEnd
  <2>. QED
    BY <2>1, <2>2, <2>4 DEF IInv
<1>11. CASE Exit
  <2>1. TypeOK'
    BY <1>a, <1>11 DEF Exit, TypeOK, PCs, input
  <2>2. OutputIsInput' /\ PiecesFull' /\ PieceStart' = PieceStart
    BY <1>a, <1>11
    DEF Exit, input, OutputIsInput, PiecesFull, PieceStart, PieceEnd
  <2>3. PieceFits
    BY <1>a, <1>b, <1>11 DEF Exit, LoopInvariant, PieceFits, TypeOK
  <2>4. LoopInvariant'
    BY <1>a, <1>11, <2>2, <2>3
    DEF Exit, input, LoopInvariant, PieceFits, PieceEnd
  <2>. QED
    BY <2>1, <2>2, <2>4 DEF IInv
<1>12. CASE UNCHANGED vars
  BY <1>12 DEF vars, IInv, TypeOK, OutputIsInput, PiecesFull, LoopInvariant,
               PieceFits, PieceStart, PieceEnd
<1>. QED
  BY <1>1, <1>2, <1>3, <1>4, <1>5, <1>6, <1>7, <1>8, <1>9, <1>10, <1>11, <1>12
  DEF Next, Terminated

\* Type correctness of filepipe for every size of buffer, volume and stream.
THEOREM TypeCorrect == Spec => []TypeOK
<1>1. IInv => TypeOK
  BY DEF IInv
<1>. QED
  BY <1>1, InitInv, StepInv, PTL DEF Spec

\* The pieces put together are always a beginning of the input.
THEOREM OutputCorrect == Spec => []OutputIsInput
<1>1. IInv => OutputIsInput
  BY DEF IInv
<1>. QED
  BY <1>1, InitInv, StepInv, PTL DEF Spec

\* makeISO9660.sh always gets full pieces with consecutive volume numbers.
THEOREM PiecesCorrect == Spec => []PiecesFull
<1>1. IInv => PiecesFull
  BY DEF IInv
<1>. QED
  BY <1>1, InitInv, StepInv, PTL DEF Spec

\* No piece outgrows its volume, and a successful cutstream has written the
\* whole stream with exactly the cuts its length requires.
THEOREM SizesCorrect == Spec => [](PieceFits /\ CompleteAtExit)
<1>1. ASSUME IInv PROVE PieceFits /\ CompleteAtExit
  <2>1. TypeOK /\ LoopInvariant
    BY <1>1 DEF IInv
  <2>2. /\ Volume \in Nat \ {0}
        /\ Len(sealed) \in Nat /\ PieceStart \in Nat
        /\ PieceEnd(Len(sealed) + 1)
                = PieceStart + (IF sealed = <<>> THEN cap ELSE Volume)
    BY <2>1, CurrentPiece, VolumePositive
  <2>3. PieceFits
    BY <2>1, <2>2 DEF TypeOK, LoopInvariant, PieceFits, PCs
  <2>4. ASSUME pc = "exit0" PROVE PieceStart <= len
    BY <2>1, <2>2, <2>4 DEF TypeOK, LoopInvariant
  <2>5. CompleteAtExit
    BY <2>1, <2>2, <2>4 DEF TypeOK, LoopInvariant, CompleteAtExit, PieceStart
  <2>. QED
    BY <2>3, <2>5
<1>. QED
  BY <1>1, InitInv, StepInv, PTL DEF Spec

\* No piece outgrows the volume it is written to, whatever the capacity of the
\* first one was.
THEOREM PiecesFit == Spec => []PieceFits
  BY SizesCorrect, PTL

\* Every step of cutstream is a step of the abstract stream cutter, or leaves
\* its state alone: fwrite delivers, makeISO9660.sh seals.
THEOREM Refinement == Spec => AbstractSpec
<1>1. Init => Abstract!Init
  BY CutstreamAssumption, VolumePositive DEF Init, Abstract!Init, Stopped
<1>2. IInv /\ IInv' /\ [Next]_vars => [Abstract!Next]_(Abstract!vars)
  <2>. SUFFICES ASSUME IInv, IInv', [Next]_vars
                PROVE  [Abstract!Next]_(Abstract!vars)
    OBVIOUS
  <2>a. TypeOK /\ OutputIsInput /\ PiecesFull /\ LoopInvariant
    BY DEF IInv
  <2>b. TypeOK' /\ OutputIsInput' /\ PiecesFull' /\ LoopInvariant'
    BY DEF IInv
  <2>c. /\ Volume \in Nat /\ Len(sealed) \in Nat /\ PieceStart \in Nat
        /\ PieceEnd(Len(sealed) + 1)
                = PieceStart + (IF sealed = <<>> THEN cap ELSE Volume)
    BY <2>a, CurrentPiece, VolumePositive
  <2>d. Abstract!Limit = PieceEnd(Len(sealed) + 1)
    <3>1. CASE sealed = <<>>
      BY <2>a, <2>c, <3>1 DEF Abstract!Limit, PieceStart, TypeOK
    <3>2. CASE sealed # <<>>
      <4>1. Len(sealed) \in 1 .. Len(sealed)
        BY <2>a, <2>c, <3>2 DEF TypeOK
      <4>2. sealed[Len(sealed)].upto = PieceStart
        <5>1. sealed[Len(sealed)] = [vol  |-> first + Len(sealed),
                                     upto |-> PieceEnd(Len(sealed))]
          BY <2>a, <4>1 DEF PiecesFull
        <5>. QED
          BY <3>2, <5>1 DEF PieceStart
      <4>. QED
        BY <2>c, <3>2, <4>2 DEF Abstract!Limit
    <3>. QED
      BY <3>1, <3>2
  <2>1. CASE Write
    <3>1. PICK n \in 1 .. numRead :
            /\ writeProgress + n <= numRead
            /\ out' = out \o [k \in 1 .. n |-> pos - numRead + writeProgress + k]
      BY <2>1 DEF Write
    <3>2. /\ n \in Nat /\ n >= 1 /\ Len(out) \in Nat /\ out \in Seq(Nat)
          /\ out' \in Seq(Nat)
      <4>1. numRead \in Nat
        BY <2>a, CutstreamAssumption DEF TypeOK
      <4>2. out \in Seq(Nat) /\ out' \in Seq(Nat)
        BY <2>a, <2>b DEF TypeOK
      <4>. QED
        BY <3>1, <4>1, <4>2
    <3>3. Len(out') = Len(out) + n
      BY <3>1, <3>2
    <3>4. /\ pc = "write" /\ pc' = "write"
          /\ UNCHANGED <<len, cap, first, sealed>>
      BY <2>1 DEF Write, input
    <3>5. /\ Len(out) + n <= len
          /\ Len(out) + n <= Abstract!Limit
      <4>1. /\ Len(out) = PieceStart + i + writeProgress
            /\ pos = PieceStart + i + numRead /\ pos <= len
            /\ i + numRead <= capacity
            /\ capacity = IF sealed = <<>> THEN cap ELSE Volume
        BY <2>a, <3>4 DEF LoopInvariant
      <4>2. /\ i \in Nat /\ pos \in Nat /\ len \in Nat /\ capacity \in Nat
            /\ numRead \in Nat /\ writeProgress \in Nat
        BY <2>a, CutstreamAssumption DEF TypeOK
      <4>. QED
        BY <2>c, <2>d, <3>1, <3>2, <4>1, <4>2
    <3>6. out' = [k \in 1 .. (Len(out) + n) |-> k]
      BY <2>b, <3>2, <3>3 DEF OutputIsInput
    <3>7. n \in 1 .. len
      BY <2>a, <3>2, <3>5 DEF TypeOK
    <3>8. Abstract!Deliver
      BY <3>4, <3>5, <3>6, <3>7 DEF Abstract!Deliver, Stopped
    <3>. QED
      BY <3>8 DEF Abstract!Next
  <2>2. CASE MakeIso
    <3>1. /\ pc = "iso" /\ pc' = "reopen"
          /\ sealed' = Append(sealed, [vol |-> volnoFile, upto |-> Len(out)])
          /\ UNCHANGED <<len, cap, first, out>>
      BY <2>2 DEF MakeIso, input
    <3>2. /\ volnoFile = first + Len(sealed) + 1
          /\ Len(out) = PieceStart + (IF sealed = <<>> THEN cap ELSE Volume)
      BY <2>a, <3>1 DEF LoopInvariant
    <3>3. Abstract!Seal
      BY <2>c, <2>d, <3>1, <3>2 DEF Abstract!Seal, Stopped
    <3>. QED
      BY <3>3 DEF Abstract!Next
  <2>3. CASE Exit
    <3>1. /\ pc = "end" /\ pc' \in {"exit0", "crash"}
          /\ UNCHANGED <<len, cap, first, out, sealed>>
      BY <2>3 DEF Exit, input
    <3>2. /\ Len(out) = len /\ i < capacity /\ Len(out) = PieceStart + i
          /\ capacity = IF sealed = <<>> THEN cap ELSE Volume
      BY <2>a, <3>1 DEF LoopInvariant
    <3>3. Len(out) # Abstract!Limit
      BY <2>a, <2>c, <2>d, <3>2 DEF TypeOK
    <3>4. CASE pc' = "exit0"
      BY <3>1, <3>2, <3>3, <3>4 DEF Abstract!Next, Abstract!Finish, Stopped
    <3>5. CASE pc' = "crash"
      BY <3>1, <3>5 DEF Abstract!Next, Abstract!Fail, Stopped
    <3>. QED
      BY <3>1, <3>4, <3>5
  <2>4. CASE OpenFails \/ NumberFails \/ ReopenFails
    BY <2>4 DEF OpenFails, NumberFails, ReopenFails, input, Stopped,
                Abstract!Next, Abstract!Fail
  <2>5. CASE Open \/ Fill \/ Account \/ Number \/ Reopen
    <3>1. /\ ~Stopped /\ ~Stopped' /\ pc' # "exit0" /\ pc # "exit0"
          /\ UNCHANGED <<len, cap, first, out, sealed>>
      BY <2>5 DEF Open, Fill, Account, Number, Reopen, input, Stopped
    <3>. QED
      BY <3>1 DEF Abstract!vars
  <2>6. CASE UNCHANGED vars
    BY <2>6 DEF vars, Abstract!vars, Stopped
  <2>. QED
    BY <2>1, <2>2, <2>3, <2>4, <2>5, <2>6 DEF Next, Terminated
<1>. QED
  BY <1>1, <1>2, InitInv, StepInv, PTL DEF Spec, AbstractSpec, Abstract!Spec
=============================================================================
