----------------------------- MODULE Cutstream -----------------------------
(***************************************************************************)
(* cutstream/cutstream.c: the filter at the end of tar-it.sh's pipeline.   *)
(* It copies its standard input to ${DESTINATION}; when the destination    *)
(* has reached the room left on the current volume it increments the       *)
(* number in ${VOLNO_FILE}, closes the destination, runs makeISO9660.sh    *)
(* (which renames the piece) and goes on with an empty destination.        *)
(*                                                                         *)
(* Byte k of the input is the number k, so that the output shows loss,     *)
(* duplication and reordering.  All pieces together are the one sequence   *)
(* out; sealed says where makeISO9660.sh took a piece away, and under      *)
(* which volume number.                                                    *)
(***************************************************************************)
EXTENDS Integers, Sequences

CONSTANTS
    MAXIOSIZE,          \* size of the copy buffer
    Kb,                 \* bytes in a Kbyte
    maxcdsize,          \* /tmp/cutstream.h: capacity of a volume, in Kb
    Capacities,         \* possible values of ${CAPACITY}, in Kb
    Lengths,            \* possible lengths of the input, in bytes
    Volnos              \* possible contents of ${VOLNO_FILE}

ASSUME CutstreamAssumption ==
    /\ MAXIOSIZE \in Nat \ {0}
    /\ Kb \in Nat \ {0}
    /\ maxcdsize \in Nat \ {0}
    /\ Capacities \subseteq Nat
    /\ Lengths \subseteq Nat
    /\ Volnos \subseteq Nat

VARIABLES
    pc,                 \* the statement filepipe is at
    len,                \* length of the input
    cap,                \* the capacity of the first piece, in bytes
    first,              \* ${VOLNO_FILE} when cutstream starts
    pos,                \* bytes fread has returned so far
    feof,               \* end-of-file indicator of the input
    numRead,            \* bytes in the buffer
    writeProgress,      \* bytes of the buffer written
    i,                  \* bytes written to the current piece, full buffers
    capacity,           \* capacity of the current piece, in bytes
    volno,              \* the program's volume number
    volnoFile,          \* the number in ${VOLNO_FILE}
    out,                \* everything written, all pieces in order
    sealed              \* pieces taken by makeISO9660.sh

input == <<len, cap, first>>
vars == <<pc, len, cap, first, pos, feof, numRead, writeProgress, i, capacity,
          volno, volnoFile, out, sealed>>

Volume == maxcdsize * Kb

\* ${CAPACITY} when it is set, else maxcdsize.
FirstCapacity == {c * Kb : c \in Capacities \cup {maxcdsize}}

Init ==
    /\ pc = "start"
    /\ len \in Lengths
    /\ cap \in FirstCapacity
    /\ first \in Volnos
    /\ pos = 0 /\ feof = FALSE
    /\ numRead = 0 /\ writeProgress = 0 /\ i = 0
    /\ capacity = cap
    /\ volno = first
    /\ volnoFile = first
    /\ out = <<>>
    /\ sealed = <<>>

Minimum(a, b) == IF a <= b THEN a ELSE b

-----------------------------------------------------------------------------
\* main and the head of filepipe: configuration, destination and volume
\* number file are opened.
Open ==
    /\ pc = "start"
    /\ pc' = "read"
    /\ UNCHANGED <<input, pos, feof, numRead, writeProgress, i, capacity,
                   volno, volnoFile, out, sealed>>

\* One of those files cannot be opened.
OpenFails ==
    /\ pc = "start"
    /\ pc' = "exit1"
    /\ UNCHANGED <<input, pos, feof, numRead, writeProgress, i, capacity,
                   volno, volnoFile, out, sealed>>

\* Mutants of Fill: the buffer's size, or the room in the piece, is ignored;
\* the end is noticed only by a read that returns something.
FillBeyondBuffer ==
    /\ pc = "read"
    /\ LET trialReadSize == capacity - i
           n == Minimum(trialReadSize, len - pos)
       IN  /\ numRead' = n
           /\ pos' = pos + n
           /\ feof' = (n < trialReadSize)
    /\ writeProgress' = 0
    /\ pc' = "write"
    /\ UNCHANGED <<input, i, capacity, volno, volnoFile, out, sealed>>

FillBeyondPiece ==
    /\ pc = "read"
    /\ LET n == Minimum(MAXIOSIZE, len - pos)
       IN  /\ numRead' = n
           /\ pos' = pos + n
           /\ feof' = (n < MAXIOSIZE)
    /\ writeProgress' = 0
    /\ pc' = "write"
    /\ UNCHANGED <<input, i, capacity, volno, volnoFile, out, sealed>>

FillMissesEnd ==
    /\ pc = "read"
    /\ LET trialReadSize == Minimum(MAXIOSIZE, capacity - i)
           n == Minimum(trialReadSize, len - pos)
       IN  /\ numRead' = n
           /\ pos' = pos + n
           /\ feof' = (0 < n /\ n < trialReadSize)
    /\ writeProgress' = 0
    /\ pc' = "write"
    /\ UNCHANGED <<input, i, capacity, volno, volnoFile, out, sealed>>

\* fread blocks until it has trialReadSize bytes or has met the end.
Fill ==
    /\ pc = "read"
    /\ LET trialReadSize == Minimum(MAXIOSIZE, capacity - i)
           n == Minimum(trialReadSize, len - pos)
       IN  /\ numRead' = n
           /\ pos' = pos + n
           /\ feof' = (n < trialReadSize)
    /\ writeProgress' = 0
    /\ pc' = "write"
    /\ UNCHANGED <<input, i, capacity, volno, volnoFile, out, sealed>>

\* Mutant of Write: every fwrite starts at the head of the buffer.
WriteFromHead ==
    /\ pc = "write"
    /\ writeProgress < numRead
    /\ \E n \in 1 .. numRead :
          /\ writeProgress + n <= numRead
          /\ out' = out \o [k \in 1 .. n |-> pos - numRead + k]
          /\ writeProgress' = writeProgress + n
    /\ UNCHANGED <<pc, input, pos, feof, numRead, i, capacity, volno,
                   volnoFile, sealed>>

\* One fwrite of the inner loop; it may write less than it is given.
Write ==
    /\ pc = "write"
    /\ writeProgress < numRead
    /\ \E n \in 1 .. numRead :
          /\ writeProgress + n <= numRead
          /\ out' = out \o [k \in 1 .. n |-> pos - numRead + writeProgress + k]
          /\ writeProgress' = writeProgress + n
    /\ UNCHANGED <<pc, input, pos, feof, numRead, i, capacity, volno,
                   volnoFile, sealed>>

\* Mutant of Account: a buffer that is not full is taken for the end.
AccountShortIsEnd ==
    /\ pc = "write"
    /\ writeProgress = numRead
    /\ i' = i + numRead
    /\ pc' = IF numRead < MAXIOSIZE THEN "end"
             ELSE IF i + numRead = capacity THEN "cut" ELSE "read"
    /\ UNCHANGED <<input, pos, feof, numRead, writeProgress, capacity, volno,
                   volnoFile, out, sealed>>

\* The buffer is written: account for it, then cut, stop or read on.
Account ==
    /\ pc = "write"
    /\ writeProgress = numRead
    /\ i' = i + numRead
    /\ pc' = IF i + numRead = capacity THEN "cut"
             ELSE IF feof THEN "end" ELSE "read"
    /\ UNCHANGED <<input, pos, feof, numRead, writeProgress, capacity, volno,
                   volnoFile, out, sealed>>

\* Mutant of Number: the file is written before the number is incremented.
NumberWritesOld ==
    /\ pc = "cut"
    /\ volno' = volno + 1
    /\ volnoFile' = volno
    /\ pc' = "iso"
    /\ UNCHANGED <<input, pos, feof, numRead, writeProgress, i, capacity, out,
                   sealed>>

\* The volume number is incremented and written to ${VOLNO_FILE}.
Number ==
    /\ pc = "cut"
    /\ volno' = volno + 1
    /\ volnoFile' = volno + 1
    /\ pc' = "iso"
    /\ UNCHANGED <<input, pos, feof, numRead, writeProgress, i, capacity, out,
                   sealed>>

NumberFails ==
    /\ pc = "cut"
    /\ volno' = volno + 1
    /\ pc' = "exit1"
    /\ UNCHANGED <<input, pos, feof, numRead, writeProgress, i, capacity,
                   volnoFile, out, sealed>>

\* system(prg): makeISO9660.sh takes the closed destination away under the
\* number it reads from ${VOLNO_FILE}; its exit status is not looked at.
MakeIso ==
    /\ pc = "iso"
    /\ sealed' = Append(sealed, [vol |-> volnoFile, upto |-> Len(out)])
    /\ pc' = "reopen"
    /\ UNCHANGED <<input, pos, feof, numRead, writeProgress, i, capacity,
                   volno, volnoFile, out>>

\* Mutant of Reopen: the room on the first volume is used for the next one.
ReopenKeepsCapacity ==
    /\ pc = "reopen"
    /\ i' = 0
    /\ pc' = IF feof THEN "end" ELSE "read"
    /\ UNCHANGED <<input, pos, feof, numRead, writeProgress, capacity, volno,
                   volnoFile, out, sealed>>

\* A new destination; the whole of the next volume is for it.
Reopen ==
    /\ pc = "reopen"
    /\ capacity' = Volume
    /\ i' = 0
    /\ pc' = IF feof THEN "end" ELSE "read"
    /\ UNCHANGED <<input, pos, feof, numRead, writeProgress, volno, volnoFile,
                   out, sealed>>

ReopenFails ==
    /\ pc = "reopen"
    /\ pc' = "exit10"
    /\ UNCHANGED <<input, pos, feof, numRead, writeProgress, i, capacity,
                   volno, volnoFile, out, sealed>>

\* The end of main.  After a cut, main's dst is the FILE that filepipe has
\* closed: its ferror and fclose are undefined, and the process may die
\* before the last piece is flushed.
Exit ==
    /\ pc = "end"
    /\ pc' \in IF sealed = <<>> THEN {"exit0"} ELSE {"exit0", "crash"}
    /\ UNCHANGED <<input, pos, feof, numRead, writeProgress, i, capacity,
                   volno, volnoFile, out, sealed>>

Stopped == pc \in {"exit0", "exit1", "exit10", "crash"}
Terminated == Stopped /\ UNCHANGED vars

Next ==
    \/ Open \/ OpenFails \/ Fill \/ Write \/ Account
    \/ Number \/ NumberFails \/ MakeIso \/ Reopen \/ ReopenFails
    \/ Exit \/ Terminated

Spec == Init /\ [][Next]_vars

\* Every statement is eventually executed: tar keeps writing to the pipe or
\* closes it, the destination's file system takes bytes (a full one makes the
\* inner loop of fwrite spin), and makeISO9660.sh returns.
FairSpec ==
    /\ Spec
    /\ WF_vars(Open \/ Fill \/ Write \/ Account \/ Number \/ MakeIso
               \/ Reopen \/ Exit)

-----------------------------------------------------------------------------
PCs == {"start", "read", "write", "cut", "iso", "reopen", "end",
        "exit0", "exit1", "exit10", "crash"}

\* Every variable of filepipe stays in its type; the buffer never holds more
\* than MAXIOSIZE bytes.
TypeOK ==
    /\ pc \in PCs
    /\ len \in Nat /\ cap \in Nat /\ first \in Nat
    /\ pos \in Nat /\ feof \in BOOLEAN
    /\ numRead \in 0 .. MAXIOSIZE /\ writeProgress \in 0 .. MAXIOSIZE
    /\ i \in Nat /\ capacity \in Nat
    /\ volno \in Nat /\ volnoFile \in Nat
    /\ out \in Seq(Nat)
    /\ sealed \in Seq([vol : Nat, upto : Nat])

\* Whatever fwrite takes at a time and wherever the cuts fall, the pieces put
\* one after the other are the beginning of the input: no byte is lost,
\* written twice or out of order (the buffer loop of filepipe).
OutputIsInput == \A k \in 1 .. Len(out) : out[k] = k

\* Length of the output at which the j-th piece is full.
PieceEnd(j) == cap + (j - 1) * Volume

\* makeISO9660.sh is given full pieces only, each exactly as large as the room
\* on its volume, and it finds in ${VOLNO_FILE} the number of that piece, one
\* more for every cut since cutstream started.
PiecesFull ==
    \A j \in 1 .. Len(sealed) :
        sealed[j] = [vol |-> first + j, upto |-> PieceEnd(j)]

\* The piece being written never outgrows its volume.
PieceFits == Len(out) <= PieceEnd(Len(sealed) + 1)

\* When cutstream reports success the whole stream has been written and it has
\* been cut as often as the sizes require; a stream that ends on the boundary
\* of a piece is cut there too and leaves an empty last piece.
CompleteAtExit ==
    pc = "exit0" =>
        /\ Len(out) = len
        /\ PieceEnd(Len(sealed)) <= len \/ sealed = <<>>
        /\ len < PieceEnd(Len(sealed) + 1)

\* The position at which the current piece starts, once it is open.
PieceStart == IF sealed = <<>> THEN 0 ELSE PieceEnd(Len(sealed))

\* The loop invariant of filepipe, statement by statement: the bytes accounted
\* for in i, the buffer and the position of the input always add up, a short
\* read is seen exactly at the end of the stream, and a cut happens exactly at
\* the end of a piece.
LoopInvariant ==
    /\ pc \notin {"reopen", "exit10"}
           => capacity = IF sealed = <<>> THEN cap ELSE Volume
    /\ pc \in {"start", "read", "write", "cut", "reopen", "end"}
           => volno = first + Len(sealed) /\ volnoFile = volno
    /\ pc = "iso" => volno = first + Len(sealed) + 1 /\ volnoFile = volno
    /\ pc \in {"start", "read"} =>
           /\ ~feof /\ i <= capacity
           /\ pos = PieceStart + i /\ Len(out) = pos
           /\ pos <= len
    /\ pc = "write" =>
           /\ writeProgress <= numRead
           /\ i + numRead <= capacity
           /\ pos = PieceStart + i + numRead
           /\ Len(out) = PieceStart + i + writeProgress
           /\ pos <= len
           /\ feof => pos = len /\ i + numRead < capacity
    /\ pc \in {"cut", "iso"} =>
           /\ ~feof /\ i = capacity
           /\ pos = PieceStart + i /\ Len(out) = pos
           /\ pos <= len
    /\ pc = "reopen" =>
           /\ ~feof /\ sealed # <<>>
           /\ pos = PieceStart /\ Len(out) = pos
           /\ pos <= len
    /\ pc \in {"end", "exit0"} =>
           /\ i < capacity
           /\ pos = PieceStart + i /\ Len(out) = pos
           /\ pos = len
    /\ pc \in {"exit1", "exit10", "crash"} => PieceFits

\* filepipe reaches the end of the stream (or one of its error exits): the
\* end is found by a short fread even when the stream ends on a boundary.
Termination == <>Stopped

\* cutstream implements what tar-it.sh and makeISO9660.sh rely on.
Abstract == INSTANCE StreamCut WITH
    state <- IF pc = "exit0" THEN "ok" ELSE IF Stopped THEN "fail" ELSE "run"
AbstractSpec == Abstract!Spec
=============================================================================
