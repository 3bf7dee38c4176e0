----------------------------- MODULE Mediacheck -----------------------------
(***************************************************************************)
(* mediacheck/: implantisomd5 writes the md5 sum of an ISO image into the  *)
(* application data area of its primary volume descriptor; makeISO9660.sh  *)
(* runs it on every image it keeps.  checkisomd5, and mediacheck with a    *)
(* screen of its own, compare a medium with the sum that is on it.         *)
(*                                                                         *)
(* An image is a sequence of cells; position p of the file is image[p+1].  *)
(* All offsets are in cells.                                               *)
(***************************************************************************)
EXTENDS Md5, FiniteSetsExt

CONSTANTS
    Sector,             \* 2048 bytes
    FirstSector,        \* 16, the sector of the first volume descriptor
    Buffer,             \* the checker reads 32768 bytes at a time
    AppOffset,          \* APPDATA_OFFSET
    AppLength,          \* 512
    SizeOffset,         \* SIZE_OFFSET
    SkipSectors,        \* SKIPSECTORS
    UInt,               \* 2^32: the variable "total" of implantisomd5
    Images              \* images that mkisofs makes

VARIABLES
    pc,                 \* the statement: implant, then the medium, then check
    force,              \* implantisomd5 -f
    program,            \* the checker
    image,              \* the image file, later the medium
    master,             \* the image file that was burnt
    mediasum,           \* what the md5 digits in the image say
    at,                 \* position of the next read
    pvd,                \* pvd_offset
    total,              \* bytes summed by implantisomd5
    ctx,                \* md5ctx
    fed,                \* what was given to MD5_Update
    implanted,          \* what implantisomd5 did: "no", "fresh", "forced"
    verdict             \* what the checker says

vars == <<pc, force, program, image, master, mediasum, at, pvd, total, ctx,
          fed, implanted, verdict>>
setting == <<force, program>>

Space == 32
Primary == 1            \* type of the primary volume descriptor
Terminator == 255
Other == 0
Eof == -1
Digits == 77            \* the cell that holds "ISO MD5SUM = ..."
Wrong == 3              \* what a bad spot on a medium reads as

Cell(p) == image[p + 1]
Blank(n) == [k \in 1 .. n |-> Space]
AppData(img, p) ==
    SubSeq(img, p + AppOffset + 1, p + AppOffset + AppLength)

\* What parsepvd finds in the next sector.
Kind == IF at >= Len(image) THEN Eof
        ELSE IF Cell(at) \in {Primary, Terminator} THEN Cell(at) ELSE Other

\* The size in the descriptor, times 2048LL, less the sectors that are skipped.
CoverOf(img, p) == (img[p + SizeOffset + 1] - SkipSectors) * Sector
Covered == CoverOf(image, pvd)

\* The first descriptor of the kind that parsepvd looks for.
Descriptors(img) ==
    {p \in FirstSector * Sector .. Len(img) - 1 :
        p % Sector = 0 /\ img[p + 1] = Primary}
Descriptor(img) == Min(Descriptors(img))

\* What mkisofs makes: whole sectors, as many at least as are summed.
IsImage(img) ==
    /\ img \in Seq(Int) /\ Len(img) % Sector = 0
    /\ Descriptors(img) # {} => CoverOf(img, Descriptor(img)) <= Len(img)

ASSUME MediacheckAssumption ==
    /\ {Sector, FirstSector, Buffer, AppLength, UInt} \subseteq Nat \ {0}
    /\ {AppOffset, SizeOffset, SkipSectors} \subseteq Nat
    /\ AppOffset + AppLength <= Sector /\ SizeOffset < AppOffset
    /\ Buffer % Sector = 0
    /\ \A img \in Images : IsImage(img)

\* At most n cells, less at the end of the file.
Read(n) == SubSeq(image, at + 1, Min({at + n, Len(image)}))

Init ==
    /\ pc = "parse"
    /\ force \in BOOLEAN
    /\ program \in {"checkisomd5", "mediacheck"}
    /\ image \in Images /\ master = <<>>
    /\ mediasum = <<>>
    /\ at = FirstSector * Sector /\ pvd = 0
    /\ total = 0
    /\ ctx = MD5_Init /\ fed = <<>>
    /\ implanted = "no" /\ verdict = "none"

-----------------------------------------------------------------------------
\* implantisomd5

\* parsepvd looks at one sector after the other.
ParseNext ==
    /\ pc = "parse" /\ Kind = Other
    /\ at' = at + Sector
    /\ UNCHANGED <<pc, setting, image, master, mediasum, pvd, total, ctx, fed,
                   implanted, verdict>>

\* No descriptor: "Could not find primary volumne!", the image is left as it is.
ParseFails ==
    /\ pc = "parse" /\ Kind \in {Eof, Terminator}
    /\ pc' = "burn"
    /\ UNCHANGED <<setting, image, master, mediasum, at, pvd, total, ctx, fed,
                   implanted, verdict>>

\* Mutant of ImplantStart: the application data are not looked at.
ImplantStartAnyway ==
    /\ pc = "parse" /\ Kind = Primary
    /\ pvd' = at /\ at' = 0
    /\ pc' = "sum"
    /\ UNCHANGED <<setting, image, master, mediasum, total, ctx, fed,
                   implanted, verdict>>

\* The descriptor is found; without -f the application data must be unused.
ImplantStart ==
    /\ pc = "parse" /\ Kind = Primary
    /\ pvd' = at /\ at' = 0
    /\ pc' = IF force \/ AppData(image, at) = Blank(AppLength)
             THEN "sum" ELSE "burn"
    /\ UNCHANGED <<setting, image, master, mediasum, total, ctx, fed,
                   implanted, verdict>>

\* Mutant of ImplantSum: the sectors that are not summed are one less.
ImplantSumMore ==
    /\ pc = "sum"
    /\ LET data == Read(Sector)
       IN  IF total < Covered + Sector /\ data # <<>>
           THEN /\ ctx' = MD5_Update(ctx, data) /\ fed' = fed \o data
                /\ at' = at + Len(data)
                /\ total' = (total + Len(data)) % UInt
                /\ UNCHANGED pc
           ELSE pc' = "insert" /\ UNCHANGED <<ctx, fed, at, total>>
    /\ UNCHANGED <<setting, image, master, mediasum, pvd, implanted, verdict>>

\* One sector of the loop, or its end.
ImplantSum ==
    /\ pc = "sum"
    /\ LET data == Read(Sector)
       IN  IF total < Covered /\ data # <<>>
           THEN /\ ctx' = MD5_Update(ctx, data) /\ fed' = fed \o data
                /\ at' = at + Len(data)
                /\ total' = (total + Len(data)) % UInt
                /\ UNCHANGED pc
           ELSE pc' = "insert" /\ UNCHANGED <<ctx, fed, at, total>>
    /\ UNCHANGED <<setting, image, master, mediasum, pvd, implanted, verdict>>

\* new_appdata is written over the application data.
Inserted ==
    [k \in 1 .. Len(image) |->
        IF k = pvd + AppOffset + 1 THEN Digits
        ELSE IF k \in pvd + AppOffset + 2 .. pvd + AppOffset + AppLength
             THEN Space ELSE image[k]]

Insert ==
    /\ pc = "insert"
    /\ image' = Inserted
    /\ mediasum' = MD5_Final(ctx)
    /\ implanted' = IF AppData(image, pvd) = Blank(AppLength)
                    THEN "fresh" ELSE "forced"
    /\ pc' = "burn"
    /\ UNCHANGED <<setting, master, at, pvd, total, ctx, fed, verdict>>

\* "write failed": the program says so and "Done!" all the same.
InsertFails ==
    /\ pc = "insert"
    /\ pc' = "burn"
    /\ UNCHANGED <<setting, image, master, mediasum, at, pvd, total, ctx, fed,
                   implanted, verdict>>

-----------------------------------------------------------------------------
\* The image is burnt: the medium may have one wrong cell, be padded, or not
\* be readable to its end.
Burn ==
    /\ pc = "burn"
    /\ \/ \E k \in 1 .. Len(image) : image' = [image EXCEPT ![k] = Wrong]
       \/ \E k \in 1 .. Len(image) :
             image[k] = Digits /\ image' = [image EXCEPT ![k] = Space]
       \/ \E n \in 1 .. Len(image) \div Sector - FirstSector - 1 :
             image' = SubSeq(image, 1, Len(image) - n * Sector)
       \/ image' = image
       \/ image' = image \o [k \in 1 .. Sector |-> 0]
    /\ master' = image
    /\ pc' = "cparse"
    /\ at' = FirstSector * Sector /\ pvd' = 0
    /\ ctx' = MD5_Init /\ fed' = <<>>
    /\ UNCHANGED <<setting, mediasum, total, implanted, verdict>>

-----------------------------------------------------------------------------
\* checkmd5sum, in checkisomd5.c and mediacheck.c

CheckNext ==
    /\ pc = "cparse" /\ Kind = Other
    /\ at' = at + Sector
    /\ UNCHANGED <<pc, setting, image, master, mediasum, pvd, total, ctx, fed,
                   implanted, verdict>>

\* "No checksum information in iso, check skipped."
CheckNA ==
    /\ pc = "cparse"
    /\ \/ Kind = Eof /\ program = "checkisomd5"
       \/ Kind = Terminator
       \/ Kind = Primary /\ Cell(at + AppOffset) = Space
    /\ pc' = "end"
    /\ verdict' = "na"
    /\ UNCHANGED <<setting, image, master, mediasum, at, pvd, total, ctx, fed,
                   implanted>>

\* mediacheck.c does not look at what read returns and examines the last
\* sector again and again.
CheckSpins ==
    /\ pc = "cparse" /\ Kind = Eof /\ program = "mediacheck"
    /\ UNCHANGED vars

\* The digits are read off the descriptor; anything else there is no sum.
CheckStart ==
    /\ pc = "cparse" /\ Kind = Primary
    /\ Cell(at + AppOffset) # Space
    /\ mediasum' = IF Cell(at + AppOffset) = Digits THEN mediasum ELSE <<>>
    /\ pvd' = at /\ at' = 0
    /\ pc' = "csum"
    /\ UNCHANGED <<setting, image, master, total, ctx, fed, implanted, verdict>>

\* "overwrite md5sum we implanted with original data": the part of the buffer
\* of n cells that is blanked.
Region(n) ==
    LET app == pvd + AppOffset
    IN  CASE at < app /\ at + n >= app ->
               [start |-> app - at,
                end |-> Min({app - at + Min({n, AppLength}), at + n - app})]
          [] at >= app /\ at + n < app + AppLength ->
               [start |-> 0, end |-> n]
          [] at >= app /\ at < app + AppLength /\ at + n >= app + AppLength ->
               [start |-> 0, end |-> app + AppLength - at]
          [] OTHER -> [start |-> 0, end |-> 0]

\* One buffer.  The length of the blanked part is unsigned: with its end
\* before its start, memset runs out of the buffer.
CheckSum ==
    /\ pc = "csum" /\ at < Covered
    /\ LET data == Read(Min({Covered - at, Buffer}))
           r    == Region(Len(data))
           sent == SubSeq(data, 1, r.start) \o Blank(r.end - r.start)
                     \o SubSeq(data, r.end + 1, Len(data))
       IN  /\ data # <<>>
           /\ IF r.end < r.start
              THEN /\ pc' = "end" /\ verdict' = "crash"
                   /\ UNCHANGED <<ctx, fed, at>>
              ELSE /\ ctx' = MD5_Update(ctx, sent) /\ fed' = fed \o sent
                   /\ at' = at + Len(data)
                   /\ UNCHANGED <<pc, verdict>>
    /\ UNCHANGED <<setting, image, master, mediasum, pvd, total, implanted>>

\* Mutants of Compare: the loop does not end with the file; only the first
\* block counts.
CompareWaits ==
    /\ pc = "csum"
    /\ IF at >= Covered
       THEN /\ verdict' = IF mediasum = MD5_Final(ctx) THEN "match" ELSE "differ"
            /\ pc' = "end"
       ELSE Read(Buffer) = <<>> /\ UNCHANGED <<pc, verdict>>
    /\ UNCHANGED <<setting, image, master, mediasum, at, pvd, total, ctx, fed,
                   implanted>>

CompareFirst ==
    /\ pc = "csum"
    /\ at >= Covered \/ Read(Buffer) = <<>>
    /\ verdict' = IF mediasum # <<>> /\ mediasum[1] = MD5_Final(ctx)[1]
                  THEN "match" ELSE "differ"
    /\ pc' = "end"
    /\ UNCHANGED <<setting, image, master, mediasum, at, pvd, total, ctx, fed,
                   implanted>>

\* All is read, or no more can be: "Md5sums match." or "differ."
Compare ==
    /\ pc = "csum"
    /\ at >= Covered \/ Read(Buffer) = <<>>
    /\ verdict' = IF mediasum = MD5_Final(ctx) THEN "match" ELSE "differ"
    /\ pc' = "end"
    /\ UNCHANGED <<setting, image, master, mediasum, at, pvd, total, ctx, fed,
                   implanted>>

Terminated == pc = "end" /\ UNCHANGED vars

Steps ==
    \/ ParseNext \/ ParseFails \/ ImplantStart \/ ImplantSum
    \/ Insert \/ InsertFails
    \/ Burn
    \/ CheckNext \/ CheckNA \/ CheckStart \/ CheckSum \/ Compare

Next == Steps \/ CheckSpins \/ Terminated

Spec == Init /\ [][Next]_vars
\* The programs are sequential and keep running.
FairSpec == Spec /\ WF_vars(Steps)

-----------------------------------------------------------------------------
\* Types.
TypeOK ==
    /\ pc \in {"parse", "sum", "insert", "burn", "cparse", "csum", "end"}
    /\ at \in Nat /\ pvd \in Nat /\ total \in 0 .. UInt - 1
    /\ ctx.low \in 0 .. Word - 1 /\ ctx.high \in 0 .. Word - 1
    /\ Len(ctx.in) = Block
    /\ implanted \in {"no", "fresh", "forced"}
    /\ verdict \in {"none", "na", "differ", "match", "crash"}

\* The medium agrees with the image in all that is summed, except, where
\* apart is TRUE, in the application data.
Agrees(apart) ==
    LET d == Descriptor(master)
    IN  \A k \in 1 .. CoverOf(master, d) :
            \/ apart /\ k \in d + AppOffset + 1 .. d + AppOffset + AppLength
            \/ k <= Len(image) /\ k <= Len(master) /\ image[k] = master[k]

\* The digits are blanked by the expression for the end of the application
\* data: they lie in the first half of what is read with them.
MaskFits ==
    LET app   == Descriptor(master) + AppOffset
        start == app % Buffer
    IN  2 * start < Min({Buffer, CoverOf(master, Descriptor(master))
                                    - (app - start)})

\* README: "and check it again: [...] Md5sums match."  What implantisomd5 put
\* on an image is accepted by the checkers, although one reads sectors and the
\* others buffers, and one sums blanks where the others find digits; for
\* images of less than 2^32 bytes.
ImplantedAccepted ==
    /\ pc = "end" /\ implanted = "fresh" /\ Agrees(FALSE)
    /\ MaskFits /\ CoverOf(master, Descriptor(master)) < UInt
    => verdict = "match"

\* "Md5sums match." is only said of a medium that has every byte of the image
\* that was summed, none of them changed, the descriptor included.
DamageDetected ==
    verdict = "match" => implanted # "no" /\ Agrees(TRUE)

\* At any time MD5_Update has passed on the full blocks of what it was given,
\* keeps the rest and counts all of it; MD5_Final yields the digest of the
\* message, whatever chunks it came in.
Md5Chunks ==
    /\ ctx.buf = Whole(fed)
    /\ SubSeq(ctx.in, 1, ctx.low % Block) = Rest(fed)
    /\ MD5_Final(ctx) = Reference(fed)

\* implantisomd5 writes to the application data of the descriptor only, and,
\* without -f, only where they were unused.
OnlyAppdata ==
    [][image' # image /\ pc # "burn" =>
         /\ force \/ AppData(image, pvd) = Blank(AppLength)
         /\ \A k \in 1 .. Len(image) : image'[k] # image[k] =>
               k \in pvd + AppOffset + 1 .. pvd + AppOffset + AppLength]_vars

\* A check comes to an end, mediacheck's at least where there are descriptors.
CheckEnds ==
    <>(\/ pc = "end"
       \/ pc = "cparse" /\ program = "mediacheck" /\ Kind = Eof)

\* The same of images of any size.
AnySizeAccepted ==
    pc = "end" /\ implanted = "fresh" /\ Agrees(FALSE) /\ MaskFits
    => verdict = "match"
=============================================================================
