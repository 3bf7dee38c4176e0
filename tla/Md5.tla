-------------------------------- MODULE Md5 --------------------------------
(***************************************************************************)
(* mediacheck/md5.c: how MD5_Update and MD5_Final cut a stream that comes  *)
(* in chunks of any length into the blocks that MD5_Transform digests.     *)
(* The transformation itself is taken to have no collisions: the digest is *)
(* the sequence of the blocks.                                             *)
(***************************************************************************)
EXTENDS Integers, Sequences

CONSTANTS
    Block,              \* length of a block (64 bytes)
    Word                \* a counter word overflows at this length (2^32 bits)

\* The two counter words at the end of the last block (8 bytes).
Trailer == 2

ASSUME Md5Assumption ==
    /\ Block \in Nat /\ Block > Trailer
    /\ Word \in Nat /\ Word > 0 /\ Word % Block = 0

Zeros(n) == [k \in 1 .. n |-> 0]

\* memcpy(in + used, data, Len(data))
Copy(in, used, data) ==
    SubSeq(in, 1, used) \o data \o SubSeq(in, used + Len(data) + 1, Block)

\* The full blocks at the beginning of data, and what follows them.
Whole(data) ==
    [k \in 1 .. Len(data) \div Block |->
        SubSeq(data, (k - 1) * Block + 1, k * Block)]
Rest(data) == SubSeq(data, (Len(data) \div Block) * Block + 1, Len(data))

MD5_Init == [low |-> 0, high |-> 0, in |-> Zeros(Block), buf |-> <<>>]

\* Mutant of Count: the carry is lost.
CountNoCarry(ctx, len) ==
    [ctx EXCEPT !.low = (ctx.low + len) % Word,
                !.high = (ctx.high + (len \div Word)) % Word]

\* "Update bitcount", with the carry from the low to the high word.
Count(ctx, len) ==
    LET low == (ctx.low + len) % Word
    IN  [ctx EXCEPT
            !.low = low,
            !.high = (ctx.high + (IF low < ctx.low THEN 1 ELSE 0)
                      + (len \div Word)) % Word]

\* These blocks are digested and the input buffer is filled anew.
Absorb(ctx, len, blocks, in) ==
    [Count(ctx, len) EXCEPT !.buf = ctx.buf \o blocks, !.in = in]

\* "Handle any leading odd-sized chunks", then the full blocks, then the rest.
MD5_Update(ctx, data) ==
    LET used == ctx.low % Block
        room == Block - used
    IN  IF used > 0 /\ Len(data) < room
        THEN Absorb(ctx, Len(data), <<>>, Copy(ctx.in, used, data))
        ELSE LET head  == IF used = 0 THEN 0 ELSE room
                 first == Copy(ctx.in, used, SubSeq(data, 1, head))
                 tail  == SubSeq(data, head + 1, Len(data))
             IN  Absorb(ctx, Len(data),
                        (IF used = 0 THEN <<>> ELSE <<first>>) \o Whole(tail),
                        Copy(ctx.in, 0, Rest(tail)))

\* The padding mark, zeros, and the counter at the end of a block, for which
\* the current one may have no room.
MD5_Final(ctx) ==
    LET used   == ctx.low % Block
        marked == Copy(ctx.in, used, <<128>>)
        left   == Block - 1 - used
        count  == <<ctx.low, ctx.high>>
    IN  IF left < Trailer
        THEN ctx.buf \o << Copy(marked, used + 1, Zeros(left)),
                           Zeros(Block - Trailer) \o count >>
        ELSE Append(ctx.buf,
                    Copy(Copy(marked, used + 1, Zeros(left - Trailer)),
                         Block - Trailer, count))

-----------------------------------------------------------------------------
\* What MD5 says of a message, whatever chunks it came in: the message, the
\* mark, zeros up to the length, the length.
Reference(data) ==
    LET zeros == (2 * Block - 1 - Trailer - (Len(data) % Block)) % Block
    IN  Whole(data \o <<128>> \o Zeros(zeros)
                   \o <<Len(data) % Word, (Len(data) \div Word) % Word>>)
=============================================================================
