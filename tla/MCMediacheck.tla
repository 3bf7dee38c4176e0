---------------------------- MODULE MCMediacheck ----------------------------
(***************************************************************************)
(* A sector of 7 cells of some 290 bytes: the application data are cells 3 *)
(* and 4, the digits are in the first of them.  Descriptors start where    *)
(* the second buffer of the checker does, as in the program.  Images have  *)
(* 6, 8 or 9 sectors, of which 2 are not summed; "total" overflows after 7.  *)
(***************************************************************************)
EXTENDS Mediacheck

\* The descriptors that follow each other, by their types; 0 is a boot record.
Tables == {<<1, 255>>, <<0, 1, 255>>, <<0, 0, 1, 255>>, <<0, 255>>, <<0>>}

\* An image of n sectors whose application data begin with the cell c.
Image(table, n, c) ==
    [k \in 1 .. n * Sector |->
        LET s == (k - 1) \div Sector - FirstSector + 1
            p == (k - 1) % Sector
        IN  IF s \notin 1 .. Len(table) THEN 7
            ELSE CASE p = 0 -> table[s]
                   [] p = SizeOffset -> n
                   [] p = AppOffset -> c
                   [] p \in AppOffset + 1 .. AppOffset + AppLength - 1 -> Space
                   [] OTHER -> 0]

MCImages ==
    {Image(t, n, c) : t \in Tables, n \in {6, 8, 9}, c \in {Space, 5}}
=============================================================================
