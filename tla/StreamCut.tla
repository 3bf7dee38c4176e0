----------------------------- MODULE StreamCut -----------------------------
(***************************************************************************)
(* What cutstream promises to tar-it.sh and to makeISO9660.sh.             *)
(*                                                                         *)
(* A backup stream of len bytes (byte k of the stream is the number k) is  *)
(* delivered in order.  Whenever the current piece is full it is sealed    *)
(* under the next volume number; the first piece holds cap bytes, every    *)
(* later one Volume bytes.  The stream is finished when all of it has been *)
(* delivered and the current piece still has room.                         *)
(***************************************************************************)
EXTENDS Naturals, Sequences

CONSTANT Volume         \* size in bytes of every piece but the first

VARIABLES
    len,                \* length of the stream
    cap,                \* room on the volume on which the stream starts
    first,              \* number of volumes made before the stream started
    out,                \* the bytes delivered so far, in order
    sealed,             \* the sealed pieces: their volume number and end
    state               \* "run", "ok" or "fail"

vars == <<len, cap, first, out, sealed, state>>

\* Length of the output at which the current piece is full.
Limit == IF sealed = <<>> THEN cap ELSE sealed[Len(sealed)].upto + Volume

Init ==
    /\ len \in Nat /\ cap \in Nat /\ first \in Nat
    /\ out = <<>>
    /\ sealed = <<>>
    /\ state = "run"

Deliver ==
    /\ state = "run"
    /\ \E n \in 1 .. len :
          /\ Len(out) + n <= len
          /\ Len(out) + n <= Limit
          /\ out' = [k \in 1 .. (Len(out) + n) |-> k]
    /\ UNCHANGED <<len, cap, first, sealed, state>>

Seal ==
    /\ state = "run"
    /\ Len(out) = Limit
    /\ sealed' = Append(sealed, [vol  |-> first + Len(sealed) + 1,
                                 upto |-> Len(out)])
    /\ UNCHANGED <<len, cap, first, out, state>>

Finish ==
    /\ state = "run"
    /\ Len(out) = len
    /\ Len(out) # Limit
    /\ state' = "ok"
    /\ UNCHANGED <<len, cap, first, out, sealed>>

Fail ==
    /\ state = "run"
    /\ state' = "fail"
    /\ UNCHANGED <<len, cap, first, out, sealed>>

Next == Deliver \/ Seal \/ Finish \/ Fail

Spec == Init /\ [][Next]_vars
=============================================================================
