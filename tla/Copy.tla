-------------------------------- MODULE Copy ---------------------------------
(* What a file transfer promises.  The bytes of the file come out in order,  *)
(* each at most once and nothing besides them; a byte is left out only where *)
(* a local call fell short of what it was asked for, and the transfer, which *)
(* does not look at that, goes on or takes it for the end.  Where none did,  *)
(* a transfer that ends without an error has copied the whole file.          *)
EXTENDS Naturals, Sequences

VARIABLES
    in, out,     \* the file and the destination
    at,          \* how far into the file the transfer has come
    shortfall,   \* a local call fell short
    verdict      \* open, whole or cut

Init == out = <<>> /\ at = 0 /\ shortfall = FALSE /\ verdict = "open"

(* The next bytes of the file come out.                                      *)
Extend ==
    /\ verdict = "open"
    /\ \E n \in at + 1 .. Len(in) : out' = out \o SubSeq(in, at + 1, n) /\ at' = n
    /\ UNCHANGED <<in, shortfall, verdict>>

(* A start of them does, and the rest of them never will.                    *)
FallShort ==
    /\ verdict = "open"
    /\ \E n \in at .. Len(in) : \E m \in at .. n :
         out' = out \o SubSeq(in, at + 1, m) /\ at' = n
    /\ shortfall' = TRUE
    /\ UNCHANGED <<in, verdict>>

Finish ==
    /\ verdict = "open"
    /\ shortfall' \in {shortfall, TRUE}
    /\ verdict' \in {"cut"} \cup {v \in {"whole"} : out = in \/ shortfall'}
    /\ UNCHANGED <<in, out, at>>

Next == Extend \/ FallShort \/ Finish

Spec == Init /\ [][Next]_<<in, out, at, shortfall, verdict>>
=============================================================================
