-------------------------------- MODULE Pipe ---------------------------------
(* What a forwarded direction of a TCP connection promises: bytes come out   *)
(* in the order they went in, each at most once, in pieces of any size, and  *)
(* nothing else comes out.  A pipe may stop at any time.                     *)
EXTENDS Naturals, Sequences

CONSTANT Data
VARIABLES in, out

Init == in = <<>> /\ out = <<>>

Put ==
    /\ \E d \in Data : in' = Append(in, d)
    /\ out' = out

Get ==
    /\ \E n \in Len(out) + 1 .. Len(in) : out' = SubSeq(in, 1, n)
    /\ in' = in

Next == Put \/ Get

Spec == Init /\ [][Next]_<<in, out>>
=============================================================================
