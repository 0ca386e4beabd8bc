------------------------------ MODULE MCRelays -------------------------------
(* Two bytes, a buffer and a window smaller than what the sides write.       *)
EXTENDS Relays

CONSTANTS a, b
=============================================================================
