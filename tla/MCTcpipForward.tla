---------------------------- MODULE MCTcpipForward ---------------------------
(* Two bytes, a buffer and a window smaller than what the sides write.       *)
EXTENDS TcpipForward

CONSTANTS a, b
=============================================================================
