----------------------------- MODULE MCTransfer ------------------------------
(* Files of up to five bytes through a buffer of three.  With the loops, the *)
(* tables of the programs around them are evaluated (Knowledge).             *)
EXTENDS Transfer, Knowledge

CONSTANTS a, b, status
=============================================================================
