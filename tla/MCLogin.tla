------------------------------- MODULE MCLogin -------------------------------
(* One login: a library, a socket, a session and a channel.                  *)
EXTENDS Login

CONSTANTS lib, k1, s1, c1, f1, f2, none
=============================================================================
