------------------------------- MODULE MCX11 ---------------------------------
(* Three clients, which may all be connected at a time.                      *)
EXTENDS X11

CONSTANTS x, y, z, none
=============================================================================
