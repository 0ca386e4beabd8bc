---------------------------- MODULE MCShellClient ----------------------------
(* The loop of main on two bytes and short histories.                        *)
EXTENDS ShellClient

CONSTANTS a, b, nul, none
=============================================================================
