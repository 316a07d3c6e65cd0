------------------------------- MODULE MCTimer -------------------------------
(* Instances of TclTimer for TLC.                                          *)
EXTENDS TclTimer

CONSTANTS a1, a2, p1

=============================================================================
