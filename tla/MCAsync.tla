------------------------------ MODULE MCAsync ------------------------------
(* Instances of TclAsync for TLC.                                          *)
EXTENDS TclAsync

CONSTANTS t1, t2, h1, h2

============================================================================
