------------------------------ MODULE MCMutex ------------------------------
(* Instances of TclMutex for TLC.                                          *)
EXTENDS TclMutex, TLC

CONSTANTS t1, t2, t3, o1, o2

Symmetric == Permutations({t1, t2, t3}) \cup Permutations({o1, o2})
=============================================================================
