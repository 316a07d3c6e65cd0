------------------------------ MODULE MCNotify ------------------------------
(* Instances of TclNotify for TLC.                                         *)
EXTENDS TclNotify, TLC

CONSTANTS t1, p1, e1, e2, e3

(* One event of another type than the others.                              *)
Types == [e \in Event |-> IF e = e1 THEN "timer" ELSE "file"]

(* Events of the same type are interchangeable.                            *)
EventSymmetry == Permutations({e2, e3})
=============================================================================
