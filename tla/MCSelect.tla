------------------------------ MODULE MCSelect ------------------------------
(* Instances of TclSelectNotfy for TLC.                                    *)
EXTENDS TclSelectNotfy, TLC

(* Threads are interchangeable.                                            *)
Symmetry == Permutations(Thread)

(* Descriptors of the instances; 0 to 2 stand for the standard channels.   *)
OneFd == {3}
=============================================================================
