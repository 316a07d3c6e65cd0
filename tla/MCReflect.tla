------------------------------ MODULE MCReflect ------------------------------
(* Instances of TclReflect for TLC.                                        *)
EXTENDS TclReflect, TLC

CONSTANTS s1, s2, h1, h2, i1, i2, i3, c1, c2, c3

(* The interpreters i1 and i2 of one thread implement channels, i3 of      *)
(* another one a transformation, which the owner of c1 uses too.           *)
Threads == (i1 :> h1) @@ (i2 :> h1) @@ (i3 :> h2)
Homes == (c1 :> i1) @@ (c2 :> i2) @@ (c3 :> i3)
Owners == (c1 :> s1) @@ (c2 :> s2) @@ (c3 :> s1)

(* What follows a use of freed memory is not explored.                     *)
Defined == ~freedUse
=============================================================================
