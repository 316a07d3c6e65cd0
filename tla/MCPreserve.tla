----------------------------- MODULE MCPreserve -----------------------------
(* Instances of TclPreserve for TLC.                                       *)
EXTENDS TclPreserve

CONSTANTS b1, b2, b3, h1, h2, h3, x1

=============================================================================
