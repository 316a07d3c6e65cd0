---------------------------- MODULE MCChanOutput ----------------------------
(* Instances of TclChanOutput for TLC.                                     *)
EXTENDS TclChanOutput

CONSTANTS i1, i2
=============================================================================
