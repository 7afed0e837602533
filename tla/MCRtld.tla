------------------------------- MODULE MCRtld --------------------------------
(* Readers and entries for TLC. *)
EXTENDS Rtld

CONSTANTS r1, r2, e1, e2
==============================================================================
