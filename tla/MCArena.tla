------------------------------- MODULE MCArena -------------------------------
(* Small arenas for TLC: pages of 4 units, the least alignment is 2 units. *)
EXTENDS Arena

CONSTANTS t1, t2
==============================================================================
