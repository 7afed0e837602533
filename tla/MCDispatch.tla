----------------------------- MODULE MCDispatch ------------------------------
(* Instances of Dispatch for TLC. *)
EXTENDS Dispatch

(* Three blocks; 16 and 48 share a slot of a TLB with two entries. *)
ThreePcs == {16, 32, 48}

(* 16 and 32 jump to each other and to 48; 48 is a loop of its own. *)
Linked == [a \in ThreePcs |-> IF a = 48 THEN {48} ELSE ThreePcs \ {a}]

(* Without -callret, and with the C calling convention, no block names    *)
(* another.                                                               *)
Unlinked == [a \in ThreePcs |-> {}]
==============================================================================
