------------------------------- MODULE MCCache -------------------------------
(* Instances of Cache for TLC. *)
EXTENDS Cache

TwoServers == {1, 2}

(* One inode more than there can be names and open files. *)
SixInodes == 1 .. 6
==============================================================================
