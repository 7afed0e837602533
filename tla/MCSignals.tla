------------------------------ MODULE MCSignals ------------------------------
(* Instances of Signals with the signals' numbers. *)
EXTENDS Signals

UsrSigs == {6, 10}            \* SIGABRT, SIGUSR1
ChldSigs == {6, 17}           \* SIGABRT, SIGCHLD
Chld == {17}
Usr == {10}
ChldSegv == {17, 11}
AnyWait == {{}}
UsrMasks == {{}, {10}}
SegvMasks == {{}, {11}}
GuestOnly == {"guest"}
AllActs == {"guest", "dfl", "ign"}
==============================================================================
