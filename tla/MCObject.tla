------------------------------ MODULE MCObject -------------------------------
(* Instances of CallConv and of Reloc, the two passes over the code of an   *)
(* object: a function that runs, or an instruction that is relocated.       *)
EXTENDS CallConv, Reloc

VARIABLE part   \* "function" or "instruction"

objectVars == <<part, vars, relocVars>>

(* Functions: an entry block and two more, every shape of the control flow *)
(* between them with a loop, a join and a diamond.                         *)
TwoRegs == {"pc", "r"}
OneOther == {"m"}

LoadR == [op |-> "load", f |-> "r"]
LoadM == [op |-> "load", f |-> "m"]
StoreR == [op |-> "store", f |-> "r"]
StoreM == [op |-> "store", f |-> "m"]
ConstPc == [op |-> "const", f |-> "pc"]
HelperCall == [op |-> "helper", f |-> "m"]
GuestWrite == [op |-> "other", f |-> "m"]
CallGuest == [op |-> "call", f |-> "pc"]

EntryBodies ==
  {<<>>, <<LoadR>>, <<StoreR>>, <<LoadR, StoreR>>, <<StoreR, LoadR>>, <<HelperCall>>,
   <<GuestWrite, LoadR>>, <<StoreM, LoadR>>}
MidBodies ==
  LET I == {LoadR, LoadM, StoreR, ConstPc, CallGuest, HelperCall}
  IN  {<<>>} \union {<<x>> : x \in I} \union {<<x, y>> : x, y \in I}
        \union {<<StoreR, CallGuest, LoadR>>, <<StoreR, CallGuest, StoreR>>,
                <<CallGuest, StoreR, LoadR>>, <<StoreR, LoadM, ConstPc>>}
LastBodies == {<<>>, <<StoreR>>, <<ConstPc>>, <<CallGuest>>, <<StoreM, StoreR>>}

Block(body, term, succ) == [body |-> body, term |-> term, succ |-> succ]

SmallFuncs ==
  {<<Block(e, "br", s), Block(m, tm[1], tm[2]), Block(l, tl[1], tl[2])>> :
     e \in EntryBodies, m \in MidBodies, l \in LastBodies,
     s \in {{2}, {2, 3}},
     tm \in {<<"br", {2, 3}>>, <<"br", {3}>>, <<"tail", {}>>},
     tl \in {<<"br", {2}>>, <<"ret", {}>>, <<"tail", {}>>}}

(* Distances around the limits of 12, 13, 21 and 28 bits. *)
NearLimits ==
  LET d == {0, 4, 10, 1004, 2046, 2047, 2048, 2049, 2728, 2730, 4092, 4094, 4095, 4096, 4100,
            1048574, 1048575, 1048576, 1398100, 134217724, 134217727, 134217728, 134217732,
            200000000}
  IN  {Site + x : x \in d} \union {Site - x : x \in d}

SomeBits == {0 .. 63, {0, 1, 5, 6, 9, 31, 32, 33, 60}}

ObjectInit ==
  \/ /\ part = "function"
     /\ type = "RISCV_CALL" /\ orig = (0 .. 63) \ Field(type) /\ RelocInit
     /\ Init
  \/ /\ part = "instruction"
     /\ fn = CHOOSE f \in Funcs : Lifted(f)
     /\ Init
     /\ RelocInit

ObjectNext ==
  \/ part = "function" /\ Next /\ UNCHANGED <<part, relocVars>>
  \/ part = "instruction" /\ RelocNext /\ UNCHANGED <<part, vars>>

ObjectSpec == ObjectInit /\ [][ObjectNext]_objectVars
==============================================================================
