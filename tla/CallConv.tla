------------------------------ MODULE CallConv -------------------------------
(***************************************************************************)
(* ChangeCallConv of server/callconv.cc: a lifted function keeps the guest *)
(* registers in the CPU state in memory; the pass moves the fields of the  *)
(* calling convention into arguments and return values.  It replaces loads *)
(* at the entry and after calls (FoldLoads), takes stores in front of      *)
(* calls and returns as the values handed over (FoldStores), and finds the *)
(* values that are left either with PHI nodes or, if the CPU state is      *)
(* still used, in memory (CreateStores, UpdateCallRet).                    *)
(*                                                                         *)
(* A function is a control-flow graph over the instructions the pass tells *)
(* apart.  The function before and the function after the pass run in lock *)
(* step along every path, and the values they see are compared.  The       *)
(* lifter, which produces the function, and LLVM are external.             *)
(***************************************************************************)
EXTENDS Integers, Sequences, FiniteSets

CONSTANTS
  Regs,      \* the fields of the calling convention
  Others,    \* the other fields of the CPU state
  Pc,        \* the field at offset 0
  Funcs,     \* lifted functions
  MaxBlocks  \* bound: basic blocks executed

ASSUME CallConvAssumption == Pc \in Regs /\ Regs \cap Others = {} /\ MaxBlocks \in Nat

VARIABLES
  fn,     \* the lifted function: blocks with a body, a terminator, successors
  nfn,    \* the same function after the pass
  bb,     \* the block that runs
  pos,    \* the position in it
  time,   \* how many blocks ran
  cpu,    \* the CPU state of fn
  mem,    \* the CPU state in memory of nfn
  ret,    \* per block of nfn: the values its call returned
  phi     \* per block of nfn: its PHI nodes

vars == <<fn, nfn, bb, pos, time, cpu, mem, ret, phi>>

Fields == Regs \union Others

(* Instructions: a load or store of a whole field, a store of a constant,  *)
(* a helper that gets the CPU state, a write to guest memory, a call of    *)
(* instrew_call_cdecl.  Terminators: "br", "ret", "tail".                  *)
Entry == 1

Instructions == [op : {"load", "store", "const", "helper", "other", "call"}, f : Fields]

(* LLVM: the entry block has no predecessors. *)
ASSUME FuncsAssumption ==
  \A f \in Funcs :
    /\ Entry \in DOMAIN f
    /\ \A b \in DOMAIN f :
         /\ f[b].body \in Seq(Instructions)
         /\ f[b].term \in {"br", "ret", "tail"}
         /\ f[b].succ \subseteq DOMAIN f \ {Entry}

----------------------------------------------------------------------------
(* The pass *)

IsStore(ins) == ins.op \in {"store", "const"}
MayWriteToMemory(ins) == ins.op # "load"

(* Where control leaves the function: calls, and the end of a block that   *)
(* returns or tail calls.                                                  *)
CallsOf(f, b) == {i \in DOMAIN f[b].body : f[b].body[i].op = "call"}
Ends(f, b) == IF f[b].term = "br" THEN {} ELSE {Len(f[b].body) + 1}
Sites(f) == UNION {{<<b, i>> : i \in CallsOf(f, b) \union Ends(f, b)} : b \in DOMAIN f}
callret_calls(f) ==
  {s \in Sites(f) : s[2] \in CallsOf(f, s[1]) \/ f[s[1]].term = "tail"}

(* Mutant: a write to the CPU state does not end the search. *)
FoldLoadsPast(f, b, i) ==
  {j \in i + 1 .. Len(f[b].body) :
     /\ f[b].body[j].op = "load" /\ f[b].body[j].f \in Regs
     /\ \A k \in i + 1 .. j - 1 : f[b].body[k].op # "call"}

(* FoldLoads: loads after position i of block b with no write in between. *)
FoldLoads(f, b, i) ==
  {j \in i + 1 .. Len(f[b].body) :
     /\ f[b].body[j].op = "load" /\ f[b].body[j].f \in Regs
     /\ \A k \in i + 1 .. j - 1 : ~MayWriteToMemory(f[b].body[k])}

(* The loads that get the value of an argument, and those that get a       *)
(* value of the call of their block.                                       *)
ArgLoads(f) == {<<Entry, j>> : j \in FoldLoads(f, Entry, 0)}
RetLoads(f) ==
  UNION {{<<b, j>> : j \in UNION {FoldLoads(f, b, i) : i \in CallsOf(f, b)}} : b \in DOMAIN f}
Folded(f) == ArgLoads(f) \union RetLoads(f)

(* The backward walk of FoldStores ends at a use of the CPU state; a load  *)
(* that was folded is gone.                                                *)
StopsStores(f, b, k) ==
  \/ f[b].body[k].op \in {"helper", "call"}
  \/ f[b].body[k].op = "load" /\ <<b, k>> \notin Folded(f)

(* FoldStores: the stores whose values are handed over at a site. *)
FoldStores(f, s) ==
  {j \in 1 .. s[2] - 1 :
     /\ IsStore(f[s[1]].body[j]) /\ f[s[1]].body[j].f \in Regs
     /\ \A k \in j + 1 .. s[2] - 1 : ~StopsStores(f, s[1], k)}
FoldedStores(f) == UNION {{<<s[1], j>> : j \in FoldStores(f, s)} : s \in Sites(f)}

Instrs(f) == UNION {{<<b, i>> : i \in DOMAIN f[b].body} : b \in DOMAIN f}
Ins(f, p) == f[p[1]].body[p[2]]

(* sptr_escapes: the CPU state is passed on, a field is still loaded, or a *)
(* store is left.                                                          *)
Escapes(f) ==
  \E p \in Instrs(f) :
    \/ Ins(f, p).op = "helper"
    \/ Ins(f, p).op = "load" /\ Ins(f, p).f \in Regs /\ p \notin Folded(f)
    \/ IsStore(Ins(f, p)) /\ Ins(f, p).f \in Regs /\ p \notin FoldedStores(f)

(* Where the value of field r comes from at a site: position j of a folded *)
(* store, or one of                                                        *)
(*   0   an argument, when the function calls nothing                      *)
(*   -1  a PHI node of the block                                           *)
(*   -2  a load from the CPU state                                         *)
Source(f, s, r) ==
  LET js == {j \in FoldStores(f, s) : f[s[1]].body[j].f = r}
  IN  IF js # {} THEN CHOOSE j \in js : TRUE
      ELSE IF Escapes(f) THEN -2
      ELSE IF callret_calls(f) = {} THEN 0 ELSE -1

(* last_producer: blocks whose values at the end are known. *)
Producers(f) == {Entry} \union {s[1] : s \in Sites(f)}
Preds(f, b) == {p \in DOMAIN f : b \in f[p].succ}

(* Wiring the PHI nodes of field r: first the blocks whose sites need one, *)
(* then, until none is missing, the predecessors that are no producers; so *)
(* the least set of blocks that is closed under this.                      *)
Needs(f, r) == {s[1] : s \in {t \in Sites(f) : Source(f, t, r) = -1}}
Wired(f, B) == \A b \in B : Preds(f, b) \ Producers(f) \subseteq B
PhiBlocks(f, r) ==
  LET first == Needs(f, r)
  IN  {b \in DOMAIN f : \A B \in SUBSET DOMAIN f : first \subseteq B /\ Wired(f, B) => b \in B}

Phis(f) == {p \in (DOMAIN f) \X Regs : p[1] \in PhiBlocks(f, p[2])}

ChangeCallConv(f) ==
  [escapes |-> Escapes(f), args |-> ArgLoads(f), rets |-> RetLoads(f),
   erased |-> FoldedStores(f), phis |-> Phis(f),
   source |-> [s \in Sites(f) |-> [r \in Regs |-> Source(f, s, r)]]]

(* What the lifter generates, and the pass asserts: at most one call in a  *)
(* block, none in front of a return, no store overwritten before it is     *)
(* handed over; without memory, none in the entry block.                   *)
Lifted(f) ==
  /\ \A b \in DOMAIN f :
       /\ Cardinality(CallsOf(f, b)) <= 1
       /\ CallsOf(f, b) # {} => f[b].term = "br"
  /\ \A s \in Sites(f) : \A j, k \in FoldStores(f, s) :
       f[s[1]].body[j].f = f[s[1]].body[k].f => j = k
  /\ Escapes(f) \/ \A s \in Sites(f) : s[1] # Entry

----------------------------------------------------------------------------
(* Execution *)

(* Values are named after where they come from. *)
Arg(r) == <<"arg", r, 0>>
Returned(r) == <<"ret", r, time>>
Dead(r) == <<"dead", r, 0>>
Stored(ins, j) ==
  IF ins.op = "const" THEN <<"const", ins.f, 10 * bb + j>>
  ELSE <<"st", ins.f, 100 * time + 10 * bb + j>>

(* CreateStores at the entry; otherwise fields of the convention are dead  *)
(* in memory.                                                              *)
Entered(escapes) == [x \in Fields |-> IF escapes \/ x \in Others THEN Arg(x) ELSE Dead(x)]

Init ==
  /\ fn \in {f \in Funcs : Lifted(f)}
  /\ nfn = ChangeCallConv(fn)
  /\ bb = Entry /\ pos = 1 /\ time = 0
  /\ cpu = [x \in Fields |-> Arg(x)]
  /\ mem = Entered(nfn.escapes)
  /\ ret = [b \in DOMAIN fn |-> [r \in Regs |-> Dead(r)]]
  /\ phi = [b \in DOMAIN fn |-> [r \in Regs |-> Dead(r)]]

Body == fn[bb].body
AtEnd == pos > Len(Body)
Running == pos > 0
Cur == Body[pos]

Step(op) == Running /\ ~AtEnd /\ Cur.op \in op /\ pos' = pos + 1 /\ UNCHANGED <<fn, nfn, bb, time>>

Load == Step({"load"}) /\ UNCHANGED <<cpu, mem, ret, phi>>

WriteGuestMemory == Step({"other"}) /\ UNCHANGED <<cpu, mem, ret, phi>>

Store ==
  /\ Step({"store", "const"})
  /\ cpu' = [cpu EXCEPT ![Cur.f] = Stored(Cur, pos)]
  /\ mem' = IF <<bb, pos>> \in nfn.erased THEN mem
            ELSE [mem EXCEPT ![Cur.f] = Stored(Cur, pos)]
  /\ UNCHANGED <<ret, phi>>

(* A helper may change all of the CPU state it gets. *)
Helper ==
  /\ Step({"helper"})
  /\ cpu' = [x \in Fields |-> <<"help", x, 100 * time + 10 * bb + pos>>]
  /\ mem' = cpu'
  /\ UNCHANGED <<ret, phi>>

(* Mutant: the results of a call are not stored. *)
AfterCallBare(escapes) == [x \in Fields |-> IF x \in Others THEN Returned(x) ELSE Dead(x)]

(* CreateStores after a call. *)
AfterCall(escapes) ==
  [x \in Fields |-> IF escapes \/ x \in Others THEN Returned(x) ELSE Dead(x)]

Call ==
  /\ Step({"call"})
  /\ cpu' = [x \in Fields |-> Returned(x)]
  /\ mem' = AfterCall(nfn.escapes)
  /\ ret' = [ret EXCEPT ![bb] = [r \in Regs |-> Returned(r)]]
  /\ UNCHANGED phi

(* Mutant: a block that calls passes on what it got. *)
IncomingThrough(r) == IF bb = Entry THEN Arg(r) ELSE phi[bb][r]

(* What the PHI nodes of a successor get from block bb. *)
Incoming(r) ==
  IF bb = Entry THEN Arg(r)
  ELSE IF bb \in Producers(fn) THEN ret[bb][r] ELSE phi[bb][r]

Branch(b) ==
  /\ Running /\ AtEnd /\ fn[bb].term = "br" /\ b \in fn[bb].succ /\ time < MaxBlocks
  /\ bb' = b /\ pos' = 1 /\ time' = time + 1
  /\ phi' = [phi EXCEPT ![b] =
               [r \in Regs |-> IF <<b, r>> \in nfn.phis THEN Incoming(r) ELSE Dead(r)]]
  /\ UNCHANGED <<fn, nfn, cpu, mem, ret>>

Leave ==
  /\ Running /\ AtEnd /\ fn[bb].term # "br"
  /\ pos' = 0
  /\ UNCHANGED <<fn, nfn, bb, time, cpu, mem, ret, phi>>

Next ==
  \/ Load \/ WriteGuestMemory \/ Store \/ Helper \/ Call \/ Leave
  \/ \E b \in DOMAIN fn : Branch(b)

Spec == Init /\ [][Next]_vars

----------------------------------------------------------------------------

AtSite == Running /\ <<bb, pos>> \in DOMAIN nfn.source

(* UpdateCallRet: what is handed over for a field.  A call of a constant   *)
(* address calls the function named after it (FuncConstName) instead.      *)
Value(r) ==
  LET s == nfn.source[<<bb, pos>>][r]
  IN  CASE s > 0  -> Stored(Body[s], s)
        [] s = 0  -> Arg(r)
        [] s = -1 -> phi[bb][r]
        [] s = -2 -> mem[r]

(* At every call, tail call and return the convention's fields carry the   *)
(* values that the lifted function leaves in the CPU state, and the other  *)
(* fields have theirs in memory.                                           *)
HandsOver ==
  AtSite => /\ \A r \in Regs : Value(r) = cpu[r]
            /\ \A x \in Others : mem[x] = cpu[x]

(* Every load reads what it read before the pass, from an argument, the    *)
(* result of a call, or memory.                                            *)
LoadsAgree ==
  Running /\ ~AtEnd /\ Cur.op = "load" =>
    cpu[Cur.f] = IF <<bb, pos>> \in nfn.args THEN Arg(Cur.f)
                 ELSE IF <<bb, pos>> \in nfn.rets THEN ret[bb][Cur.f] ELSE mem[Cur.f]

(* A helper that gets the CPU state finds all of it up to date in memory. *)
HelpersSeeState == Running /\ ~AtEnd /\ Cur.op = "helper" => mem = cpu
==============================================================================
