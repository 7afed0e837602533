-------------------------------- MODULE Cache --------------------------------
(***************************************************************************)
(* The translation cache (server/cache.cc, with CacheProbe and SendObject  *)
(* of server/connection.cc and the key made by Translate): one file per    *)
(* key, shared by the servers of all programs that run.  A server looks    *)
(* for the file and sends it, or compiles the code, sends the object and   *)
(* stores it through a temporary file.  Files are modelled as the kernel   *)
(* has them: names refer to inodes, and open files and locks outlive the   *)
(* name.                                                                   *)
(***************************************************************************)
EXTENDS Integers, FiniteSets

CONSTANTS
  Servers,
  Addrs,        \* addresses with the same code bytes
  Inodes,
  Size,         \* the length of an object, in writes
  Pic,          \* -pic
  AllowRead, AllowWrite,
  MayFail,      \* system calls may fail
  MayCrash,     \* servers may be killed
  MaxAsks       \* bound: translations asked for

ASSUME CacheAssumption ==
  /\ Addrs \subseteq Nat \ {0} /\ Inodes \subseteq Nat \ {0} /\ 0 \notin Servers
  /\ Size \in Nat \ {0} /\ MaxAsks \in Nat
  /\ {Pic, AllowRead, AllowWrite, MayFail, MayCrash} \subseteq BOOLEAN

VARIABLES
  real, tmp,    \* per key: the inode the name refers to, 0: no such file
  len, data,    \* per inode: its length, the address its object was made for
  lock,         \* per inode: the server that has locked it, 0: none
  pc, addr,     \* per server: where it is, the address it translates
  fd,           \* per server: the inode it has open, 0: none
  off, size,    \* per server: file offset, st_size
  asks,         \* the translations asked for
  failed        \* history: the keys for which the look under the lock, a write or a
                \* rename in Put has failed

vars == <<real, tmp, len, data, lock, pc, addr, fd, off, size, asks, failed>>
files == <<real, tmp, len, data, lock>>

(* Mutant: the address is not hashed. *)
KeyOfCode(a) == 0

(* Translate hashes the address only for code that is not relocatable. *)
Key(a) == IF Pic THEN 0 ELSE a
Keys == {Key(a) : a \in Addrs}

Init ==
  /\ real = [k \in Keys |-> 0] /\ tmp = [k \in Keys |-> 0]
  /\ len = [n \in Inodes |-> 0] /\ data = [n \in Inodes |-> 0]
  /\ lock = [n \in Inodes |-> 0]
  /\ pc = [p \in Servers |-> "idle"] /\ addr = [p \in Servers |-> 0]
  /\ fd = [p \in Servers |-> 0]
  /\ off = [p \in Servers |-> 0] /\ size = [p \in Servers |-> 0]
  /\ asks = 0 /\ failed = {}

Goto(p, next) == pc' = [pc EXCEPT ![p] = next]
KeyOf(p) == Key(addr[p])
Fail(p) == failed' = failed \union {KeyOf(p)}

(* Files that have no name and are open in no server but p. *)
Orphans(p) ==
  {n \in Inodes : /\ \A k \in Keys : real[k] # n /\ tmp[k] # n
                  /\ \A q \in Servers \ {p} : fd[q] # n}

(* A server closes what it has open, which gives up its locks and ends     *)
(* files that have no name.                                                *)
Done(p) ==
  /\ LET gone == Orphans(p)
     IN  /\ len' = [n \in Inodes |-> IF n \in gone THEN 0 ELSE len[n]]
         /\ data' = [n \in Inodes |-> IF n \in gone THEN 0 ELSE data[n]]
  /\ Goto(p, "idle") /\ addr' = [addr EXCEPT ![p] = 0]
  /\ fd' = [fd EXCEPT ![p] = 0]
  /\ off' = [off EXCEPT ![p] = 0] /\ size' = [size EXCEPT ![p] = 0]
  /\ lock' = [n \in Inodes |-> IF lock[n] = p THEN 0 ELSE lock[n]]

----------------------------------------------------------------------------
(* Get and CacheProbe *)

(* An open that fails, for whatever reason, is a miss. *)
GetOpen(p, a) ==
  /\ pc[p] = "idle" /\ asks < MaxAsks /\ asks' = asks + 1
  /\ addr' = [addr EXCEPT ![p] = a]
  /\ \/ /\ AllowRead /\ real[Key(a)] # 0
        /\ Goto(p, "stat") /\ fd' = [fd EXCEPT ![p] = real[Key(a)]]
     \/ /\ ~AllowRead \/ real[Key(a)] = 0 \/ MayFail
        /\ Goto(p, "compile") /\ UNCHANGED fd
  /\ UNCHANGED <<files, off, size, failed>>

(* Mutant: the file is taken to be as long as an object. *)
GetStatWhole(p) ==
  /\ pc[p] = "stat"
  /\ Goto(p, "send") /\ size' = [size EXCEPT ![p] = Size]
  /\ UNCHANGED <<files, addr, fd, off, asks, failed>>

GetStat(p) ==
  /\ pc[p] = "stat"
  /\ \/ Goto(p, "send") /\ size' = [size EXCEPT ![p] = len[fd[p]]] /\ UNCHANGED fd
     \/ MayFail /\ Goto(p, "compile") /\ fd' = [fd EXCEPT ![p] = 0] /\ UNCHANGED size
  /\ UNCHANGED <<files, addr, off, asks, failed>>

(* Sendfile goes on until st_size bytes are sent. *)
Sendfile(p) ==
  /\ pc[p] = "send" /\ off[p] < size[p]
  /\ \E n \in 0 .. Size :
       /\ n <= size[p] - off[p] /\ off[p] + n <= len[fd[p]]
       /\ n = 0 => off[p] = len[fd[p]]
       /\ off' = [off EXCEPT ![p] = @ + n]
  /\ UNCHANGED <<files, pc, addr, fd, size, asks, failed>>

Sent(p) ==
  /\ pc[p] = "send" /\ off[p] = size[p]
  /\ Done(p)
  /\ UNCHANGED <<real, tmp, asks, failed>>

----------------------------------------------------------------------------
(* Put, after SendObject *)

(* The temporary file is created if there is none, and not emptied if      *)
(* there is.                                                               *)
PutOpen(p) ==
  /\ pc[p] = "compile"
  /\ \/ /\ AllowWrite
        /\ LET t == tmp[KeyOf(p)]
           IN  \/ t # 0 /\ fd' = [fd EXCEPT ![p] = t] /\ UNCHANGED <<tmp, len, data>>
               \/ /\ t = 0
                  /\ \E n \in Orphans(p) :
                       /\ \A m \in Orphans(p) : n <= m
                       /\ fd' = [fd EXCEPT ![p] = n]
                       /\ tmp' = [tmp EXCEPT ![KeyOf(p)] = n]
                       /\ len' = [len EXCEPT ![n] = 0] /\ data' = [data EXCEPT ![n] = 0]
        /\ Goto(p, "lock")
        /\ UNCHANGED <<real, lock, addr, off, size>>
     \/ /\ ~AllowWrite \/ MayFail
        /\ Done(p) /\ UNCHANGED <<real, tmp>>
  /\ UNCHANGED <<asks, failed>>

PutLock(p) ==
  /\ pc[p] = "lock"
  /\ \/ /\ lock[fd[p]] \in {0, p}
        /\ Goto(p, "check") /\ lock' = [lock EXCEPT ![fd[p]] = p]
        /\ UNCHANGED <<len, data, addr, fd, off, size>>
     \/ /\ lock[fd[p]] \notin {0, p} \/ MayFail
        /\ Done(p)
  /\ UNCHANGED <<real, tmp, asks, failed>>

(* Mutant: the file is not looked for again under the lock. *)
PutCheckNot(p) ==
  /\ pc[p] = "check"
  /\ Goto(p, "write")
  /\ UNCHANGED <<files, addr, fd, off, size, asks, failed>>

(* The file is taken to be absent whenever its open fails. *)
PutCheck(p) ==
  /\ pc[p] = "check"
  /\ \/ Goto(p, IF real[KeyOf(p)] # 0 THEN "unlink" ELSE "write") /\ UNCHANGED failed
     \/ MayFail /\ real[KeyOf(p)] # 0 /\ Fail(p) /\ Goto(p, "write")
  /\ UNCHANGED <<files, addr, fd, off, size, asks>>

(* write_full *)
PutWrite(p) ==
  /\ pc[p] = "write" /\ off[p] < Size
  /\ LET n == fd[p]
     IN  \/ /\ off' = [off EXCEPT ![p] = @ + 1]
            /\ len' = [len EXCEPT ![n] = IF @ > off[p] THEN @ ELSE off[p] + 1]
            /\ data' = [data EXCEPT ![n] = addr[p]]
            /\ UNCHANGED <<pc, failed>>
         \/ MayFail /\ Fail(p) /\ Goto(p, "unlink") /\ UNCHANGED <<off, len, data>>
  /\ UNCHANGED <<real, tmp, lock, addr, fd, size, asks>>

(* Mutant: the file gets its name before it is complete. *)
PutRenameEarly(p) ==
  /\ pc[p] = "write"
  /\ real' = [real EXCEPT ![KeyOf(p)] = tmp[KeyOf(p)]] /\ tmp' = [tmp EXCEPT ![KeyOf(p)] = 0]
  /\ Done(p)
  /\ UNCHANGED <<asks, failed>>

PutRename(p) ==
  /\ pc[p] = "write" /\ off[p] = Size
  /\ LET t == tmp[KeyOf(p)]
     IN  \/ /\ t # 0
            /\ real' = [real EXCEPT ![KeyOf(p)] = t] /\ tmp' = [tmp EXCEPT ![KeyOf(p)] = 0]
            /\ Goto(p, "close") /\ UNCHANGED failed
         \/ /\ \/ t = 0 /\ UNCHANGED failed
               \/ t # 0 /\ MayFail /\ Fail(p)
            /\ Goto(p, "unlink") /\ UNCHANGED <<real, tmp>>
  /\ UNCHANGED <<len, data, lock, addr, fd, off, size, asks>>

PutUnlink(p) ==
  /\ pc[p] = "unlink"
  /\ \/ tmp' = [tmp EXCEPT ![KeyOf(p)] = 0]
     \/ MayFail /\ UNCHANGED tmp
  /\ Goto(p, "close")
  /\ UNCHANGED <<real, len, data, lock, addr, fd, off, size, asks, failed>>

PutClose(p) ==
  /\ pc[p] = "close"
  /\ Done(p)
  /\ UNCHANGED <<real, tmp, asks, failed>>

(* A server ends anywhere, and another one takes its place. *)
Crash(p) ==
  /\ MayCrash /\ pc[p] # "idle"
  /\ Done(p)
  /\ UNCHANGED <<real, tmp, asks, failed>>

----------------------------------------------------------------------------

Step(p) ==
  \/ GetStat(p) \/ Sendfile(p) \/ Sent(p)
  \/ PutOpen(p) \/ PutLock(p) \/ PutCheck(p) \/ PutWrite(p) \/ PutRename(p)
  \/ PutUnlink(p) \/ PutClose(p)

Next == \E p \in Servers : Step(p) \/ Crash(p) \/ \E a \in Addrs : GetOpen(p, a)

Spec == Init /\ [][Next]_vars

(* No call blocks; programs need not ask. *)
FairSpec == Spec /\ \A p \in Servers : WF_vars(Step(p))

----------------------------------------------------------------------------

Files == Inodes \union {0}

(* The variables of files and servers have their types. *)
TypeOK ==
  /\ real \in [Keys -> Files] /\ tmp \in [Keys -> Files]
  /\ len \in [Inodes -> 0 .. Size] /\ data \in [Inodes -> Addrs \union {0}]
  /\ lock \in [Inodes -> Servers \union {0}]
  /\ pc \in [Servers -> {"idle", "stat", "send", "compile", "lock", "check", "write",
                         "unlink", "close"}]
  /\ addr \in [Servers -> Addrs \union {0}]
  /\ fd \in [Servers -> Files]
  /\ off \in [Servers -> 0 .. Size] /\ size \in [Servers -> 0 .. Size]
  /\ failed \subseteq Keys /\ asks \in 0 .. MaxAsks

(* "someone else got it already": a file that has its name is complete, so *)
(* a server that finds it need not write it, although others are killed    *)
(* while they write, or fail for other keys.  It is claimed for a key until *)
(* Put fails for it: an open of the final file that fails, though the file *)
(* is there, is taken for its absence, and a write or a rename that fails  *)
(* unlinks a name that may be another server's by then.                    *)
RealIsComplete == \A k \in Keys \ failed : real[k] # 0 => len[real[k]] = Size

(* Until Put fails for its key a file that has its name is never written   *)
(* to, nor is it replaced.                                                 *)
RealIsFinal ==
  [][\A k \in Keys \ failed' : real[k] # 0 =>
       real'[k] = real[k] /\ len'[real[k]] = len[real[k]] /\ data'[real[k]] = data[real[k]]]_vars

(* Until Put fails for its key, what is sent from a file is the whole      *)
(* object for the address asked for.                                       *)
HitsFit ==
  \A p \in Servers :
    pc[p] = "send" /\ KeyOf(p) \notin failed => size[p] = Size /\ data[fd[p]] = addr[p]

(* Every look-up and every store ends, whatever other servers do. *)
Ends == \A p \in Servers : pc[p] # "idle" ~> pc[p] = "idle"
==============================================================================
