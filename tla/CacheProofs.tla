----------------------------- MODULE CacheProofs -----------------------------
(***************************************************************************)
(* Theorems about module Cache, for any number of servers, keys and files, *)
(* with servers that are killed and calls that fail anywhere: the types,   *)
(* RealIsComplete, RealIsFinal, and HitsFit for code that is not           *)
(* relocatable.                                                            *)
(***************************************************************************)
EXTENDS Cache, TLAPS

(* No file has two names. *)
OneName ==
  /\ \A j, k \in Keys : real[j] # 0 => real[j] # tmp[k]
  /\ \A j, k \in Keys : real[j] = real[k] /\ real[j] # 0 => j = k
  /\ \A j, k \in Keys : tmp[j] = tmp[k] /\ tmp[j] # 0 => j = k

(* What a server has in hand. *)
InHand(p) ==
  /\ pc[p] # "idle" => addr[p] \in Addrs
  /\ pc[p] \notin {"idle", "compile"} => fd[p] # 0
  /\ pc[p] \in {"check", "write"} => lock[fd[p]] = p
  /\ pc[p] \notin {"send", "write", "unlink", "close"} => off[p] = 0

(* The file of a server that stores has no name of another key. *)
Own(p) ==
  pc[p] \in {"lock", "check", "write"} =>
    \A k \in Keys : k # KeyOf(p) => real[k] # fd[p] /\ tmp[k] # fd[p]

(* Until Put fails for its key, a writer writes to the temporary file of   *)
(* the key, which no finished file replaces under its hands.               *)
Writing(p) ==
  /\ pc[p] \in {"lock", "check", "write"} => fd[p] = tmp[KeyOf(p)] \/ real[KeyOf(p)] # 0
  /\ pc[p] = "write" =>
       /\ real[KeyOf(p)] = 0 /\ off[p] <= len[fd[p]]
       /\ off[p] > 0 => data[fd[p]] \in Addrs /\ Key(data[fd[p]]) = KeyOf(p)
  /\ pc[p] = "unlink" => real[KeyOf(p)] # 0

Reading(p) ==
  /\ pc[p] \in {"stat", "send"} => real[KeyOf(p)] # 0 /\ fd[p] = real[KeyOf(p)]
  /\ pc[p] = "send" => size[p] = Size

Complete(k) ==
  real[k] # 0 => len[real[k]] = Size /\ data[real[k]] \in Addrs /\ Key(data[real[k]]) = k

Fine(p) == KeyOf(p) \notin failed => Writing(p) /\ Reading(p)

(* The inductive invariant. *)
Inv ==
  /\ TypeOK /\ OneName
  /\ \A p \in Servers : InHand(p) /\ Own(p) /\ Fine(p)
  /\ \A k \in Keys \ failed : Complete(k)

(* A key belongs to its address. *)
LEMMA KeyType == ASSUME NEW a \in Addrs PROVE Key(a) \in Keys
BY Zenon DEF Keys

(* At the start there are no files. *)
LEMMA InitInv == Init => Inv
<1> SUFFICES ASSUME Init PROVE Inv
  BY Zenon
<1>1. TypeOK
  <2>1. failed \subseteq Keys
    BY Zenon DEF Init
  <2> QED BY <2>1, CacheAssumption DEF Init, TypeOK, Files
<1>2. OneName
  BY Zenon DEF Init, OneName
<1>3. \A p \in Servers : InHand(p) /\ Own(p) /\ Fine(p)
  BY Zenon DEF Init, InHand, Own, Fine, Writing, Reading
<1>4. \A k \in Keys : Complete(k)
  BY Zenon DEF Init, Complete
<1> QED BY <1>1, <1>2, <1>3, <1>4, Zenon DEF Inv

(* Two writers never write to the same file, nor, where Put has not failed, *)
(* for the same key.                                                       *)
LEMMA OneWriter ==
  ASSUME Inv, NEW p \in Servers, NEW q \in Servers, pc[p] = "write", pc[q] = "write",
         fd[p] = fd[q] \/ (KeyOf(p) = KeyOf(q) /\ KeyOf(p) \notin failed)
  PROVE  p = q
<1>1. lock[fd[p]] = p /\ lock[fd[q]] = q
  BY Zenon DEF Inv, InHand
<1>2. CASE KeyOf(p) = KeyOf(q) /\ KeyOf(p) \notin failed
  <2>1. fd[p] = tmp[KeyOf(p)] /\ fd[q] = tmp[KeyOf(q)]
    BY <1>2, Zenon DEF Inv, Fine, Writing
  <2> QED BY <1>1, <1>2, <2>1, Zenon
<1> QED BY <1>1, <1>2, Zenon

(* The file a writer has open is the temporary file of its key. *)
LEMMA WritesTmp ==
  ASSUME Inv, NEW p \in Servers, KeyOf(p) \notin failed, pc[p] = "write"
  PROVE  /\ KeyOf(p) \in Keys /\ fd[p] \in Inodes /\ fd[p] = tmp[KeyOf(p)]
         /\ \A k \in Keys : real[k] # fd[p]
<1>1. addr[p] \in Addrs /\ KeyOf(p) \in Keys
  BY KeyType, Zenon DEF Inv, InHand, KeyOf
<1>2. fd[p] = tmp[KeyOf(p)] /\ fd[p] # 0
  BY Zenon DEF Inv, Fine, Writing, InHand
<1> QED BY <1>1, <1>2, Zenon DEF Inv, OneName, TypeOK, Files

(* No write goes to the file with the final name of a key, until Put fails *)
(* for the key.                                                            *)
LEMMA WritesElsewhere ==
  ASSUME Inv, NEW p \in Servers, pc[p] = "write", NEW k \in Keys \ failed
  PROVE  real[k] # fd[p]
<1>1. CASE k = KeyOf(p)
  BY <1>1, WritesTmp, Zenon
<1>2. CASE k # KeyOf(p)
  BY <1>2, Zenon DEF Inv, Own
<1> QED BY <1>1, <1>2, Zenon

(* Done leaves the files that have a name, and those that others have open,*)
(* as they are.                                                            *)
LEMMA DoneInv ==
  ASSUME Inv, NEW p \in Servers, Done(p), UNCHANGED <<real, tmp, asks, failed>>
  PROVE  Inv'
<1>1. TypeOK'
  BY CacheAssumption DEF Inv, TypeOK, Done, Goto, Files
<1>2. OneName'
  BY Zenon DEF Inv, OneName, Keys
<1>3. \A q \in Servers : q # p =>
        /\ pc'[q] = pc[q] /\ addr'[q] = addr[q] /\ fd'[q] = fd[q]
        /\ off'[q] = off[q] /\ size'[q] = size[q]
  BY Zenon DEF Inv, TypeOK, Done, Goto
<1>4. \A n \in Inodes : lock[n] # p => lock'[n] = lock[n]
  BY Zenon DEF Done
<1>5. \A n \in Inodes : n \notin Orphans(p) => len'[n] = len[n] /\ data'[n] = data[n]
  BY Zenon DEF Done
<1>6. pc'[p] = "idle" /\ off'[p] = 0
  BY Zenon DEF Inv, TypeOK, Done, Goto
<1>7. ASSUME NEW q \in Servers PROVE InHand(q)'
  <2>1. CASE q = p
    BY <2>1, <1>6, Zenon DEF InHand
  <2>2. CASE q # p
    <3>1. InHand(q) /\ fd[q] \in Files
      BY Zenon DEF Inv, TypeOK
    <3>2. pc[q] \in {"check", "write"} => lock'[fd[q]] = lock[fd[q]]
      BY <3>1, <2>2, <1>4, Zenon DEF InHand, Files
    <3> QED BY <3>1, <3>2, <2>2, <1>3, Zenon DEF InHand
  <2> QED BY <2>1, <2>2, Zenon
<1>8. ASSUME NEW q \in Servers PROVE Own(q)' /\ Fine(q)'
  <2>1. CASE q = p
    BY <2>1, <1>6, Zenon DEF Own, Fine, Writing, Reading
  <2>2. CASE q # p
    <3>2. KeyOf(q)' = KeyOf(q)
      BY <2>2, <1>3, Zenon DEF KeyOf, Key
    <3>7. Own(q)'
      BY <2>2, <3>2, <1>3, Zenon DEF Inv, Own, Keys, Key
    <3>8. SUFFICES ASSUME KeyOf(q) \notin failed PROVE Writing(q)' /\ Reading(q)'
      BY <3>2, <3>7, Zenon DEF Fine
    <3>1. Writing(q) /\ Reading(q) /\ InHand(q)
      BY <3>8, Zenon DEF Inv, Fine
    <3>3. fd[q] # 0 => fd[q] \in Inodes /\ fd[q] \notin Orphans(p)
      BY <2>2, Zenon DEF Inv, TypeOK, Files, Orphans
    <3>4. fd[q] # 0 => len'[fd[q]] = len[fd[q]] /\ data'[fd[q]] = data[fd[q]]
      BY <3>3, <1>5, Zenon
    <3>5. Reading(q)'
      BY <3>1, <3>2, <2>2, <1>3, Zenon DEF Reading
    <3>6. Writing(q)'
      BY <3>1, <3>2, <3>4, <2>2, <1>3, Zenon DEF Writing, InHand, Key
    <3> QED BY <3>5, <3>6, Zenon
  <2> QED BY <2>1, <2>2, Zenon
<1>9. ASSUME NEW k \in Keys \ failed PROVE Complete(k)'
  <2>1. real[k] # 0 => real[k] \in Inodes /\ real[k] \notin Orphans(p)
    BY Zenon DEF Inv, TypeOK, Files, Orphans
  <2> QED BY <2>1, <1>5, <1>9, Zenon DEF Inv, Complete, Key
<1> QED BY <1>1, <1>2, <1>7, <1>8, <1>9, Zenon DEF Inv, Keys, Key

(* Steps that change nothing but what server p has in hand. *)
LEMMA Others ==
  ASSUME Inv, NEW p \in Servers, UNCHANGED files, failed \subseteq failed', TypeOK',
         \A q \in Servers \ {p} :
           /\ pc'[q] = pc[q] /\ addr'[q] = addr[q] /\ fd'[q] = fd[q]
           /\ off'[q] = off[q] /\ size'[q] = size[q],
         InHand(p)', Own(p)', Fine(p)'
  PROVE  Inv'
<1>1. OneName'
  BY Zenon DEF Inv, OneName, files, Keys
<1>2. ASSUME NEW q \in Servers \ {p} PROVE InHand(q)' /\ Own(q)' /\ Fine(q)'
  <2>1. KeyOf(q)' = KeyOf(q)
    BY <1>2, Zenon DEF KeyOf, Key
  <2>2. InHand(q)'
    BY <1>2, Zenon DEF Inv, InHand, files
  <2>3. KeyOf(q) \notin failed => Writing(q)'
    BY <1>2, <2>1, Zenon DEF Inv, Fine, Writing, files, Key
  <2>4. KeyOf(q) \notin failed => Reading(q)'
    BY <1>2, <2>1, Zenon DEF Inv, Fine, Reading, files
  <2>5. Own(q)'
    BY <1>2, <2>1, Zenon DEF Inv, Own, files, Keys, Key
  <2> QED BY <2>1, <2>2, <2>3, <2>4, <2>5, Zenon DEF Fine
<1>3. \A k \in Keys \ failed' : Complete(k)'
  BY Zenon DEF Inv, Complete, files, Key
<1> QED BY <1>1, <1>2, <1>3, Zenon DEF Inv, Keys, Key

(* Looking for the file. *)
LEMMA GetOpenInv ==
  ASSUME Inv, NEW p \in Servers, NEW a \in Addrs, GetOpen(p, a) PROVE Inv'
<1> USE DEF GetOpen, Goto
<1>1. Key(a) \in Keys
  BY KeyType, Zenon
<1>2. TypeOK'
  BY <1>1, CacheAssumption DEF Inv, TypeOK, files, Files
<1>3. InHand(p)'
  BY <1>1, Zenon DEF Inv, TypeOK, InHand, Files
<1>4. KeyOf(p)' = Key(a)
  BY Zenon DEF Inv, TypeOK, KeyOf, Key
<1>5. Fine(p)'
  BY <1>4 DEF Inv, TypeOK, Fine, Writing, Reading, files
<1>6. Own(p)'
  BY Zenon DEF Inv, TypeOK, Own
<1>7. UNCHANGED files /\ failed' = failed
  BY Zenon
<1> QED BY <1>2, <1>3, <1>5, <1>6, <1>7, Others, Zenon DEF Inv, TypeOK

(* The size is that of a complete file. *)
LEMMA GetStatInv ==
  ASSUME Inv, NEW p \in Servers, GetStat(p) PROVE Inv'
<1> USE DEF GetStat, Goto
<1>1. fd[p] \in Inodes /\ addr[p] \in Addrs /\ KeyOf(p) \in Keys
  BY KeyType, Zenon DEF Inv, TypeOK, InHand, Files, KeyOf
<1>2. TypeOK'
  BY <1>1, Zenon DEF Inv, TypeOK, files, Files
<1>3. InHand(p)'
  BY Zenon DEF Inv, TypeOK, InHand
<1>4. KeyOf(p)' = KeyOf(p)
  BY Zenon DEF KeyOf, Key
<1>5. KeyOf(p) \in failed \/ len[fd[p]] = Size
  <2>1. Fine(p) /\ pc[p] = "stat" /\ (KeyOf(p) \notin failed => Complete(KeyOf(p)))
    BY <1>1, Zenon DEF Inv
  <2> QED BY <2>1, Zenon DEF Fine, Reading, Complete
<1>6. Writing(p)' /\ Own(p)'
  BY Zenon DEF Inv, TypeOK, Writing, Own
<1>7. KeyOf(p) \notin failed => Reading(p)'
  BY <1>4, <1>5, Zenon DEF Inv, TypeOK, Fine, Reading, files
<1>8. Fine(p)'
  BY <1>4, <1>6, <1>7, Zenon DEF Fine
<1> QED BY <1>2, <1>3, <1>6, <1>8, Others, Zenon DEF Inv, TypeOK

(* Sending changes the offset only. *)
LEMMA SendfileInv ==
  ASSUME Inv, NEW p \in Servers, Sendfile(p) PROVE Inv'
<1> USE DEF Sendfile
<1>1. fd[p] \in Inodes /\ len[fd[p]] \in 0 .. Size
  BY Zenon DEF Inv, TypeOK, InHand, Files
<1>2. PICK n \in 0 .. Size : off[p] + n <= len[fd[p]] /\ off' = [off EXCEPT ![p] = @ + n]
  BY Zenon
<1>3. TypeOK'
  BY <1>1, <1>2, CacheAssumption DEF Inv, TypeOK, files
<1>4. InHand(p)'
  BY Zenon DEF Inv, InHand, files
<1>5. KeyOf(p)' = KeyOf(p)
  BY Zenon DEF KeyOf, Key
<1>6. Writing(p)' /\ Own(p)'
  BY Zenon DEF Writing, Own
<1>7. KeyOf(p) \notin failed => Reading(p)'
  BY <1>5, Zenon DEF Inv, Fine, Reading, files
<1>8. Fine(p)'
  BY <1>5, <1>6, <1>7, Zenon DEF Fine
<1> QED BY <1>2, <1>3, <1>4, <1>6, <1>8, Others, Zenon DEF Inv, TypeOK

(* The look under the lock. *)
LEMMA PutCheckInv ==
  ASSUME Inv, NEW p \in Servers, PutCheck(p) PROVE Inv'
<1> USE DEF PutCheck, Goto
<1>1. fd[p] \in Inodes /\ len[fd[p]] \in 0 .. Size /\ off[p] = 0
  BY Zenon DEF Inv, TypeOK, InHand, Files
<1>4. KeyOf(p)' = KeyOf(p) /\ KeyOf(p) \in Keys
  BY KeyType, Zenon DEF KeyOf, Key, Inv, InHand
<1>2. TypeOK'
  <2>1. failed' \subseteq Keys /\ Keys' = Keys
    BY <1>4, Zenon DEF Inv, TypeOK, Fail, Keys, Key
  <2> QED BY <2>1, Zenon DEF Inv, TypeOK, files
<1>3. InHand(p)'
  BY Zenon DEF Inv, TypeOK, InHand, files
<1>5. ASSUME UNCHANGED failed,
             pc' = [pc EXCEPT ![p] = IF real[KeyOf(p)] # 0 THEN "unlink" ELSE "write"]
      PROVE  Fine(p)'
  <2>1. KeyOf(p) \notin failed => Writing(p)'
    BY <1>1, <1>4, <1>5, CacheAssumption DEF Inv, TypeOK, Fine, Writing, files
  <2>2. Reading(p)'
    BY Zenon DEF Inv, TypeOK, Reading
  <2> QED BY <1>4, <1>5, <2>1, <2>2, Zenon DEF Fine
<1>6. ASSUME Fail(p) PROVE Fine(p)'
  BY <1>4, <1>6, Zenon DEF Fine, Fail
<1>7. Fine(p)'
  BY <1>5, <1>6, Zenon
<1>8. Own(p)'
  BY <1>4, Zenon DEF Inv, TypeOK, Own, files, Keys, Key
<1>9. failed \subseteq failed' /\ UNCHANGED files
  BY Zenon DEF Fail
<1> QED BY <1>2, <1>3, <1>7, <1>8, <1>9, Others, Zenon DEF Inv, TypeOK

(* Only the lock of the file changes hands, and it was free. *)
LEMMA PutLockInv ==
  ASSUME Inv, NEW p \in Servers, PutLock(p) PROVE Inv'
<1> USE DEF PutLock, Goto
<1>1. CASE Done(p)
  BY <1>1, DoneInv, Zenon
<1>2. CASE /\ lock[fd[p]] \in {0, p} /\ pc' = [pc EXCEPT ![p] = "check"]
           /\ lock' = [lock EXCEPT ![fd[p]] = p] /\ UNCHANGED <<len, data, addr, fd, off, size>>
  <2>1. fd[p] \in Inodes /\ off[p] = 0
    BY Zenon DEF Inv, TypeOK, InHand, Files
  <2>2. /\ lock' = [lock EXCEPT ![fd[p]] = p] /\ pc' = [pc EXCEPT ![p] = "check"]
        /\ UNCHANGED <<real, tmp, len, data, addr, fd, off, size, asks, failed>>
        /\ pc[p] = "lock"
    BY <1>2, Zenon
  <2>3. TypeOK'
    BY <2>1, <2>2, Zenon DEF Inv, TypeOK
  <2>4. OneName'
    BY <2>2, Zenon DEF Inv, OneName, Keys
  <2>5. ASSUME NEW q \in Servers PROVE InHand(q)'
    <3>1. CASE q = p
      BY <3>1, <2>1, <2>2, Zenon DEF Inv, TypeOK, InHand
    <3>2. CASE q # p
      <4>1. pc'[q] = pc[q]
        BY <3>2, <2>2, Zenon DEF Inv, TypeOK
      <4>2. pc[q] \in {"check", "write"} => fd[q] # fd[p] /\ fd[q] \in Inodes
        BY <3>2, <1>2, CacheAssumption DEF Inv, InHand, TypeOK, Files
      <4> QED BY <4>1, <4>2, <2>2, Zenon DEF Inv, TypeOK, InHand
    <3> QED BY <3>1, <3>2, Zenon
  <2>6. ASSUME NEW q \in Servers PROVE Own(q)' /\ Fine(q)'
    <3>1. KeyOf(q)' = KeyOf(q)
      BY <2>2, Zenon DEF KeyOf, Key
    <3>2. pc'[q] = pc[q] \/ (pc[q] = "lock" /\ pc'[q] = "check")
      <4>1. CASE q = p
        BY <4>1, <2>2, Zenon DEF Inv, TypeOK
      <4>2. CASE q # p
        BY <4>2, <2>2, Zenon DEF Inv, TypeOK
      <4> QED BY <4>1, <4>2, Zenon
    <3>3. KeyOf(q) \notin failed => Writing(q)'
      BY <2>2, <3>1, <3>2, Zenon DEF Inv, Fine, Writing, Key
    <3>4. KeyOf(q) \notin failed => Reading(q)'
      BY <2>2, <3>1, <3>2, Zenon DEF Inv, Fine, Reading
    <3>5. Own(q)'
      BY <2>2, <3>1, <3>2, Zenon DEF Inv, Own, Keys, Key
    <3> QED BY <2>2, <3>1, <3>3, <3>4, <3>5, Zenon DEF Fine
  <2>7. \A k \in Keys \ failed : Complete(k)'
    BY <2>2, Zenon DEF Inv, Complete, Key
  <2> QED BY <2>2, <2>3, <2>4, <2>5, <2>6, <2>7 DEF Inv, Keys, Key
<1> QED BY <1>1, <1>2, Zenon

(* The temporary file is opened, or made from a file without a name. *)
LEMMA PutOpenInv ==
  ASSUME Inv, NEW p \in Servers, PutOpen(p) PROVE Inv'
<1> USE DEF Goto
<1>1. CASE Done(p) /\ UNCHANGED <<real, tmp, asks, failed>>
  BY <1>1, DoneInv, Zenon
<1>2. ASSUME NEW n \in Inodes, pc[p] = "compile", fd' = [fd EXCEPT ![p] = n],
             tmp' = [tmp EXCEPT ![KeyOf(p)] = n],
             \/ n = tmp[KeyOf(p)] /\ UNCHANGED <<tmp, len, data>>
             \/ /\ n \in Orphans(p) /\ tmp[KeyOf(p)] = 0
                /\ len' = [len EXCEPT ![n] = 0] /\ data' = [data EXCEPT ![n] = 0],
             pc' = [pc EXCEPT ![p] = "lock"],
             UNCHANGED <<real, lock, addr, off, size, asks, failed>>
      PROVE  Inv'
  <2>1. addr[p] \in Addrs /\ KeyOf(p) \in Keys
    BY <1>2, KeyType, Zenon DEF Inv, InHand, KeyOf
  <2>2. \A q \in Servers : KeyOf(q)' = KeyOf(q)
    BY <1>2, Zenon DEF KeyOf, Key
  <2>3. TypeOK'
    BY <1>2, <2>1, CacheAssumption DEF Inv, TypeOK, Files
  <2>4. n = tmp[KeyOf(p)] \/ \A k \in Keys : real[k] # n /\ tmp[k] # n
    BY <1>2, Zenon DEF Orphans
  <2>5. n # 0
    BY <1>2, CacheAssumption, Zenon
  <2>6. \A k \in Keys : tmp'[k] = IF k = KeyOf(p) THEN n ELSE tmp[k]
    BY <1>2, Zenon DEF Inv, TypeOK
  <2>7. OneName'
    BY <1>2, <2>1, <2>4, <2>5, <2>6 DEF Inv, OneName, Keys, Key
  <2>8. \A q \in Servers \ {p} : pc'[q] = pc[q] /\ fd'[q] = fd[q]
    BY <1>2, Zenon DEF Inv, TypeOK
  <2>9. pc'[p] = "lock" /\ fd'[p] = n
    BY <1>2, Zenon DEF Inv, TypeOK
  <2>10. ASSUME NEW q \in Servers PROVE InHand(q)'
    <3>1. CASE q = p
      BY <3>1, <1>2, <2>1, <2>5, <2>9, Zenon DEF Inv, InHand
    <3>2. CASE q # p
      BY <3>2, <1>2, <2>8, Zenon DEF Inv, InHand
    <3> QED BY <3>1, <3>2, Zenon
  <2>11. \A m \in Inodes : (m # n \/ n \notin Orphans(p)) => len'[m] = len[m] /\ data'[m] = data[m]
    BY <1>2, Zenon DEF Inv, TypeOK
  <2>14. ASSUME NEW q \in Servers PROVE Own(q)'
    <3>1. CASE q = p
      <4>1. \A k \in Keys : k # KeyOf(p) => real[k] # n /\ tmp[k] # n
        <5>1. OneName
          BY Zenon DEF Inv
        <5>2. CASE n = tmp[KeyOf(p)]
          BY <5>1, <5>2, <2>1, <2>5 DEF OneName
        <5> QED BY <5>2, <2>4, Zenon
      <4>2. \A k \in Keys : k # KeyOf(p) => real'[k] # n /\ tmp'[k] # n
        BY <4>1, <2>6, <1>2, Zenon
      <4> QED BY <3>1, <4>2, <2>2, <2>9, Zenon DEF Own, Keys, Key
    <3>2. CASE q # p
      <4>1. fd[q] = n => n \notin Orphans(p)
        BY <3>2, Zenon DEF Orphans
      <4>2. Own(q) /\ (pc[q] # "idle" => KeyOf(q) \in Keys)
        BY KeyType, Zenon DEF Inv, InHand, KeyOf
      <4>3. ASSUME pc[q] \in {"lock", "check", "write"}, NEW k \in Keys, k # KeyOf(q)
            PROVE  real[k] # fd[q] /\ tmp'[k] # fd[q]
        <5>1. real[k] # fd[q] /\ tmp[k] # fd[q]
          BY <4>2, <4>3, Zenon DEF Own
        <5> QED BY <5>1, <4>1, <2>6, <1>2, Zenon
      <4> QED BY <4>3, <3>2, <2>2, <2>8, <1>2, Zenon DEF Own, Keys, Key
    <3> QED BY <3>1, <3>2, Zenon
  <2>12. ASSUME NEW q \in Servers, KeyOf(q) \notin failed PROVE Writing(q)' /\ Reading(q)'
    <3>1. CASE q = p
      BY <3>1, <2>1, <2>2, <2>6, <2>9, Zenon DEF Writing, Reading
    <3>2. CASE q # p
      <4>1. Writing(q) /\ Reading(q) /\ InHand(q)
        BY <2>12, Zenon DEF Inv, Fine
      <4>2. fd[q] # 0 => fd[q] \in Inodes /\ fd[q] \notin Orphans(p)
        BY <3>2, Zenon DEF Inv, TypeOK, Files, Orphans
      <4>3. fd[q] # 0 => len'[fd[q]] = len[fd[q]] /\ data'[fd[q]] = data[fd[q]]
        BY <4>2, <2>11, Zenon
      <4>4. fd[q] # 0 /\ fd[q] = tmp[KeyOf(q)] => fd[q] = tmp'[KeyOf(q)]
        BY <1>2
      <4>5. Writing(q)'
        BY <3>2, <4>1, <4>3, <4>4, <2>2, <2>8, <1>2, Zenon DEF Writing, InHand, Key
      <4>6. Reading(q)'
        BY <3>2, <4>1, <2>2, <2>8, <1>2, Zenon DEF Reading
      <4> QED BY <4>5, <4>6, Zenon
    <3> QED BY <3>1, <3>2, Zenon
  <2>13. ASSUME NEW k \in Keys \ failed PROVE Complete(k)'
    <3>1. real[k] # 0 => real[k] \in Inodes /\ (real[k] # n \/ n \notin Orphans(p))
      BY Zenon DEF Inv, TypeOK, Files, Orphans
    <3> QED BY <3>1, <2>11, <2>13, <1>2, Zenon DEF Inv, Complete, Key
  <2>15. \A q \in Servers : Fine(q)'
    BY <2>2, <2>12, <1>2, Zenon DEF Fine
  <2> QED BY <2>3, <2>7, <2>10, <2>13, <2>14, <2>15, <1>2, Zenon DEF Inv, Keys, Key
<1>3. ASSUME tmp[KeyOf(p)] # 0, pc[p] = "compile"
      PROVE  /\ tmp[KeyOf(p)] \in Inodes
             /\ tmp = [tmp EXCEPT ![KeyOf(p)] = tmp[KeyOf(p)]]
  <2>1. KeyOf(p) \in Keys
    BY <1>3, KeyType, Zenon DEF Inv, InHand, KeyOf
  <2> QED BY <1>3, <2>1, Zenon DEF Inv, TypeOK, Files
<1>4. CASE /\ pc[p] = "compile" /\ tmp[KeyOf(p)] # 0
           /\ fd' = [fd EXCEPT ![p] = tmp[KeyOf(p)]] /\ pc' = [pc EXCEPT ![p] = "lock"]
           /\ UNCHANGED <<tmp, len, data, real, lock, addr, off, size, asks, failed>>
  BY <1>2, <1>3, <1>4, Zenon
<1>5. CASE /\ pc[p] = "compile" /\ tmp[KeyOf(p)] = 0 /\ pc' = [pc EXCEPT ![p] = "lock"]
           /\ \E n \in Orphans(p) :
                /\ fd' = [fd EXCEPT ![p] = n] /\ tmp' = [tmp EXCEPT ![KeyOf(p)] = n]
                /\ len' = [len EXCEPT ![n] = 0] /\ data' = [data EXCEPT ![n] = 0]
           /\ UNCHANGED <<real, lock, addr, off, size, asks, failed>>
  <2>1. Orphans(p) \subseteq Inodes
    BY Zenon DEF Orphans
  <2> QED BY <1>2, <1>5, <2>1, Zenon
<1> QED BY <1>1, <1>4, <1>5, Zenon DEF PutOpen

(* A write or a rename that fails: nothing is claimed for the key any more. *)
LEMMA FailInv ==
  ASSUME Inv, NEW p \in Servers, addr[p] \in Addrs, pc[p] = "write", Fail(p),
         pc' = [pc EXCEPT ![p] = "unlink"],
         UNCHANGED <<real, tmp, len, data, lock, addr, fd, off, size, asks>>
  PROVE  Inv'
<1>1. KeyOf(p)' = KeyOf(p) /\ KeyOf(p) \in Keys
  BY KeyType, Zenon DEF KeyOf, Key
<1>2. TypeOK'
  <2>1. failed' \subseteq Keys /\ Keys' = Keys
    BY <1>1, Zenon DEF Inv, TypeOK, Fail, Keys, Key
  <2> QED BY <2>1, Zenon DEF Inv, TypeOK
<1>3. InHand(p)' /\ Own(p)'
  BY Zenon DEF Inv, TypeOK, InHand, Own
<1>4. Fine(p)' /\ failed \subseteq failed'
  BY <1>1, Zenon DEF Fine, Fail
<1> QED BY <1>2, <1>3, <1>4, Others, Zenon DEF Inv, TypeOK, files

(* A write goes to a file that has no final name and no other writer. *)
LEMMA PutWriteInv ==
  ASSUME Inv, NEW p \in Servers, PutWrite(p) PROVE Inv'
<1> USE DEF Goto
<1>1. fd[p] \in Inodes /\ addr[p] \in Addrs /\ off[p] \in 0 .. Size /\ off[p] < Size
  BY Zenon DEF PutWrite, Inv, TypeOK, InHand, Files
<1>2. pc[p] = "write" /\ UNCHANGED <<real, tmp, lock, addr, fd, size, asks>>
  BY Zenon DEF PutWrite
<1>3. OneName'
  BY <1>2, Zenon DEF Inv, OneName, Keys
<1>4. CASE Fail(p) /\ pc' = [pc EXCEPT ![p] = "unlink"] /\ UNCHANGED <<off, len, data>>
  BY <1>1, <1>2, <1>4, FailInv, Zenon
<1>5. CASE /\ off' = [off EXCEPT ![p] = @ + 1]
           /\ len' = [len EXCEPT ![fd[p]] = IF @ > off[p] THEN @ ELSE off[p] + 1]
           /\ data' = [data EXCEPT ![fd[p]] = addr[p]]
           /\ UNCHANGED <<pc, failed>>
  <2>1. len[fd[p]] \in 0 .. Size /\ off'[p] = off[p] + 1
    BY <1>1, <1>5, Zenon DEF Inv, TypeOK
  <2>2. /\ len'[fd[p]] \in 0 .. Size /\ len'[fd[p]] >= off'[p] /\ data'[fd[p]] = addr[p]
        /\ len'[fd[p]] >= len[fd[p]]
    BY <1>1, <1>5, <2>1, CacheAssumption DEF Inv, TypeOK
  <2>3. TypeOK'
    <3>1. off' \in [Servers -> 0 .. Size]
      BY <1>1, <1>5, CacheAssumption DEF Inv, TypeOK
    <3>2. len' \in [Inodes -> 0 .. Size] /\ data' \in [Inodes -> Addrs \union {0}]
      BY <1>1, <1>5, <2>2, Zenon DEF Inv, TypeOK
    <3> QED BY <3>1, <3>2, <1>2, <1>5, Zenon DEF Inv, TypeOK
  <2>4. \A m \in Inodes : m # fd[p] => len'[m] = len[m] /\ data'[m] = data[m]
    BY <1>5, Zenon DEF Inv, TypeOK
  <2>5. \A q \in Servers \ {p} : off'[q] = off[q]
    BY <1>5, Zenon DEF Inv, TypeOK
  <2>6. ASSUME NEW q \in Servers PROVE InHand(q)'
    BY <1>2, <1>5, <2>5, Zenon DEF Inv, InHand
  <2>9. \A q \in Servers : KeyOf(q)' = KeyOf(q)
    BY <1>2, Zenon DEF KeyOf, Key
  <2>10. \A q \in Servers : Own(q)'
    BY <2>9, <1>2, <1>5, Zenon DEF Inv, Own, Keys, Key
  <2>7. ASSUME NEW q \in Servers, KeyOf(q) \notin failed PROVE Writing(q)' /\ Reading(q)'
    <3>1. KeyOf(q)' = KeyOf(q) /\ Writing(q) /\ Reading(q) /\ InHand(q)
      BY <2>7, <2>9, Zenon DEF Inv, Fine
    <3>2. Reading(q)'
      BY <3>1, <1>2, <1>5, Zenon DEF Reading
    <3>3. CASE q = p
      <4>1. pc'[p] = "write" /\ fd'[p] = fd[p]
        BY <1>2, <1>5, Zenon
      <4>2. fd'[p] = tmp'[KeyOf(p)] \/ real'[KeyOf(p)] # 0
        <5>1. fd[p] = tmp[KeyOf(p)] \/ real[KeyOf(p)] # 0
          BY <3>1, <3>3, <1>2, Zenon DEF Writing
        <5> QED BY <5>1, <1>2, Zenon
      <4>3. real'[KeyOf(p)] = 0 /\ off'[p] <= len'[fd[p]]
        <5>1. real[KeyOf(p)] = 0
          BY <3>1, <3>3, <1>2, Zenon DEF Writing
        <5>2. real'[KeyOf(p)] = 0
          BY <5>1, <1>2, Zenon
        <5>3. off'[p] <= len'[fd[p]]
          BY <2>1, <2>2, <1>1, Zenon
        <5> QED BY <5>2, <5>3, Zenon
      <4>4. data'[fd[p]] \in Addrs /\ Key(data[fd[p]])' = KeyOf(p)
        BY <2>2, <1>1, <1>2, Zenon DEF KeyOf, Key
      <4>5. Key(data[fd[q]])' = KeyOf(q)'
        BY <4>4, <3>1, <3>3, Zenon
      <4>6. data'[fd'[q]] \in Addrs
        BY <4>1, <4>4, <3>3, Zenon
      <4> QED BY <4>1, <4>2, <4>3, <4>5, <4>6, <3>1, <3>2, <3>3, Zenon DEF Writing
    <3>4. CASE q # p
      <4>1. pc[q] = "write" => fd[q] # fd[p] /\ fd[q] \in Inodes
        BY <3>4, <2>7, <1>2, OneWriter, WritesTmp, Zenon
      <4>2. pc[q] = "write" => len'[fd[q]] = len[fd[q]] /\ data'[fd[q]] = data[fd[q]]
        BY <4>1, <2>4, Zenon
      <4>3. pc'[q] = pc[q] /\ fd'[q] = fd[q] /\ off'[q] = off[q]
        BY <3>4, <2>5, <1>2, <1>5, Zenon
      <4>4. pc[q] = "write" => Key(data[fd[q]])' = Key(data[fd[q]])
        BY <4>2, <4>3, Zenon DEF Key
      <4> QED BY <4>2, <4>3, <4>4, <3>1, <3>2, <1>2, Zenon DEF Writing
    <3> QED BY <3>2, <3>3, <3>4, Zenon
  <2>8. ASSUME NEW k \in Keys \ failed PROVE Complete(k)'
    <3>1. real[k] # fd[p]
      BY <2>8, <1>2, WritesElsewhere, Zenon
    <3>2. real[k] # 0 => real[k] \in Inodes
      BY Zenon DEF Inv, TypeOK, Files
    <3>3. Complete(k)
      BY <2>8, Zenon DEF Inv
    <3>4. real[k] # 0 => len'[real[k]] = len[real[k]] /\ data'[real[k]] = data[real[k]]
      BY <3>1, <3>2, <2>4, Zenon
    <3>5. real'[k] = real[k]
      BY <1>2, Zenon
    <3> QED BY <3>3, <3>4, <3>5, Zenon DEF Complete, Key
  <2>11. \A q \in Servers : Fine(q)'
    BY <2>7, <2>9, <1>5, Zenon DEF Fine
  <2> QED BY <2>3, <2>6, <2>8, <2>10, <2>11, <1>3, <1>5, Zenon DEF Inv, Keys, Key
<1> QED BY <1>4, <1>5, Zenon DEF PutWrite

(* The file that gets the name is the one that was written to. *)
LEMMA PutRenameInv ==
  ASSUME Inv, NEW p \in Servers, PutRename(p) PROVE Inv'
<1> USE DEF Goto
<1>1. /\ fd[p] \in Inodes /\ addr[p] \in Addrs /\ KeyOf(p) \in Keys
      /\ pc[p] = "write" /\ off[p] = Size
  BY KeyType, Zenon DEF PutRename, Inv, TypeOK, InHand, Files, KeyOf
<1>2. UNCHANGED <<len, data, lock, addr, fd, off, size, asks>>
  BY Zenon DEF PutRename
<1>3. \A q \in Servers : KeyOf(q)' = KeyOf(q)
  BY <1>2, Zenon DEF KeyOf, Key
<1>4. CASE Fail(p) /\ pc' = [pc EXCEPT ![p] = "unlink"] /\ UNCHANGED <<real, tmp>>
  BY <1>1, <1>2, <1>4, FailInv, Zenon
<1>6. CASE /\ tmp[KeyOf(p)] = 0 /\ UNCHANGED failed
           /\ pc' = [pc EXCEPT ![p] = "unlink"] /\ UNCHANGED <<real, tmp>>
  <2>1. KeyOf(p) \in failed
    BY <1>1, <1>6, WritesTmp, CacheAssumption, Zenon
  <2>2. Fail(p)
    BY <2>1, <1>6, Zenon DEF Fail
  <2> QED BY <1>1, <1>2, <1>6, <2>2, FailInv, Zenon
<1>5. CASE /\ tmp[KeyOf(p)] # 0 /\ real' = [real EXCEPT ![KeyOf(p)] = tmp[KeyOf(p)]]
           /\ tmp' = [tmp EXCEPT ![KeyOf(p)] = 0]
           /\ pc' = [pc EXCEPT ![p] = "close"] /\ UNCHANGED failed
  <2>1. TypeOK'
    BY <1>1, <1>2, <1>5, Zenon DEF Inv, TypeOK, Files
  <2>2. \A k \in Keys : /\ real'[k] = IF k = KeyOf(p) THEN tmp[k] ELSE real[k]
                        /\ tmp'[k] = IF k = KeyOf(p) THEN 0 ELSE tmp[k]
    BY <1>5, Zenon DEF Inv, TypeOK
  <2>3. OneName'
    <3>1. Keys' = Keys
      BY Zenon DEF Keys, Key
    <3>2. ASSUME NEW j \in Keys, NEW k \in Keys
          PROVE  /\ real'[j] # 0 => real'[j] # tmp'[k]
                 /\ real'[j] = real'[k] /\ real'[j] # 0 => j = k
                 /\ tmp'[j] = tmp'[k] /\ tmp'[j] # 0 => j = k
      <4>1. OneName
        BY Zenon DEF Inv
      <4>2. CASE j = KeyOf(p) /\ k = KeyOf(p)
        BY <4>1, <4>2, <2>2, Zenon DEF OneName
      <4>3. CASE j = KeyOf(p) /\ k # KeyOf(p)
        BY <4>1, <4>3, <2>2, Zenon DEF OneName
      <4>4. CASE j # KeyOf(p) /\ k = KeyOf(p)
        BY <4>1, <4>4, <2>2 DEF OneName
      <4>5. CASE j # KeyOf(p) /\ k # KeyOf(p)
        BY <4>1, <4>5, <2>2 DEF OneName
      <4> QED BY <4>2, <4>3, <4>4, <4>5, Zenon
    <3> QED BY <3>1, <3>2, Zenon DEF OneName
  <2>4. pc'[p] = "close" /\ \A q \in Servers \ {p} : pc'[q] = pc[q]
    BY <1>5, Zenon DEF Inv, TypeOK
  <2>5. ASSUME NEW q \in Servers PROVE InHand(q)'
    BY <1>1, <1>2, <2>4, Zenon DEF Inv, InHand
  <2>8. ASSUME NEW q \in Servers PROVE Own(q)'
    <3>1. CASE q = p
      BY <3>1, <2>4, Zenon DEF Own
    <3>2. CASE q # p
      <4>1. Own(q) /\ pc'[q] = pc[q]
        BY <3>2, <2>4, Zenon DEF Inv
      <4>2. ASSUME pc[q] \in {"lock", "check", "write"}, NEW k \in Keys, k # KeyOf(q)
            PROVE  real'[k] # fd[q] /\ tmp'[k] # fd[q]
        <5>1. real[k] # fd[q] /\ tmp[k] # fd[q]
          BY <4>1, <4>2, Zenon DEF Own
        <5>2. fd[q] # 0
          BY <4>2, SMT DEF Inv, InHand
        <5> QED BY <5>1, <5>2, <2>2, Zenon
      <4> QED BY <4>1, <4>2, <1>2, <1>3, Zenon DEF Own, Keys, Key
    <3> QED BY <3>1, <3>2, Zenon
  <2>6. ASSUME NEW q \in Servers, KeyOf(q) \notin failed PROVE Writing(q)' /\ Reading(q)'
    <3>1. CASE q = p
      BY <3>1, <2>4, Zenon DEF Writing, Reading
    <3>2. CASE q # p
      <4>1. pc'[q] = pc[q] /\ Writing(q) /\ Reading(q) /\ InHand(q)
        BY <3>2, <2>4, <2>6, Zenon DEF Inv, Fine
      <4>2. pc[q] = "write" => KeyOf(q) # KeyOf(p)
        BY <3>2, <2>6, <1>1, OneWriter, Zenon
      <4>3. pc[q] # "idle" => KeyOf(q) \in Keys
        BY <4>1, KeyType, Zenon DEF InHand, KeyOf
      <4>4. KeyOf(p) = KeyOf(q) => real[KeyOf(p)] = 0
        BY <1>1, <2>6, Zenon DEF Inv, Fine, Writing
      <4>5. Writing(q)'
        BY <4>1, <4>2, <4>3, <2>2, <1>2, <1>3, <1>5, Zenon DEF Writing, Key
      <4>6. Reading(q)'
        BY <4>1, <4>3, <4>4, <2>2, <1>2, <1>3, Zenon DEF Reading
      <4> QED BY <4>5, <4>6, Zenon
    <3> QED BY <3>1, <3>2, Zenon
  <2>7. ASSUME NEW k \in Keys \ failed PROVE Complete(k)'
    <3>1. CASE k # KeyOf(p)
      BY <3>1, <2>2, <2>7, <1>2, Zenon DEF Inv, Complete, Key
    <3>2. CASE k = KeyOf(p)
      <4>1. real'[k] = fd[p]
        BY <3>2, <2>2, <2>7, <1>1, WritesTmp, Zenon
      <4>5. Writing(p)
        BY <3>2, <2>7, Zenon DEF Inv, Fine
      <4>2. len[fd[p]] \in 0 .. Size /\ len[fd[p]] >= Size
        BY <1>1, <4>5, Zenon DEF Inv, TypeOK, Writing
      <4>3. data[fd[p]] \in Addrs /\ Key(data[fd[p]]) = KeyOf(p)
        BY <1>1, <4>5, CacheAssumption DEF Writing
      <4> QED BY <4>1, <4>2, <4>3, <3>2, <1>2, CacheAssumption DEF Complete, Key
    <3> QED BY <3>1, <3>2, Zenon
  <2>9. \A q \in Servers : Fine(q)'
    BY <2>6, <1>3, <1>5, Zenon DEF Fine
  <2> QED BY <2>1, <2>3, <2>5, <2>7, <2>8, <2>9, <1>5, Zenon DEF Inv, Keys, Key
<1> QED BY <1>4, <1>5, <1>6, Zenon DEF PutRename

(* Until Put fails for the key its temporary name is removed only where the *)
(* file with the final name is there.                                      *)
LEMMA PutUnlinkInv ==
  ASSUME Inv, NEW p \in Servers, PutUnlink(p) PROVE Inv'
<1> USE DEF PutUnlink, Goto
<1>1. addr[p] \in Addrs /\ KeyOf(p) \in Keys /\ fd[p] # 0
  BY KeyType, Zenon DEF Inv, InHand, KeyOf
<1>2. TypeOK'
  BY <1>1, Zenon DEF Inv, TypeOK, Files
<1>3. \A k \in Keys : tmp'[k] = tmp[k] \/ (k = KeyOf(p) /\ tmp'[k] = 0)
  BY Zenon DEF Inv, TypeOK
<1>4. OneName'
  <2>1. Keys' = Keys /\ real' = real
    BY Zenon DEF Keys, Key
  <2>2. OneName /\ \A k \in Keys : tmp'[k] = tmp[k] \/ tmp'[k] = 0
    BY <1>3, Zenon DEF Inv
  <2> QED BY <2>1, <2>2 DEF OneName
<1>5. pc'[p] = "close" /\ \A q \in Servers \ {p} : pc'[q] = pc[q]
  BY Zenon DEF Inv, TypeOK
<1>9. \A q \in Servers : KeyOf(q)' = KeyOf(q)
  BY Zenon DEF KeyOf, Key
<1>6. ASSUME NEW q \in Servers PROVE InHand(q)' /\ Own(q)'
  <2>1. InHand(q)'
    BY <1>1, <1>5, Zenon DEF Inv, InHand
  <2>2. CASE q = p
    BY <2>1, <2>2, <1>5, Zenon DEF Own
  <2>3. CASE q # p
    <3>1. Own(q) /\ pc'[q] = pc[q] /\ (pc[q] \in {"lock", "check", "write"} => fd[q] # 0)
      BY <2>3, <1>5, SMT DEF Inv, InHand
    <3>2. \A k \in Keys : tmp'[k] = tmp[k] \/ tmp'[k] = 0
      BY <1>3, Zenon
    <3> QED BY <2>1, <3>1, <3>2, <1>9, Zenon DEF Own, Keys, Key
  <2> QED BY <2>2, <2>3, Zenon
<1>7. ASSUME NEW q \in Servers, KeyOf(q) \notin failed PROVE Writing(q)' /\ Reading(q)'
  <2>1. CASE q = p
    BY <2>1, <1>5, Zenon DEF Writing, Reading
  <2>2. CASE q # p
    <3>1. pc'[q] = pc[q] /\ Writing(q) /\ Reading(q) /\ InHand(q)
      BY <2>2, <1>5, <1>7, Zenon DEF Inv, Fine
    <3>2. pc[q] # "idle" => KeyOf(q) \in Keys
      BY <3>1, KeyType, Zenon DEF InHand, KeyOf
    <3>3. KeyOf(q) = KeyOf(p) => real[KeyOf(q)] # 0
      BY <1>7, Zenon DEF Inv, Fine, Writing
    <3>6. pc[q] # "idle" => tmp'[KeyOf(q)] = tmp[KeyOf(q)] \/ real[KeyOf(q)] # 0
      BY <3>2, <3>3, <1>3, Zenon
    <3>4. Writing(q)'
      BY <3>1, <3>6, <1>9, Zenon DEF Writing, Key
    <3>5. Reading(q)'
      BY <3>1, <1>9, Zenon DEF Reading
    <3> QED BY <3>4, <3>5, Zenon
  <2> QED BY <2>1, <2>2, Zenon
<1>8. ASSUME NEW k \in Keys \ failed PROVE Complete(k)'
  BY <1>8, Zenon DEF Inv, Complete, Key
<1>10. \A q \in Servers : Fine(q)'
  BY <1>7, <1>9, Zenon DEF Fine
<1> QED BY <1>2, <1>4, <1>6, <1>8, <1>10, Zenon DEF Inv, Keys, Key

(* Every step of every server keeps the invariant. *)
LEMMA StepInv == Inv /\ [Next]_vars => Inv'
<1> SUFFICES ASSUME Inv, [Next]_vars PROVE Inv'
  BY Zenon
<1>1. CASE UNCHANGED vars
  BY <1>1, SMTT(30) DEF vars, Inv, TypeOK, OneName, InHand, Own, Fine, Writing, Reading, Complete, KeyOf, Key, Keys, Files
<1>2. ASSUME NEW p \in Servers, Step(p) \/ Crash(p) PROVE Inv'
  <2>1. CASE Sent(p) \/ PutClose(p) \/ Crash(p)
    BY <2>1, DoneInv, Zenon DEF Sent, PutClose, Crash
  <2>2. CASE GetStat(p) \/ Sendfile(p)
    BY <2>2, GetStatInv, SendfileInv, Zenon
  <2>3. CASE PutOpen(p) \/ PutLock(p) \/ PutCheck(p)
    BY <2>3, PutOpenInv, PutLockInv, PutCheckInv, Zenon
  <2>4. CASE PutWrite(p) \/ PutRename(p) \/ PutUnlink(p)
    BY <2>4, PutWriteInv, PutRenameInv, PutUnlinkInv, Zenon
  <2> QED BY <1>2, <2>1, <2>2, <2>3, <2>4, Zenon DEF Step
<1> QED BY <1>1, <1>2, GetOpenInv, Zenon DEF Next

(* The invariant holds in every state. *)
THEOREM Invariance == Spec => []Inv
BY InitInv, StepInv, PTL DEF Spec

(* The variables keep their types. *)
THEOREM TypeCorrect == Spec => []TypeOK
<1>1. Inv => TypeOK
  BY Zenon DEF Inv
<1> QED BY <1>1, Invariance, PTL

(* Cache::Put: until it fails for the key, a file that has its name is     *)
(* complete, whoever is killed and whatever fails for other keys.          *)
THEOREM NamedIsComplete == Spec => []RealIsComplete
<1>1. Inv => RealIsComplete
  BY Zenon DEF Inv, RealIsComplete, Complete
<1> QED BY <1>1, Invariance, PTL

(* CacheProbe: for code that is not relocatable, and until Put fails for   *)
(* the key, what is sent from a file is the whole object for the address   *)
(* asked for.                                                              *)
THEOREM HitsAreRight == ASSUME ~Pic PROVE Spec => []HitsFit
<1>1. Inv => HitsFit
  <2> SUFFICES ASSUME Inv, NEW p \in Servers, pc[p] = "send", KeyOf(p) \notin failed
               PROVE  size[p] = Size /\ data[fd[p]] = addr[p]
    BY Zenon DEF HitsFit
  <2>1. addr[p] \in Addrs /\ KeyOf(p) \in Keys
    BY KeyType, Zenon DEF Inv, InHand, KeyOf
  <2>2. fd[p] = real[KeyOf(p)] /\ real[KeyOf(p)] # 0 /\ size[p] = Size
    BY Zenon DEF Inv, Fine, Reading
  <2>3. Key(data[fd[p]]) = Key(addr[p])
    BY <2>1, <2>2, Zenon DEF Inv, Complete, KeyOf
  <2> QED BY <2>2, <2>3, Zenon DEF Key
<1> QED BY <1>1, Invariance, PTL

(* Cache::Put: until it fails for the key, a file that has its name is     *)
(* neither written to nor replaced.                                        *)
THEOREM NamedIsFinal == Spec => RealIsFinal
<1> DEFINE Final == \A k \in Keys \ failed' : real[k] # 0 =>
      real'[k] = real[k] /\ len'[real[k]] = len[real[k]] /\ data'[real[k]] = data[real[k]]
<1>1. Inv /\ Inv' /\ [Next]_vars => [Final]_vars
  <2> SUFFICES ASSUME Inv, Next, NEW k \in Keys \ failed', real[k] # 0
               PROVE  real'[k] = real[k] /\ len'[real[k]] = len[real[k]]
                        /\ data'[real[k]] = data[real[k]]
    BY Zenon
  <2>1. real[k] \in Inodes /\ \A p \in Servers : real[k] \notin Orphans(p)
    BY Zenon DEF Inv, TypeOK, Files, Orphans
  <2>2. ASSUME NEW p \in Servers, Done(p), UNCHANGED real
        PROVE  real'[k] = real[k] /\ len'[real[k]] = len[real[k]]
                 /\ data'[real[k]] = data[real[k]]
    BY <2>1, <2>2, Zenon DEF Done
  <2>3. ASSUME NEW p \in Servers, NEW a \in Addrs, GetOpen(p, a)
        PROVE  UNCHANGED <<real, len, data>>
    BY <2>3, Zenon DEF GetOpen, files
  <2>4. ASSUME NEW p \in Servers, Step(p) \/ Crash(p)
        PROVE  real'[k] = real[k] /\ len'[real[k]] = len[real[k]]
                 /\ data'[real[k]] = data[real[k]]
    <3>1. CASE Sent(p) \/ PutClose(p) \/ Crash(p)
      BY <3>1, <2>2, Zenon DEF Sent, PutClose, Crash
    <3>2. CASE GetStat(p) \/ Sendfile(p) \/ PutCheck(p) \/ PutUnlink(p)
      BY <3>2, Zenon DEF GetStat, Sendfile, PutCheck, PutUnlink, files
    <3>3. CASE PutLock(p)
      <4>1. UNCHANGED real /\ (Done(p) \/ UNCHANGED <<len, data>>)
        BY <3>3, Zenon DEF PutLock
      <4> QED BY <4>1, <2>2, Zenon
    <3>4. CASE PutOpen(p)
      BY <3>4, <2>1, <2>2, SMTT(30) DEF PutOpen, Inv, TypeOK
    <3>7. k \notin failed
      BY <2>4, Zenon DEF Step, Crash, GetStat, Sendfile, Sent, PutOpen, PutLock, PutCheck,
           PutWrite, PutRename, PutUnlink, PutClose, Fail
    <3>5. CASE PutWrite(p)
      <4>1. real[k] # fd[p]
        BY <3>5, <3>7, WritesElsewhere, Zenon DEF PutWrite
      <4> QED BY <3>5, <4>1, <2>1, Zenon DEF PutWrite, Inv, TypeOK
    <3>6. CASE PutRename(p)
      <4>1. real[KeyOf(p)] = 0 \/ KeyOf(p) # k
        BY <3>6, <3>7, Zenon DEF PutRename, Inv, Fine, Writing
      <4> QED BY <3>6, <4>1, Zenon DEF PutRename, Inv, TypeOK
    <3> QED BY <2>4, <3>1, <3>2, <3>3, <3>4, <3>5, <3>6, Zenon DEF Step
  <2> QED BY <2>3, <2>4, Zenon DEF Next
<1> QED BY <1>1, Invariance, PTL DEF Spec, RealIsFinal
==============================================================================
