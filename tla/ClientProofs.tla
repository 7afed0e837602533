---------------------------- MODULE ClientProofs -----------------------------
(***************************************************************************)
(* Proofs about parts of the client:                                       *)
(*   - Syscalls, for all guests, hosts, calls and numbers;                 *)
(*   - LoopDetect, for all traces of blocks, window sizes and limits;      *)
(*   - the stack that Start builds, for all arguments and environments.    *)
(***************************************************************************)
EXTENDS Start, Syscalls, LoopDetect, FiniteSetTheorems, SequenceTheorems, TLAPS

------------------------------------------------------------------------------
(* Unhandled system calls *)

Word(nr) == nr \div 64

(* The map has a bit for the number. *)
Small(nr) == nr < 1024

(* A bit of warnmap comes from a number that was printed. *)
FromPrinted(b) == \E m \in Numbers : warned[m] > 0 /\ Small(m) /\ b \in WarnBits(m)

WarnTyped ==
  /\ guestArch \in Arches /\ warned \in [Numbers -> Nat]
  /\ asked \in [Threads -> Numbers \union {None}]
  /\ warnmap \in SUBSET (Nat \X Nat) /\ word \in [Threads -> SUBSET (Nat \X Nat)]

BitsKnown == \A b \in warnmap : FromPrinted(b)

(* What a thread tested: a word of the map, as it was at some time. *)
Tested(t) == \A b \in word[t] : FromPrinted(b) /\ b[1] = Word(asked[t])

(* Outside of a race it is the word as it is now, and nobody else's.  *)
Current(t) ==
  asked[t] # None /\ Word(asked[t]) \notin raced =>
    /\ word[t] = WordOf(asked[t])
    /\ Small(asked[t]) => warned[asked[t]] = 0
    /\ \A u \in Threads \ {t} : asked[u] # None => Word(asked[u]) # Word(asked[t])

(* Outside of a race, a number that was printed has all its bits. *)
Once(nr) ==
  Small(nr) /\ Word(nr) \notin raced =>
    warned[nr] <= 1 /\ (warned[nr] = 1 => WarnBits(nr) \subseteq warnmap)

Meet(m, nr) == WarnBits(m) \cap WarnBits(nr) # {}
Shared(nr) == Small(nr) /\ \E m \in Numbers : warned[m] > 0 /\ Small(m) /\ Meet(m, nr)

WarnedInv ==
  /\ WarnTyped /\ BitsKnown
  /\ \A t \in Threads : Tested(t) /\ Current(t)
  /\ \A nr \in Numbers : Once(nr)
  /\ \A nr \in silent : Shared(nr)

(* The numbers are those of system calls. *)
LEMMA NumbersType == Numbers \subseteq Nat /\ None \notin Numbers
<1>1. Numbers \subseteq Nat
  <2>1. \A g : FcntlNr(g) \in Nat
    BY DEF FcntlNr
  <2> QED BY <2>1, NumbersAssumption, Zenon DEF Numbers
<1> QED BY <1>1 DEF None

(* The bits of a number are in its word. *)
LEMMA BitsInWord ==
  ASSUME NEW nr, NEW b \in WarnBits(nr)
  PROVE  b[1] = Word(nr)
<1>1. PICK i \in IF (nr % 64) % 32 = 31 THEN 31 .. 63 ELSE {(nr % 64) % 32} : b = <<nr \div 64, i>>
  BY Zenon DEF WarnBits
<1> QED BY <1>1, Zenon DEF Word

(* They are positions in the map. *)
LEMMA BitsType ==
  ASSUME NEW nr \in Nat
  PROVE  WarnBits(nr) \in SUBSET (Nat \X Nat)
<1> SUFFICES ASSUME NEW b \in WarnBits(nr) PROVE b \in Nat \X Nat
  BY Zenon
<1>1. PICK i \in IF (nr % 64) % 32 = 31 THEN 31 .. 63 ELSE {(nr % 64) % 32} : b = <<nr \div 64, i>>
  BY Zenon DEF WarnBits
<1>2. i \in Nat /\ nr \div 64 \in Nat
  BY <1>1, SMT
<1> QED BY <1>1, <1>2, Zenon

(* WarnBits of client/emulate.c:524 is never empty: a shift by nr % 64     *)
(* leaves a bit, on hosts that use five bits of it.                        *)
LEMMA HasBit ==
  ASSUME NEW nr
  PROVE  WarnBits(nr) # {}
<1> DEFINE b == (nr % 64) % 32
           J == IF b = 31 THEN 31 .. 63 ELSE {b}
           i == IF b = 31 THEN 31 ELSE b
<1>1. WarnBits(nr) = {<<nr \div 64, k>> : k \in J}
  BY Zenon DEF WarnBits
<1>2. i \in J
  <2>1. 31 \in 31 .. 63
    OBVIOUS
  <2>2. CASE b = 31
    BY <2>1, <2>2, Zenon
  <2>3. CASE b # 31
    BY <2>3, Zenon
  <2> QED BY <2>2, <2>3, Zenon
<1>3. <<nr \div 64, i>> \in {<<nr \div 64, k>> : k \in J}
  BY <1>2, Zenon
<1> QED BY <1>1, <1>3, Zenon

(* Nothing is printed at the start: the static map is 0. *)
LEMMA InitWarned ==
  SysInit => WarnedInv
<1> SUFFICES ASSUME SysInit PROVE WarnedInv
  BY Zenon
<1>1. WarnTyped
  BY DEF SysInit, WarnTyped
<1>2. BitsKnown /\ \A t \in Threads : Tested(t) /\ Current(t)
  BY Zenon DEF SysInit, BitsKnown, Tested, Current
<1>3. ASSUME NEW nr \in Numbers PROVE Once(nr)
  BY DEF SysInit, Once
<1>4. \A nr \in silent : Shared(nr)
  BY Zenon DEF SysInit
<1> QED BY <1>1, <1>2, <1>3, <1>4, Zenon DEF WarnedInv

(* A number that was printed stays one. *)
LEMMA SharedKept ==
  ASSUME NEW nr, Shared(nr), \A m \in Numbers : warned[m] > 0 => warned'[m] > 0
  PROVE  Shared(nr)'
<1>1. PICK m \in Numbers : warned[m] > 0 /\ Small(m) /\ Meet(m, nr)
  BY DEF Shared
<1>2. warned'[m] > 0 /\ Small(nr)
  BY <1>1 DEF Shared
<1>3. \E k \in Numbers : warned'[k] > 0 /\ Small(k) /\ Meet(k, nr)
  BY <1>1, <1>2
<1> QED BY <1>2, <1>3 DEF Shared, Meet, WarnBits

(* So do the bits that come from it. *)
LEMMA PrintedKept ==
  ASSUME NEW b, FromPrinted(b), \A m \in Numbers : warned[m] > 0 => warned'[m] > 0
  PROVE  FromPrinted(b)'
<1>1. PICK m \in Numbers : warned[m] > 0 /\ Small(m) /\ b \in WarnBits(m)
  BY DEF FromPrinted
<1>2. \E k \in Numbers : warned'[k] > 0 /\ Small(k) /\ b \in WarnBits(k)
  BY <1>1
<1> QED BY <1>2 DEF FromPrinted, WarnBits

(* Nothing is printed, and the map is only read. *)
LEMMA BitsKept ==
  ASSUME BitsKnown, UNCHANGED <<warnmap, warned>>
  PROVE  BitsKnown' /\ \A b : FromPrinted(b) => FromPrinted(b)'
<1>1. ASSUME NEW b, FromPrinted(b) PROVE FromPrinted(b)'
  BY <1>1, PrintedKept
<1>2. ASSUME NEW b \in warnmap' PROVE FromPrinted(b)'
  <2>1. b \in warnmap
    OBVIOUS
  <2>2. FromPrinted(b)
    BY <2>1, Zenon DEF BitsKnown
  <2> QED BY <1>1, <2>2, Zenon
<1> QED BY <1>1, <1>2, Zenon DEF BitsKnown

(* What a thread knows of its word stays when all it depends on stays. *)
LEMMA CurrentKept ==
  ASSUME NEW t \in Threads, Current(t), UNCHANGED <<warnmap, warned, asked, raced>>,
         word'[t] = word[t]
  PROVE  Current(t)'
<1>1. WordOf(asked[t])' = WordOf(asked[t])
  BY Zenon DEF WordOf
<1> SUFFICES ASSUME asked[t] # None, Word(asked[t]) \notin raced
             PROVE  /\ word[t] = WordOf(asked[t])
                    /\ Small(asked[t]) => warned[asked[t]] = 0
                    /\ \A u \in Threads \ {t} : asked[u] # None => Word(asked[u]) # Word(asked[t])
  BY <1>1 DEF Current
<1> QED BY DEF Current

(* A number printed once stays so when the map only grows. *)
LEMMA OnceKept ==
  ASSUME NEW nr, Once(nr), UNCHANGED <<warnmap, warned>>, raced \subseteq raced'
  PROVE  Once(nr)'
<1> SUFFICES ASSUME Small(nr), Word(nr) \notin raced'
             PROVE  warned[nr] <= 1 /\ (warned[nr] = 1 => WarnBits(nr) \subseteq warnmap)
  BY Zenon DEF Once, WarnBits, Word
<1>1. Word(nr) \notin raced
  BY Zenon
<1> QED BY <1>1, Zenon DEF Once

(* Nothing about warnings changes. *)
LEMMA WarnedKept ==
  ASSUME WarnedInv, UNCHANGED <<guestArch, warnVars>>
  PROVE  WarnedInv'
<1>1. UNCHANGED <<guestArch, warnmap, asked, word, warned, silent, raced>>
  BY Zenon DEF warnVars
<1>2. WarnTyped'
  BY <1>1 DEF WarnedInv, WarnTyped
<1>3. BitsKnown' /\ \A b : FromPrinted(b) => FromPrinted(b)'
  BY <1>1, BitsKept DEF WarnedInv
<1>4. ASSUME NEW t \in Threads PROVE Tested(t)' /\ Current(t)'
  <2>1. Tested(t) /\ Current(t)
    BY Zenon DEF WarnedInv
  <2>2. Tested(t)'
    BY <1>1, <1>3, <2>1 DEF Tested
  <2>3. Current(t)'
    BY <1>1, <2>1, CurrentKept
  <2> QED BY <2>2, <2>3
<1>5. ASSUME NEW nr \in Numbers PROVE Once(nr)'
  <2>1. Once(nr)
    BY Zenon DEF WarnedInv
  <2> QED BY <1>1, <2>1, OnceKept
<1>6. ASSUME NEW nr \in silent' PROVE Shared(nr)'
  <2>1. Shared(nr)
    BY <1>1 DEF WarnedInv
  <2> QED BY <1>1, <2>1, SharedKept
<1> QED BY <1>2, <1>3, <1>4, <1>5, <1>6, Zenon DEF WarnedInv

(* The test of unhandled_syscall: a number that is not printed has a bit   *)
(* of one that was, and outside of a race one that goes on was not printed *)
(* before.                                                                 *)
LEMMA TestStep ==
  ASSUME NEW t \in Threads, NEW nr \in Numbers, WarnedInv, WarnTest(t, nr), UNCHANGED guestArch
  PROVE  WarnedInv'
<1>1. UNCHANGED <<guestArch, warnmap, warned>> /\ asked[t] = None
  BY Zenon DEF WarnTest
<1>2. BitsKnown' /\ \A b : FromPrinted(b) => FromPrinted(b)'
  BY <1>1, BitsKept DEF WarnedInv
<1>3. CASE Small(nr) /\ WarnBits(nr) \cap warnmap # {}
  <2>1. silent' = silent \union {nr} /\ UNCHANGED <<asked, word, raced>>
    BY <1>3, Zenon DEF WarnTest, Small
  <2>2. WarnTyped'
    BY <1>1, <2>1, Zenon DEF WarnedInv, WarnTyped
  <2>3. ASSUME NEW u \in Threads PROVE Tested(u)' /\ Current(u)'
    <3>1. Tested(u) /\ Current(u)
      BY Zenon DEF WarnedInv
    <3>2. Tested(u)'
      BY <1>2, <2>1, <3>1, Zenon DEF Tested
    <3>3. Current(u)'
      BY <1>1, <2>1, <3>1, CurrentKept
    <3> QED BY <3>2, <3>3
  <2>4. ASSUME NEW m \in Numbers PROVE Once(m)'
    <3>1. Once(m)
      BY Zenon DEF WarnedInv
    <3> QED BY <1>1, <2>1, <3>1, OnceKept
  <2>5. ASSUME NEW m \in silent' PROVE Shared(m)'
    <3>1. CASE m \in silent
      <4>1. Shared(m)
        BY <3>1, Zenon DEF WarnedInv
      <4> QED BY <1>1, <4>1, SharedKept
    <3>2. CASE m = nr
      <4>1. PICK b \in WarnBits(nr) : b \in warnmap
        BY <1>3
      <4>2. FromPrinted(b)
        BY <4>1, Zenon DEF WarnedInv, BitsKnown
      <4>3. PICK k \in Numbers : warned[k] > 0 /\ Small(k) /\ b \in WarnBits(k)
        BY <4>2, Zenon DEF FromPrinted
      <4>4. Meet(k, nr)
        BY <4>1, <4>3, Zenon DEF Meet
      <4>5. Shared(nr)
        BY <1>3, <4>3, <4>4, Zenon DEF Shared
      <4> QED BY <1>1, <3>2, <4>5, SharedKept
    <3> QED BY <2>1, <3>1, <3>2, Zenon
  <2> QED BY <1>2, <2>2, <2>3, <2>4, <2>5, Zenon DEF WarnedInv
<1>4. CASE ~(Small(nr) /\ WarnBits(nr) \cap warnmap # {})
  <2>1. /\ asked' = [asked EXCEPT ![t] = nr] /\ word' = [word EXCEPT ![t] = WordOf(nr)]
        /\ raced' = raced \union {w \in {nr \div 64} : \E u \in Threads \ {t} :
                                   asked[u] # None /\ asked[u] \div 64 = w}
        /\ UNCHANGED silent
    BY <1>4, Zenon DEF WarnTest, Small
  <2>2. /\ asked \in [Threads -> Numbers \union {None}] /\ word \in [Threads -> SUBSET (Nat \X Nat)]
        /\ WordOf(nr) \in SUBSET (Nat \X Nat)
    BY Zenon DEF WarnedInv, WarnTyped, WordOf
  <2>3. /\ asked' \in [Threads -> Numbers \union {None}] /\ word' \in [Threads -> SUBSET (Nat \X Nat)]
        /\ asked'[t] = nr /\ word'[t] = WordOf(nr)
        /\ \A u \in Threads \ {t} : asked'[u] = asked[u] /\ word'[u] = word[u]
    BY <2>1, <2>2, Zenon
  <2>4. raced \subseteq raced'
    BY <2>1, Zenon
  <2>5. Word(nr) \notin raced' => \A u \in Threads \ {t} : asked[u] # None => Word(asked[u]) # Word(nr)
    BY <2>1, Zenon DEF Word
  <2>6. WarnTyped'
    BY <1>1, <2>3, Zenon DEF WarnedInv, WarnTyped
  <2>7. Small(nr) /\ Word(nr) \notin raced => warned[nr] = 0
    <3> SUFFICES ASSUME Small(nr), Word(nr) \notin raced PROVE warned[nr] = 0
      BY Zenon
    <3>1. ~(WarnBits(nr) \subseteq warnmap)
      BY <1>4, HasBit, ZenonT(30)
    <3>2. Once(nr) /\ warned[nr] \in Nat
      BY Zenon DEF WarnedInv, WarnTyped
    <3>3. warned[nr] <= 1 /\ warned[nr] # 1
      BY <3>1, <3>2, Zenon DEF Once
    <3> QED BY <3>2, <3>3
  <2>8. ASSUME NEW u \in Threads PROVE Tested(u)' /\ Current(u)'
    <3>1. CASE u = t
      <4>1. Tested(u)'
        BY <1>2, <2>3, <3>1, Zenon DEF WarnedInv, BitsKnown, Tested, WordOf, Word
      <4>2. WordOf(asked[t])' = WordOf(nr)
        BY <1>1, <2>3, Zenon DEF WordOf
      <4>3. Current(t)'
        <5> SUFFICES ASSUME Word(nr) \notin raced'
                     PROVE  /\ word'[t] = WordOf(asked[t])'
                            /\ Small(nr) => warned[nr] = 0
                            /\ \A v \in Threads \ {t} : asked'[v] # None => Word(asked'[v]) # Word(nr)
          BY <1>1, <2>3 DEF Current
        <5>1. Small(nr) => warned[nr] = 0
          BY <2>4, <2>7, Zenon
        <5>2. \A v \in Threads \ {t} : asked'[v] # None => Word(asked'[v]) # Word(nr)
          BY <2>3, <2>5, Zenon
        <5> QED BY <2>3, <4>2, <5>1, <5>2, Zenon
      <4>4. Current(u)'
        BY <3>1, <4>3
      <4> QED BY <4>1, <4>4
    <3>2. CASE u # t
      <4>1. Tested(u) /\ Current(u)
        BY Zenon DEF WarnedInv
      <4>2. Tested(u)'
        BY <1>2, <2>3, <3>2, <4>1, Zenon DEF Tested
      <4>3. ASSUME asked'[u] # None, Word(asked'[u]) \notin raced'
            PROVE  /\ word'[u] = WordOf(asked[u])
                   /\ Small(asked[u]) => warned[asked[u]] = 0
                   /\ \A v \in Threads \ {u} : asked'[v] # None => Word(asked'[v]) # Word(asked[u])
        <5>1. asked[u] # None /\ Word(asked[u]) \notin raced
          BY <2>3, <2>4, <3>2, <4>3, Zenon
        <5>2. /\ word'[u] = WordOf(asked[u])
              /\ Small(asked[u]) => warned[asked[u]] = 0
              /\ \A v \in Threads \ {u} : asked[v] # None => Word(asked[v]) # Word(asked[u])
          BY <2>3, <3>2, <4>1, <5>1, Zenon DEF Current
        <5>3. Word(nr) # Word(asked[u])
          BY <2>3, <2>5, <3>2, <4>3, <5>1, Zenon
        <5> QED BY <2>3, <5>2, <5>3, Zenon
      <4>4. asked'[u] = asked[u] /\ WordOf(asked[u])' = WordOf(asked[u])
        BY <1>1, <2>3, <3>2, Zenon DEF WordOf
      <4>5. Current(u)'
        BY <1>1, <4>3, <4>4 DEF Current
      <4> QED BY <4>2, <4>5
    <3> QED BY <3>1, <3>2, Zenon
  <2>9. ASSUME NEW m \in Numbers PROVE Once(m)'
    <3>1. Once(m)
      BY Zenon DEF WarnedInv
    <3> QED BY <1>1, <2>4, <3>1, OnceKept
  <2>10. ASSUME NEW m \in silent' PROVE Shared(m)'
    <3>1. Shared(m)
      BY <2>1 DEF WarnedInv
    <3> QED BY <1>1, <3>1, SharedKept
  <2> QED BY <1>2, <2>6, <2>8, <2>9, <2>10, Zenon DEF WarnedInv
<1> QED BY <1>3, <1>4

(* Another read gives the word as it is. *)
LEMMA LoadStep ==
  ASSUME NEW t \in Threads, WarnedInv, WarnLoad(t)
  PROVE  WarnedInv'
<1>1. /\ UNCHANGED <<guestArch, warnmap, asked, warned, silent, raced>> /\ asked[t] # None
      /\ word' = [word EXCEPT ![t] = WordOf(asked[t])]
  BY Zenon DEF WarnLoad
<1>2. BitsKnown' /\ \A b : FromPrinted(b) => FromPrinted(b)'
  BY <1>1, BitsKept DEF WarnedInv
<1>3. /\ word' \in [Threads -> SUBSET (Nat \X Nat)] /\ word'[t] = WordOf(asked[t])
      /\ \A u \in Threads \ {t} : word'[u] = word[u]
  <2>1. WordOf(asked[t]) \in SUBSET (Nat \X Nat) /\ word \in [Threads -> SUBSET (Nat \X Nat)]
    BY Zenon DEF WarnedInv, WarnTyped, WordOf
  <2> QED BY <1>1, <2>1, Zenon
<1>4. WarnTyped'
  BY <1>1, <1>3, Zenon DEF WarnedInv, WarnTyped
<1>5. ASSUME NEW u \in Threads PROVE Tested(u)' /\ Current(u)'
  <2>1. Tested(u) /\ Current(u)
    BY Zenon DEF WarnedInv
  <2>2. CASE u = t
    <3>1. Tested(u)'
      BY <1>1, <1>2, <1>3, <2>2, Zenon DEF WarnedInv, BitsKnown, Tested, WordOf, Word
    <3>2. WordOf(asked[t])' = WordOf(asked[t])
      BY <1>1, Zenon DEF WordOf
    <3>3. Current(t)'
      BY <1>1, <1>3, <2>1, <2>2, <3>2 DEF Current
    <3> QED BY <2>2, <3>1, <3>3
  <2>3. CASE u # t
    <3>1. Tested(u)'
      BY <1>1, <1>2, <1>3, <2>1, <2>3, Zenon DEF Tested
    <3>2. Current(u)'
      BY <1>1, <1>3, <2>1, <2>3, CurrentKept
    <3> QED BY <3>1, <3>2
  <2> QED BY <2>2, <2>3, Zenon
<1>6. ASSUME NEW nr \in Numbers PROVE Once(nr)'
  <2>1. Once(nr)
    BY Zenon DEF WarnedInv
  <2> QED BY <1>1, <2>1, OnceKept
<1>7. ASSUME NEW nr \in silent' PROVE Shared(nr)'
  <2>1. Shared(nr)
    BY <1>1 DEF WarnedInv
  <2> QED BY <1>1, <2>1, SharedKept
<1> QED BY <1>2, <1>4, <1>5, <1>6, <1>7, Zenon DEF WarnedInv

(* The mark: outside of a race the map only grows, in a race it loses at   *)
(* most bits of that word; what is in it was printed.                      *)
LEMMA PrintStep ==
  ASSUME NEW t \in Threads, WarnedInv, WarnPrint(t)
  PROVE  WarnedInv'
<1> DEFINE nr == asked[t]
<1>1. /\ UNCHANGED <<guestArch, silent, raced>> /\ nr # None
      /\ warnmap' = Marked(t) /\ warned' = [warned EXCEPT ![nr] = @ + 1]
      /\ asked' = [asked EXCEPT ![t] = None] /\ word' = [word EXCEPT ![t] = {}]
  BY Zenon DEF WarnPrint
<1>2. nr \in Numbers /\ nr \in Nat
  BY <1>1, NumbersType, Zenon DEF WarnedInv, WarnTyped
<1>3. Tested(t) /\ Current(t)
  BY Zenon DEF WarnedInv
<1>4. /\ warned' \in [Numbers -> Nat] /\ warned'[nr] = warned[nr] + 1 /\ warned[nr] \in Nat
      /\ \A m \in Numbers \ {nr} : warned'[m] = warned[m]
      /\ \A m \in Numbers : warned[m] > 0 => warned'[m] > 0
  <2> HIDE DEF nr
  <2> QED BY <1>1, <1>2 DEF WarnedInv, WarnTyped
<1>5. /\ asked' \in [Threads -> Numbers \union {None}] /\ word' \in [Threads -> SUBSET (Nat \X Nat)]
      /\ asked'[t] = None /\ word'[t] = {}
      /\ \A u \in Threads \ {t} : asked'[u] = asked[u] /\ word'[u] = word[u]
  <2>1. asked \in [Threads -> Numbers \union {None}] /\ word \in [Threads -> SUBSET (Nat \X Nat)]
    BY Zenon DEF WarnedInv, WarnTyped
  <2> QED BY <1>1, <2>1, Zenon
<1>6. warnmap' = IF Small(nr) THEN (warnmap \ WordOf(nr)) \union word[t] \union WarnBits(nr) ELSE warnmap
  BY <1>1, Zenon DEF Marked, Small
<1> HIDE DEF nr
<1>7. WarnTyped'
  <2>1. warnmap \in SUBSET (Nat \X Nat) /\ word[t] \in SUBSET (Nat \X Nat) /\ guestArch \in Arches
    BY Zenon DEF WarnedInv, WarnTyped
  <2>2. WarnBits(nr) \in SUBSET (Nat \X Nat)
    BY <1>2, BitsType
  <2>3. warnmap' \in SUBSET (Nat \X Nat)
    <3>1. CASE Small(nr)
      BY <1>6, <2>1, <2>2, <3>1
    <3>2. CASE ~(Small(nr))
      BY <1>6, <2>1, <3>2
    <3> QED BY <3>1, <3>2
  <2> QED BY <1>1, <1>4, <1>5, <2>1, <2>3, Zenon DEF WarnTyped
<1>8. \A b : FromPrinted(b) => FromPrinted(b)'
  BY <1>4, PrintedKept
<1>9. BitsKnown'
  <2> SUFFICES ASSUME NEW b \in warnmap' PROVE FromPrinted(b)'
    BY Zenon DEF BitsKnown
  <2>1. CASE b \in warnmap
    BY <1>8, <2>1, Zenon DEF WarnedInv, BitsKnown
  <2>2. CASE b \in word[t]
    BY <1>3, <1>8, <2>2, Zenon DEF Tested
  <2>3. CASE Small(nr) /\ b \in WarnBits(nr)
    <3>1. warned'[nr] > 0
      BY <1>4
    <3> QED BY <1>2, <2>3, <3>1, Zenon DEF FromPrinted
  <2> QED
    <3>1. CASE Small(nr)
      BY <1>6, <2>1, <2>2, <2>3, <3>1
    <3>2. CASE ~(Small(nr))
      BY <1>6, <2>1, <3>2
    <3> QED BY <3>1, <3>2
(* Bits of other words stay as they are. *)
<1>10. ASSUME NEW b, b[1] # Word(nr) PROVE b \in warnmap' <=> b \in warnmap
  <2>1. b \notin WordOf(nr) /\ b \notin WarnBits(nr)
    BY <1>10, BitsInWord, Zenon DEF WordOf, Word
  <2>2. b \notin word[t]
    BY <1>3, <1>10, Zenon DEF Tested, nr
  <2> QED
    <3>1. CASE Small(nr)
      BY <1>6, <2>1, <2>2, <3>1
    <3>2. CASE ~(Small(nr))
      BY <1>6, <3>2
    <3> QED BY <3>1, <3>2
<1>11. Word(nr) \notin raced => warnmap \subseteq warnmap'
  <2> SUFFICES ASSUME Word(nr) \notin raced PROVE warnmap \subseteq warnmap'
    BY Zenon
  <2>1. word[t] = WordOf(nr)
    BY <1>1, <1>3, Zenon DEF Current, nr
  <2>2. CASE Small(nr)
    BY <1>6, <2>1, <2>2
  <2>3. CASE ~(Small(nr))
    BY <1>6, <2>3
  <2> QED BY <2>2, <2>3
<1>12. ASSUME NEW u \in Threads PROVE Tested(u)' /\ Current(u)'
  <2>1. CASE u = t
    BY <1>5, <2>1, Zenon DEF Tested, Current
  <2>2. CASE u # t
    <3>1. Tested(u) /\ Current(u) /\ asked'[u] = asked[u] /\ word'[u] = word[u]
      BY <1>5, <2>2, Zenon DEF WarnedInv
    <3>2. Tested(u)'
      BY <1>8, <3>1, Zenon DEF Tested
    <3>3. ASSUME asked[u] # None, Word(asked[u]) \notin raced
          PROVE  /\ word[u] = WordOf(asked[u])'
                 /\ Small(asked[u]) => warned'[asked[u]] = 0
                 /\ \A v \in Threads \ {u} : asked'[v] # None => Word(asked'[v]) # Word(asked[u])
      <4>1. /\ word[u] = WordOf(asked[u])
            /\ Small(asked[u]) => warned[asked[u]] = 0
            /\ \A v \in Threads \ {u} : asked[v] # None => Word(asked[v]) # Word(asked[u])
        BY <3>1, <3>3, Zenon DEF Current
      <4>2. Word(nr) # Word(asked[u])
        BY <1>1, <2>2, <4>1, Zenon DEF nr
      <4>3. asked[u] # nr /\ asked[u] \in Numbers
        BY <3>3, <4>2, Zenon DEF WarnedInv, WarnTyped
      <4>4. warned'[asked[u]] = warned[asked[u]]
        BY <1>4, <4>3, Zenon
      <4>5. \A b : b \in WordOf(asked[u])' <=> b \in WordOf(asked[u])
        <5> SUFFICES ASSUME NEW b
                     PROVE  (b \in warnmap' /\ b[1] = asked'[u] \div 64) <=> (b \in warnmap /\ b[1] = asked[u] \div 64)
          BY Zenon DEF WordOf
        <5>1. CASE b[1] = asked[u] \div 64
          BY <1>10, <3>1, <4>2, <5>1, Zenon DEF Word
        <5>2. CASE b[1] # asked[u] \div 64
          BY <3>1, <5>2, Zenon
        <5> QED BY <5>1, <5>2, Zenon
      <4>6. WordOf(asked[u])' = WordOf(asked[u])
        BY <4>5, Zenon
      <4>7. ASSUME NEW v \in Threads \ {u}, asked'[v] # None
            PROVE  Word(asked'[v]) # Word(asked[u])
        BY <1>5, <4>1, <4>7, Zenon
      <4> QED BY <4>1, <4>4, <4>6, <4>7
    <3>4. Current(u)'
      <4> SUFFICES ASSUME asked'[u] # None, Word(asked'[u]) \notin raced'
                   PROVE  /\ word'[u] = WordOf(asked[u])'
                          /\ Small(asked'[u]) => warned'[asked'[u]] = 0
                          /\ \A v \in Threads \ {u} : asked'[v] # None => Word(asked'[v]) # Word(asked'[u])
        BY Zenon DEF Current
      <4>3. raced' = raced /\ asked'[u] = asked[u]
        BY <1>1, <3>1, Zenon
      <4>1. asked[u] # None /\ Word(asked[u]) \notin raced
        BY <4>3
      <4>2. /\ word[u] = WordOf(asked[u])'
            /\ Small(asked[u]) => warned'[asked[u]] = 0
            /\ \A v \in Threads \ {u} : asked'[v] # None => Word(asked'[v]) # Word(asked[u])
        BY <3>3, <4>1, Zenon
      <4> QED BY <3>1, <4>2
    <3> QED BY <3>2, <3>4
  <2> QED BY <2>1, <2>2, Zenon
<1>13. ASSUME NEW m \in Numbers PROVE Once(m)'
  <2> SUFFICES ASSUME Small(m), Word(m) \notin raced
               PROVE  warned'[m] <= 1 /\ (warned'[m] = 1 => WarnBits(m) \subseteq warnmap')
    BY <1>1, Zenon DEF Once, WarnBits
  <2>1. warned[m] <= 1 /\ (warned[m] = 1 => WarnBits(m) \subseteq warnmap)
    BY Zenon DEF WarnedInv, Once
  <2>2. CASE m = nr
    <3>1. warned[nr] = 0
      <4>1. Small(nr) /\ Word(nr) \notin raced
        BY <2>2, Zenon
      <4> QED BY <1>1, <1>3, <4>1, Zenon DEF Current, nr
    <3>2. warned'[m] = 1
      BY <1>4, <2>2, <3>1
    <3>3. WarnBits(m) \subseteq warnmap'
      BY <1>6, <2>2, Zenon
    <3> QED BY <3>2, <3>3
  <2>3. CASE m # nr
    <3>1. warned'[m] = warned[m]
      BY <1>4, <2>3, Zenon
    <3>2. WarnBits(m) \subseteq warnmap => WarnBits(m) \subseteq warnmap'
      <4>1. CASE Word(m) = Word(nr)
        BY <1>11, <4>1, Zenon
      <4>2. CASE Word(m) # Word(nr)
        <5> SUFFICES ASSUME NEW b \in WarnBits(m), b \in warnmap PROVE b \in warnmap'
          BY Zenon
        <5>1. b[1] # Word(nr)
          BY <4>2, BitsInWord, Zenon
        <5> QED BY <1>10, <5>1, Zenon
      <4> QED BY <4>1, <4>2, Zenon
    <3> QED BY <2>1, <3>1, <3>2, Zenon
  <2> QED BY <2>2, <2>3, Zenon
<1>14. ASSUME NEW m \in silent' PROVE Shared(m)'
  <2>1. Shared(m)
    BY <1>1 DEF WarnedInv
  <2> QED BY <1>4, <2>1, SharedKept
<1> QED BY <1>7, <1>9, <1>12, <1>13, <1>14, Zenon DEF WarnedInv

(* Every step of the guest and of the emulation; fcntl goes to             *)
(* unhandled_syscall too, with a number of its own.                        *)
LEMMA StepWarned ==
  WarnedInv /\ [SysNext]_sysVars => WarnedInv'
<1> SUFFICES ASSUME WarnedInv, [SysNext]_sysVars PROVE WarnedInv'
  BY Zenon
<1>1. ASSUME NEW c \in Calls, GuestCalls(c) PROVE WarnedInv'
  BY <1>1, WarnedKept, Zenon DEF GuestCalls
<1>2. CASE emulate_syscall
  <2>1. UNCHANGED guestArch
    BY <1>2, Zenon DEF emulate_syscall
  <2>2. WarnTest(0, FcntlNr(guestArch)) \/ UNCHANGED warnVars
    BY <1>2, Zenon DEF emulate_syscall
  <2>3. FcntlNr(guestArch) \in Numbers /\ 0 \in Threads
    BY Zenon DEF WarnedInv, WarnTyped, Numbers, Threads
  <2>4. CASE WarnTest(0, FcntlNr(guestArch))
    BY <2>1, <2>3, <2>4, TestStep, Zenon
  <2>5. CASE UNCHANGED warnVars
    BY <2>1, <2>5, WarnedKept, Zenon
  <2> QED BY <2>2, <2>4, <2>5, Zenon
<1>3. CASE Resume
  BY <1>3, WarnedKept, Zenon DEF Resume
<1>4. ASSUME NEW t \in Threads, NEW nr \in Unknown, unhandled_syscall(t, nr) PROVE WarnedInv'
  <2>1. nr \in Numbers
    BY Zenon DEF Numbers
  <2>2. WarnTest(t, nr) /\ UNCHANGED guestArch
    BY <1>4, Zenon DEF unhandled_syscall
  <2> QED BY <2>1, <2>2, TestStep, Zenon
<1>5. CASE UNCHANGED sysVars
  BY <1>5, WarnedKept, Zenon DEF sysVars
<1> QED BY <1>1, <1>2, <1>3, <1>4, <1>5, LoadStep, PrintStep, Zenon DEF SysNext

(* "warn only once about each syscall" (client/emulate.c:521) holds for    *)
(* every number below 1024, in every order of calls and of steps of any    *)
(* number of threads, but for the words of the map where two threads were  *)
(* between test and mark at the same time; and in all orders a warning is  *)
(* left out only for a number that shares a bit with one that was printed. *)
THEOREM WarnedOnce == SysSpec => []WarnsOnce
<1>1. WarnedInv => WarnsOnce
  <2> SUFFICES ASSUME WarnedInv PROVE WarnsOnce
    BY Zenon
  <2>1. ASSUME NEW nr \in Numbers, nr < 1024 /\ nr \div 64 \notin raced PROVE warned[nr] <= 1
    BY <2>1 DEF WarnedInv, Once, Word, Small
  <2>2. ASSUME NEW nr \in silent PROVE Shared(nr)
    BY Zenon DEF WarnedInv
  <2> QED BY <2>1, <2>2 DEF WarnsOnce, Shared, Meet, Small
<1> QED BY InitWarned, StepWarned, <1>1, PTL DEF SysSpec

------------------------------------------------------------------------------
(* Loop detection *)

(* A set of natural numbers has a least element: the induction below is by  *)
(* a least counterexample.                                                  *)
LEMMA Least ==
  ASSUME NEW T \in SUBSET Nat, T # {}
  PROVE  \E x \in T : \A y \in T : x <= y
<1> DEFINE R == {ss \in Nat \X Nat : ss[1] < ss[2]}
<1>1. IsWellFoundedOn(R, Nat)
  BY NatLessThanWellFounded, Zenon DEF OpToRel
<1>2. PICK x \in T : \A y \in T : <<y, x>> \notin R
  BY <1>1, WFMin, Zenon
<1>3. \A y \in T : ~(y < x)
  BY <1>2, Zenon
<1> QED BY <1>3

(* The window is the end of the trace, as long as it can be since the last  *)
(* report; the counters count; and once the window is full, the last block  *)
(* was not the first one of the window before it.                           *)
EndOf(b, s) ==
  Len(b) <= Len(s) /\ \A k \in 1 .. Len(b) : b[k] = s[Len(s) - Len(b) + k]
RepsOf(s) == {i \in 3 .. Len(s) : s[i] = s[i - 1]}

LoopTyped ==
  /\ buf \in Seq(Blocks) /\ seen \in Seq(Blocks)
  /\ repeats \in Nat /\ since \in Nat /\ exited \in BOOLEAN
WindowHolds == Len(buf) <= Window /\ (buf = <<>> => seen = <<>>) /\ EndOf(buf, seen)
RepeatsCounted ==
  /\ last = IF Len(seen) >= 2 THEN seen[Len(seen)] ELSE 0
  /\ IsFiniteSet(RepsOf(seen)) /\ repeats = Cardinality(RepsOf(seen))
  /\ exited <=> repeats >= SameBbThreshold
NotClosed ==
  /\ since <= Len(seen)
  /\ Len(buf) >= since \/ Len(buf) = Window
  /\ since > Window => seen[Len(seen)] # seen[Len(seen) - Window]

LoopInv == LoopTyped /\ WindowHolds /\ RepeatsCounted /\ NotClosed

(* What the operations on sequences do. *)
Grows(s, x, t) ==
  /\ Len(s) \in Nat /\ Len(t) = Len(s) + 1 /\ t[Len(s) + 1] = x
  /\ \A k \in 1 .. Len(s) : t[k] = s[k]

(* Append grows a sequence by one element. *)
LEMMA Grown ==
  ASSUME NEW S, NEW s \in Seq(S), NEW x \in S
  PROVE  Append(s, x) \in Seq(S) /\ Append(s, x) # <<>> /\ Grows(s, x, Append(s, x))
BY AppendProperties, LenProperties DEF Grows

(* The new element is the last one. *)
LEMMA LastGrown ==
  ASSUME NEW s, NEW x, NEW t, Grows(s, x, t)
  PROVE  t[Len(t)] = x
BY Zenon DEF Grows

(* Tail drops the first element of a window. *)
LEMMA Shortened ==
  ASSUME NEW S, NEW s \in Seq(S), s # <<>>
  PROVE  /\ Tail(s) \in Seq(S) /\ Len(Tail(s)) = Len(s) - 1 /\ Len(s) \in Nat /\ Len(s) >= 1
         /\ \A k \in 1 .. Len(s) - 1 : Tail(s)[k] = s[k + 1]
OBVIOUS

(* A sequence of one element. *)
LEMMA Single ==
  ASSUME NEW S, NEW x \in S
  PROVE  <<x>> \in Seq(S) /\ Len(<<x>>) = 1 /\ <<x>>[1] = x /\ <<x>> # <<>>
OBVIOUS

(* Before the first dispatch nothing was seen. *)
LEMMA NoBlocks ==
  <<>> \in Seq(Blocks) /\ Len(<<>>) = 0 /\ EndOf(<<>>, <<>>) /\ RepsOf(<<>>) = {}
BY DEF EndOf, RepsOf

(* The invariant of the loop detector holds at the start. *)
LEMMA InitLoop == LoopInit => LoopInv
<1> SUFFICES ASSUME LoopInit PROVE LoopInv
  BY Zenon
<1>1. buf = <<>> /\ seen = <<>> /\ last = 0 /\ repeats = 0 /\ since = 0 /\ exited = FALSE
  BY Zenon DEF LoopInit
<1>2. LoopTyped
  BY <1>1, NoBlocks, Zenon DEF LoopTyped
<1>3. WindowHolds
  BY <1>1, NoBlocks, LoopAssumption DEF WindowHolds
<1>4. RepeatsCounted
  BY <1>1, NoBlocks, FS_EmptySet, LoopAssumption DEF RepeatsCounted
<1>5. NotClosed
  BY <1>1, NoBlocks, LoopAssumption DEF NotClosed
<1> QED BY <1>2, <1>3, <1>4, <1>5, Zenon DEF LoopInv

(* The window moves over the trace, and starts again behind a report. *)
LEMMA EndStarts ==
  ASSUME NEW s, NEW s2, NEW x \in Blocks, Grows(s, x, s2)
  PROVE  EndOf(<<x>>, s2)
<1>1. Len(<<x>>) = 1 /\ <<x>>[1] = x
  BY Single, Zenon
<1>2. Len(s2) \in Nat /\ Len(s2) >= 1 /\ s2[Len(s2)] = x
  BY DEF Grows
<1>3. Len(s2) - 1 + 1 = Len(s2)
  BY <1>2
<1> QED BY <1>1, <1>2, <1>3 DEF EndOf

(* A window and a trace that get the same block: the window stays the end. *)
LEMMA EndGrows ==
  ASSUME NEW b, NEW s, NEW b2, NEW s2, NEW x, EndOf(b, s), Grows(b, x, b2), Grows(s, x, s2)
  PROVE  EndOf(b2, s2)
<1> DEFINE n == Len(s)
           L == Len(b)
<1>1. n \in Nat /\ Len(s2) = n + 1 /\ s2[n + 1] = x /\ \A i \in 1 .. n : s2[i] = s[i]
  BY Zenon DEF Grows
<1>2. L \in Nat /\ Len(b2) = L + 1 /\ b2[L + 1] = x /\ \A k \in 1 .. L : b2[k] = b[k]
  BY Zenon DEF Grows
<1>3. L <= n /\ \A k \in 1 .. L : b[k] = s[n - L + k]
  BY Zenon DEF EndOf
<1> HIDE DEF n, L
<1>4. ASSUME NEW k \in 1 .. L + 1 PROVE b2[k] = s2[(n + 1) - (L + 1) + k]
  <2>1. CASE k = L + 1
    <3>1. (n + 1) - (L + 1) + k = n + 1
      BY <1>1, <1>2, <2>1
    <3> QED BY <1>1, <1>2, <2>1, <3>1, Zenon
  <2>2. CASE k \in 1 .. L
    <3>1. n - L + k \in 1 .. n /\ (n + 1) - (L + 1) + k = n - L + k
      BY <1>1, <1>2, <1>3, <2>2
    <3> QED BY <1>1, <1>2, <1>3, <2>2, <3>1, Zenon
  <2> QED BY <1>2, <2>1, <2>2
<1> QED BY <1>1, <1>2, <1>3, <1>4 DEF EndOf

(* A window without its first block is still the end of the trace. *)
LEMMA EndMoves ==
  ASSUME NEW b \in Seq(Blocks), NEW s \in Seq(Blocks), b # <<>>, EndOf(b, s)
  PROVE  EndOf(Tail(b), s)
<1> DEFINE n == Len(s)
           L == Len(b)
           t == Tail(b)
<1>1. /\ Len(t) = L - 1 /\ L \in Nat /\ L >= 1
      /\ \A k \in 1 .. L - 1 : t[k] = b[k + 1]
  BY Shortened, Zenon
<1>2. n \in Nat /\ L <= n /\ \A k \in 1 .. L : b[k] = s[n - L + k]
  BY LenProperties, Zenon DEF EndOf
<1> HIDE DEF n, L, t
<1>3. ASSUME NEW k \in 1 .. L - 1 PROVE t[k] = s[n - (L - 1) + k]
  <2>1. k + 1 \in 1 .. L /\ n - L + (k + 1) = n - (L - 1) + k
    BY <1>1, <1>2
  <2> QED BY <1>1, <1>2, <2>1, Zenon
<1>4. Len(t) <= n
  BY <1>1, <1>2
<1>5. \A k \in 1 .. Len(t) : t[k] = s[n - Len(t) + k]
  <2>1. \A k \in 1 .. L - 1 : t[k] = s[n - (L - 1) + k]
    BY <1>3, Zenon
  <2> QED BY <1>1, <2>1, Zenon
<1> QED BY <1>4, <1>5, Zenon DEF EndOf, n, t

(* Pushing a block keeps the window the end of the trace, full or not. *)
LEMMA PushEnd ==
  ASSUME NEW b \in Seq(Blocks), NEW s \in Seq(Blocks), b # <<>>, EndOf(b, s), Len(b) <= Window,
         NEW x \in Blocks
  PROVE  /\ Push(b, x) \in Seq(Blocks) /\ Push(b, x) # <<>> /\ EndOf(Push(b, x), Append(s, x))
         /\ Len(Push(b, x)) = IF Len(b) = Window THEN Window ELSE Len(b) + 1
<1> DEFINE t == IF Len(b) >= Window THEN Tail(b) ELSE b
<1>0. Window \in Nat /\ Len(b) \in Nat
  BY LoopAssumption
<1>1. t \in Seq(Blocks) /\ EndOf(t, s) /\ Len(t) = IF Len(b) = Window THEN Len(b) - 1 ELSE Len(b)
  BY <1>0, Shortened, EndMoves
<1>2. Push(b, x) = Append(t, x)
  BY Zenon DEF Push
<1> HIDE DEF t
<1>3. Append(t, x) \in Seq(Blocks) /\ Append(t, x) # <<>> /\ Grows(t, x, Append(t, x))
  BY <1>1, Grown, Zenon
<1>4. Grows(s, x, Append(s, x))
  BY Grown, Zenon
<1>5. EndOf(Append(t, x), Append(s, x))
  BY <1>1, <1>3, <1>4, EndGrows, Zenon
<1>6. Len(Append(t, x)) = Len(t) + 1
  BY <1>3, Zenon DEF Grows
<1> QED BY <1>0, <1>1, <1>2, <1>3, <1>5, <1>6

(* SameBb counts a block that follows itself. *)
LEMMA RepsGrow ==
  ASSUME NEW s, NEW s2, NEW x, Grows(s, x, s2)
  PROVE  /\ RepsOf(s2) = IF Len(s) >= 2 /\ s[Len(s)] = x THEN RepsOf(s) \union {Len(s) + 1}
                         ELSE RepsOf(s)
         /\ Len(s) + 1 \notin RepsOf(s)
<1> DEFINE n == Len(s)
<1>1. n \in Nat /\ Len(s2) = n + 1 /\ s2[n + 1] = x /\ \A i \in 1 .. n : s2[i] = s[i]
  BY Zenon DEF Grows
<1>2. RepsOf(s) = {i \in 3 .. n : s[i] = s[i - 1]}
  BY Zenon DEF RepsOf
<1>3. RepsOf(s2) = {i \in 3 .. n + 1 : s2[i] = s2[i - 1]}
  BY <1>1, Zenon DEF RepsOf
<1> HIDE DEF n
<1>4. \A i \in 3 .. n : s2[i] = s[i] /\ s2[i - 1] = s[i - 1]
  BY <1>1
<1>5. ASSUME NEW i PROVE i \in RepsOf(s2) <=> i \in RepsOf(s) \/ (i = n + 1 /\ n >= 2 /\ s[n] = x)
  <2>1. CASE i = n + 1
    <3>1. i \notin RepsOf(s) /\ i - 1 = n
      BY <1>1, <1>2, <2>1
    <3>2. i \in RepsOf(s2) <=> n + 1 >= 3 /\ s2[n + 1] = s2[n]
      BY <1>1, <1>3, <2>1, <3>1
    <3>3. n >= 2 => s2[n] = s[n]
      BY <1>1
    <3> QED BY <1>1, <2>1, <3>1, <3>2, <3>3
  <2>2. CASE i # n + 1
    <3>1. i \in RepsOf(s2) <=> i \in 3 .. n /\ s2[i] = s2[i - 1]
      BY <1>1, <1>3, <2>2
    <3> QED BY <1>2, <1>4, <2>2, <3>1, Zenon
  <2> QED BY <2>1, <2>2, Zenon
<1>6. n + 1 \notin RepsOf(s)
  BY <1>1, <1>2
<1> QED BY <1>5, <1>6, Zenon DEF n

(* exit is called when the counter has reached its threshold. *)
LEMMA Flag ==
  ASSUME NEW e, NEW r \in Nat, NEW t \in Nat, e = (r >= t)
  PROVE  e \in BOOLEAN /\ (e <=> r >= t)
<1>1. e \in BOOLEAN
  OBVIOUS
<1>2. e <=> r >= t
  BY Zenon
<1> QED BY <1>1, <1>2, Zenon

(* same_bb_cnt counts the blocks that follow themselves. *)
LEMMA RepeatStep ==
  ASSUME LoopTyped, RepeatsCounted, seen # <<>>, ~exited,
         NEW x \in Blocks, Grows(seen, x, seen'), SameBb(x)
  PROVE  RepeatsCounted' /\ repeats' \in Nat /\ exited' \in BOOLEAN
<1> DEFINE n == Len(seen)
           R == RepsOf(seen)
<1>1. /\ n \in Nat /\ n >= 1 /\ Len(seen') = n + 1 /\ seen'[n + 1] = x
      /\ repeats \in Nat /\ SameBbThreshold \in Nat /\ 0 \notin Blocks
  BY LoopAssumption DEF LoopTyped, Grows
<1>2. last = IF n >= 2 THEN seen[n] ELSE 0
  BY Zenon DEF RepeatsCounted
<1>3. x = last <=> n >= 2 /\ seen[n] = x
  BY <1>1, <1>2, Zenon
<1>4. last' = x
  BY Zenon DEF SameBb
<1>5. last' = IF Len(seen') >= 2 THEN seen'[Len(seen')] ELSE 0
  BY <1>1, <1>4
<1>6. IsFiniteSet(R) /\ repeats = Cardinality(R) /\ ~(repeats >= SameBbThreshold)
  BY Zenon DEF RepeatsCounted
<1>7. RepsOf(seen') = IF x = last THEN R \union {n + 1} ELSE R
  BY <1>3, RepsGrow, Zenon
<1>8. n + 1 \notin R
  BY RepsGrow, Zenon
<1> HIDE DEF n, R
<1>9. CASE x = last
  <2>1. repeats' = repeats + 1 /\ exited' = (repeats' >= SameBbThreshold)
    BY <1>9, Zenon DEF SameBb
  <2>2. exited' \in BOOLEAN /\ (exited' <=> repeats' >= SameBbThreshold)
    <3>1. repeats' \in Nat
      BY <1>1, <2>1
    <3> QED BY <1>1, <2>1, <3>1, Flag, Zenon
  <2>3. IsFiniteSet(RepsOf(seen')) /\ Cardinality(RepsOf(seen')) = repeats + 1
    BY <1>6, <1>7, <1>8, <1>9, FS_AddElement
  <2>4. repeats' \in Nat /\ repeats' = Cardinality(RepsOf(seen'))
    BY <1>1, <2>1, <2>3
  <2> QED BY <1>5, <2>2, <2>3, <2>4, Zenon DEF RepeatsCounted
<1>10. CASE x # last
  <2>1. repeats' = repeats /\ exited' = exited /\ RepsOf(seen') = R
    BY <1>7, <1>10, Zenon DEF SameBb
  <2>2. exited' \in BOOLEAN /\ ~exited'
    BY <2>1, Zenon DEF LoopTyped
  <2>4. ~(repeats' >= SameBbThreshold) /\ repeats' \in Nat
    BY <1>1, <1>6, <2>1, Zenon
  <2>3. IsFiniteSet(RepsOf(seen')) /\ repeats' = Cardinality(RepsOf(seen'))
    BY <1>6, <2>1, Zenon
  <2> QED BY <1>5, <2>2, <2>3, <2>4, Zenon DEF RepeatsCounted
<1> QED BY <1>9, <1>10, Zenon

(* The first block starts the window. *)
LEMMA FirstBlock ==
  ASSUME LoopInv, NEW x \in Blocks, buf = <<>>, buf' = <<x>>, seen' = <<x>>, since' = 1,
         UNCHANGED <<count, last, repeats, exited>>
  PROVE  LoopInv'
<1>1. seen = <<>> /\ repeats \in Nat /\ exited \in BOOLEAN /\ Window \in Nat /\ Window >= 4
  BY LoopAssumption, Zenon DEF LoopInv, WindowHolds, LoopTyped, MinLoop
<1>2. <<x>> \in Seq(Blocks) /\ Len(<<x>>) = 1 /\ <<x>>[1] = x /\ <<x>> # <<>>
  BY Single, Zenon
<1>3. Grows(<<>>, x, <<x>>)
  BY <1>2, NoBlocks DEF Grows
<1>4. EndOf(<<x>>, <<x>>) /\ RepsOf(<<x>>) = RepsOf(seen)
  BY <1>1, <1>3, EndStarts, RepsGrow, NoBlocks
<1>5. LoopTyped'
  BY <1>1, <1>2, Zenon DEF LoopTyped
<1>6. WindowHolds'
  BY <1>1, <1>2, <1>4 DEF WindowHolds
<1>7. RepeatsCounted'
  <2>1. last = 0 /\ last' = last /\ Len(seen') = 1
    BY <1>1, <1>2, NoBlocks DEF LoopInv, RepeatsCounted
  <2>2. last' = IF Len(seen') >= 2 THEN seen'[Len(seen')] ELSE 0
    BY <2>1
  <2> QED BY <1>4, <2>2, Zenon DEF LoopInv, RepeatsCounted
<1>8. NotClosed'
  BY <1>1, <1>2 DEF NotClosed
<1> QED BY <1>5, <1>6, <1>7, <1>8, Zenon DEF LoopInv

(* Every other block that is not left out. *)
LEMMA NextBlock ==
  ASSUME LoopInv, ~exited, NEW x \in Blocks, buf # <<>>,
         buf' = Push(IF Closes(x) THEN <<>> ELSE buf, x), SameBb(x),
         seen' = Append(seen, x), since' = IF Closes(x) THEN 0 ELSE since + 1
  PROVE  LoopInv'
<1> DEFINE n == Len(seen)
           L == Len(buf)
<1>0. /\ buf \in Seq(Blocks) /\ seen \in Seq(Blocks) /\ since \in Nat /\ n \in Nat /\ L \in Nat
      /\ L >= 1 /\ L <= Window /\ L <= n /\ EndOf(buf, seen) /\ Window \in Nat /\ Window >= 4
  <2>1. buf \in Seq(Blocks) /\ seen \in Seq(Blocks) /\ since \in Nat /\ L <= Window
        /\ EndOf(buf, seen) /\ L <= n
    BY Zenon DEF LoopInv, LoopTyped, WindowHolds, EndOf
  <2>2. Len(buf) \in Nat /\ Len(buf) >= 1 /\ Len(seen) \in Nat
    BY <2>1, EmptySeq, LenProperties
  <2> QED BY <2>1, <2>2, LoopAssumption, Zenon DEF MinLoop
<1>1. Append(seen, x) \in Seq(Blocks) /\ Append(seen, x) # <<>> /\ Grows(seen, x, Append(seen, x))
  BY <1>0, Grown, Zenon
<1>2. /\ seen' \in Seq(Blocks) /\ seen' # <<>> /\ Grows(seen, x, seen') /\ Len(seen') = n + 1
      /\ seen'[n + 1] = x /\ \A i \in 1 .. n : seen'[i] = seen[i]
  BY <1>1, Zenon DEF Grows
<1>3. seen # <<>>
  BY <1>0, EmptySeq
<1>4. RepeatsCounted' /\ repeats' \in Nat /\ exited' \in BOOLEAN
  BY <1>2, <1>3, RepeatStep, Zenon DEF LoopInv
<1>5. CASE Closes(x)
  <2>1. buf' = <<x>>
    <3>1. buf' = Push(<<>>, x)
      BY <1>5, Zenon
    <3>2. Push(<<>>, x) = <<x>>
      BY <1>0, NoBlocks DEF Push
    <3> QED BY <3>1, <3>2, Zenon
  <2>2. buf' \in Seq(Blocks) /\ Len(buf') = 1 /\ buf' # <<>> /\ EndOf(buf', seen')
    BY <1>2, <2>1, Single, EndStarts, Zenon
  <2>3. since' = 0
    BY <1>5, Zenon
  <2>4. LoopTyped' /\ WindowHolds' /\ NotClosed'
    <3>1. since' \in Nat /\ Len(buf') <= Window /\ since' <= Len(seen') /\ Len(buf') >= since'
          /\ ~(since' > Window)
      BY <1>0, <1>2, <2>2, <2>3
    <3> QED BY <1>2, <1>4, <2>2, <3>1, Zenon DEF LoopTyped, WindowHolds, NotClosed
  <2> QED BY <1>4, <2>4, Zenon DEF LoopInv
<1>6. CASE ~Closes(x)
  <2>1. buf' = Push(buf, x) /\ since' = since + 1
    BY <1>6, Zenon
  <2>2. /\ buf' \in Seq(Blocks) /\ buf' # <<>> /\ EndOf(buf', seen')
        /\ Len(buf') = IF L = Window THEN Window ELSE L + 1
    BY <1>0, <2>1, PushEnd, Zenon
  <2>3. since' \in Nat /\ Len(buf') <= Window
    BY <1>0, <2>1, <2>2
  <2>4. LoopTyped' /\ WindowHolds'
    BY <1>2, <1>4, <2>2, <2>3, Zenon DEF LoopTyped, WindowHolds
  <2>5. since <= n /\ (L >= since \/ L = Window)
    BY Zenon DEF LoopInv, NotClosed
  <2>6. since' <= Len(seen') /\ (Len(buf') >= since' \/ Len(buf') = Window)
    BY <1>0, <1>2, <2>1, <2>2, <2>5
  <2>7. since' > Window => seen'[Len(seen')] # seen'[Len(seen') - Window]
    <3> SUFFICES ASSUME since' > Window PROVE seen'[Len(seen')] # seen'[Len(seen') - Window]
      BY Zenon
    <3>1. L = Window
      BY <1>0, <2>1, <2>5
    <3>2. x # buf[1]
      BY <1>0, <1>6, <3>1, Zenon DEF Closes, MinLoop
    <3>3. buf[1] = seen[n - L + 1]
      <4>1. 1 \in 1 .. L
        BY <1>0
      <4> QED BY <1>0, <4>1, Zenon DEF EndOf
    <3>4. n - L + 1 \in 1 .. n /\ n + 1 - Window = n - L + 1
      BY <1>0, <3>1
    <3>5. x # seen'[n + 1 - Window]
      BY <1>2, <3>2, <3>3, <3>4, Zenon
    <3>6. seen'[Len(seen')] = x
      BY <1>2, LastGrown, Zenon
    <3>7. Len(seen') - Window = n + 1 - Window
      BY <1>0, <1>2
    <3> QED BY <3>5, <3>6, <3>7, Zenon
  <2>8. NotClosed'
    BY <2>6, <2>7, Zenon DEF NotClosed
  <2> QED BY <1>4, <2>4, <2>8, Zenon DEF LoopInv
<1> QED BY <1>5, <1>6, Zenon

(* Every call of loop_detect_check keeps the invariant. *)
LEMMA StepLoop == LoopInv /\ [LoopNext]_loopVars => LoopInv'
<1> SUFFICES ASSUME LoopInv, [LoopNext]_loopVars PROVE LoopInv'
  BY Zenon
<1>1. CASE UNCHANGED loopVars
  BY <1>1, Zenon DEF loopVars, LoopInv, LoopTyped, WindowHolds, RepeatsCounted, NotClosed
<1>2. ASSUME NEW x \in Blocks, loop_detect_check(x) PROVE LoopInv'
  <2>1. CASE UNCHANGED <<buf, last, repeats, exited, seen, since>>
    BY <2>1, Zenon DEF LoopInv, LoopTyped, WindowHolds, RepeatsCounted, NotClosed
  <2>2. CASE buf = <<>> /\ buf' = <<x>> /\ seen' = <<x>> /\ since' = 1
             /\ UNCHANGED <<count, last, repeats, exited>>
    BY <2>2, FirstBlock, Zenon
  <2>3. CASE /\ buf # <<>> /\ ~exited
             /\ buf' = Push(IF Closes(x) THEN <<>> ELSE buf, x) /\ SameBb(x)
             /\ seen' = Append(seen, x) /\ since' = IF Closes(x) THEN 0 ELSE since + 1
    BY <2>3, NextBlock, Zenon
  <2> QED BY <1>2, <2>1, <2>2, <2>3, Zenon DEF loop_detect_check
<1> QED BY <1>1, <1>2, Zenon DEF LoopNext

(* A period that divides the window leads from a block to the one a window  *)
(* before it.                                                               *)
Periodic(s, n, w, p) == \A i \in n - 2 * w + 1 .. n - p : s[i] = s[i + p]

(* What repeats every p blocks repeats every q * p blocks. *)
LEMMA Periods ==
  ASSUME NEW s, NEW n \in Nat, NEW p \in Nat \ {0}, NEW q \in Nat, NEW w \in Nat, w = q * p,
         Periodic(s, n, w, p)
  PROVE  s[n - w] = s[n]
<1> DEFINE T == {k \in Nat : k <= q /\ s[n - k * p] # s[n]}
<1> SUFFICES ASSUME T # {} PROVE FALSE
  <2>1. T = {} => q \notin T
    BY Zenon
  <2> QED BY <2>1
<1>1. PICK k \in T : \A j \in T : k <= j
  BY Least, Zenon
<1>2. k \in Nat /\ k <= q /\ s[n - k * p] # s[n]
  BY <1>1, Zenon
<1>3. k # 0
  BY <1>2
<1>4. k - 1 \in Nat /\ k - 1 <= q /\ k - 1 \notin T
  BY <1>1, <1>2, <1>3
<1>5. s[n - (k - 1) * p] = s[n]
  BY <1>4, Zenon
<1>6. n - k * p \in Int /\ n - k * p + p = n - (k - 1) * p
  BY <1>2
<1>7. k * p <= w /\ k * p >= p
  <2>1. (q - k) * p >= 0 /\ (k - 1) * p >= 0
    BY <1>2, <1>4
  <2> QED BY <1>2, <2>1
<1>8. n - k * p \in n - 2 * w + 1 .. n - p
  <2> DEFINE m == k * p
  <2>1. m \in Int /\ m <= w /\ m >= p
    BY <1>2, <1>7
  <2> HIDE DEF m
  <2>2. n - m \in n - 2 * w + 1 .. n - p
    BY <2>1
  <2> QED BY <2>2, Zenon DEF m
<1>9. s[n - k * p] = s[n - k * p + p]
  BY <1>8, Zenon DEF Periodic
<1> QED BY <1>2, <1>5, <1>6, <1>9, Zenon

(* A window that is a multiple of the length of a loop. *)
LEMMA Divided ==
  ASSUME NEW w \in Nat, NEW p \in Nat \ {0}, w % p = 0
  PROVE  w \div p \in Nat /\ w = (w \div p) * p
<1>1. w \div p \in Int /\ w \div p >= 0
  OBVIOUS
<1>2. w = (w \div p) * p + (w % p)
  OBVIOUS
<1> QED BY <1>1, <1>2

(* loop_detect_check does what its messages say, for every trace of blocks  *)
(* and every size of the window: what it prints as a loop did run, it stops *)
(* the client exactly at the limit of blocks that follow themselves, and it *)
(* reports a loop whose length divides the window before the loop filled    *)
(* the window twice.                                                        *)
THEOREM LoopsDetected == LoopSpec => []DetectsLoops
<1>1. LoopInv => DetectsLoops
  <2> SUFFICES ASSUME LoopInv PROVE DetectsLoops
    BY Zenon
  <2>1. buf \in Seq(Blocks) /\ seen \in Seq(Blocks) /\ since \in Nat /\ EndOf(buf, seen)
        /\ Len(buf) <= Window /\ Len(buf) \in Nat /\ Len(seen) \in Nat
    BY LenProperties, Zenon DEF LoopInv, LoopTyped, WindowHolds
  <2>2. WindowIsTrace
    <3>1. ASSUME NEW s \in Seq(Blocks), NEW b \in Seq(Blocks), Len(b) <= Len(s),
                 \A k \in 1 .. Len(b) : b[k] = s[Len(s) - Len(b) + k]
          PROVE  b = SubSeq(s, Len(s) - Len(b) + 1, Len(s))
      BY <3>1
    <3>2. buf = SubSeq(seen, Len(seen) - Len(buf) + 1, Len(seen))
      BY <2>1, <3>1, Zenon DEF EndOf
    <3> QED BY <2>1, <3>2, Zenon DEF WindowIsTrace, Final
  <2>3. StopsOnRepeats
    BY Zenon DEF LoopInv, RepeatsCounted, RepsOf, StopsOnRepeats
  <2>4. ASSUME NEW p \in MinLoop .. Window, Window % p = 0, Len(seen) >= 2 * Window,
               \A i \in Len(seen) - 2 * Window + 1 .. Len(seen) - p : seen[i] = seen[i + p]
        PROVE  since < 2 * Window
    <3>1. Window \in Nat /\ Window >= 4 /\ p \in Nat \ {0} /\ p <= Window
      BY <2>4, LoopAssumption DEF MinLoop
    <3>2. PICK q \in Nat : Window = q * p
      BY <2>4, <3>1, Divided, Zenon
    <3>3. seen[Len(seen) - Window] = seen[Len(seen)]
      <4>1. Periodic(seen, Len(seen), Window, p)
        BY <2>4, Zenon DEF Periodic
      <4> QED BY <2>1, <3>1, <3>2, <4>1, Periods
    <3>4. ~(since > Window)
      BY <3>3, Zenon DEF LoopInv, NotClosed
    <3> QED BY <2>1, <3>1, <3>4
  <2> QED BY <2>2, <2>3, <2>4, Zenon DEF DetectsLoops
<1> QED BY InitLoop, StepLoop, <1>1, PTL DEF LoopSpec

------------------------------------------------------------------------------
(* The initial stack *)

(* Two parts of a stack. *)
Join(u, v) == u \o v

(* The left part of a stack is where it was. *)
LEMMA Joined ==
  ASSUME NEW S, NEW u \in Seq(S), NEW v \in Seq(S)
  PROVE  /\ Join(u, v) \in Seq(S) /\ Len(Join(u, v)) = Len(u) + Len(v)
         /\ \A i \in 1 .. Len(u) : Join(u, v)[i] = u[i]
<1>1. Len(u) \in Nat /\ Len(v) \in Nat
  OBVIOUS
<1>2. u \o v \in Seq(S) /\ Len(u \o v) = Len(u) + Len(v)
  BY ConcatProperties, Zenon
<1>3. ASSUME NEW i \in 1 .. Len(u)
      PROVE  (u \o v)[i] = u[i]
  BY ConcatProperties, SMTT(60)
<1> QED BY <1>2, <1>3, Zenon DEF Join

(* The right part comes behind the left one. *)
LEMMA JoinedRight ==
  ASSUME NEW S, NEW u \in Seq(S), NEW v \in Seq(S), NEW i \in 1 .. Len(v)
  PROVE  Join(u, v)[Len(u) + i] = v[i]
BY ConcatProperties, SMTT(60) DEF Join

(* Part u of a stack s starts behind its first k words. *)
At(s, k, u) == k + Len(u) <= Len(s) /\ \A i \in 1 .. Len(u) : s[k + i] = u[i]

(* Two parts that are in a stack one after the other are each in it. *)
LEMMA Peel ==
  ASSUME NEW S, NEW u \in Seq(S), NEW v \in Seq(S), NEW s, NEW k \in Nat, Len(s) \in Nat, At(s, k, Join(u, v))
  PROVE  At(s, k, u) /\ At(s, k + Len(u), v)
<1>0. /\ Len(Join(u, v)) = Len(u) + Len(v)
      /\ \A i \in 1 .. Len(u) : Join(u, v)[i] = u[i]
      /\ \A i \in 1 .. Len(v) : Join(u, v)[Len(u) + i] = v[i]
  <2>1. u \in Seq(S) /\ v \in Seq(S)
    BY Zenon
  <2>2. Len(Join(u, v)) = Len(u) + Len(v)
    BY <2>1, Joined, Zenon
  <2>3. \A i \in 1 .. Len(u) : Join(u, v)[i] = u[i]
    BY <2>1, Joined, Zenon
  <2>4. ASSUME NEW i \in 1 .. Len(v)
        PROVE  Join(u, v)[Len(u) + i] = v[i]
    BY <2>1, JoinedRight, Zenon
  <2> QED BY <2>2, <2>3, <2>4, Zenon
<1>1. Len(u) \in Nat /\ Len(v) \in Nat /\ Len(Join(u, v)) = Len(u) + Len(v)
  BY <1>0
<1>2. ASSUME NEW i \in 1 .. Len(u)
      PROVE  s[k + i] = u[i]
  <2>1. Join(u, v)[i] = u[i] /\ i \in 1 .. Len(Join(u, v))
    BY <1>0, <1>1
  <2> QED BY <2>1, Zenon DEF At
<1>3. ASSUME NEW i \in 1 .. Len(v)
      PROVE  s[(k + Len(u)) + i] = v[i]
  <2>1. Join(u, v)[Len(u) + i] = v[i] /\ Len(u) + i \in 1 .. Len(Join(u, v))
    BY <1>0, <1>1
  <2>2. s[k + (Len(u) + i)] = v[i]
    BY <2>1, Zenon DEF At
  <2>3. k + (Len(u) + i) = (k + Len(u)) + i
    BY <1>1
  <2> QED BY <2>2, <2>3, Zenon
<1>4. k + Len(u) <= Len(s) /\ (k + Len(u)) + Len(v) <= Len(s)
  BY <1>1 DEF At
<1> QED BY <1>2, <1>3, <1>4, Zenon DEF At

(* Where each part of a stack is, from argc up. *)
Layout(s, c, z, A, e, W) ==
  /\ At(s, 0, <<c>>) /\ At(s, 1, A) /\ At(s, Len(A) + 1, <<z>>) /\ At(s, Len(A) + 2, e)
  /\ At(s, Len(A) + Len(e) + 2, <<z>>) /\ At(s, Len(A) + Len(e) + 3, W)
  /\ At(s, Len(A) + Len(e) + Len(W) + 3, <<z>>)

(* The stack that main lays out. *)
LEMMA LaidOut ==
  ASSUME NEW S, NEW c \in S, NEW z \in S, NEW A \in Seq(S), NEW e \in Seq(S), NEW W \in Seq(S),
         NEW P \in Seq(S), NEW s,
         s = Join(Join(Join(Join(Join(Join(Join(<<c>>, A), <<z>>), e), <<z>>), W), <<z>>), P)
  PROVE  /\ s \in Seq(S) /\ Len(s) = Len(A) + Len(e) + Len(W) + Len(P) + 4
         /\ Layout(s, c, z, A, e, W)
<1> DEFINE s1 == Join(<<c>>, A)
           s2 == Join(s1, <<z>>)
           s3 == Join(s2, e)
           s4 == Join(s3, <<z>>)
           s5 == Join(s4, W)
           s6 == Join(s5, <<z>>)
<1>0. /\ Len(A) \in Nat /\ Len(e) \in Nat /\ Len(W) \in Nat /\ Len(P) \in Nat
      /\ <<c>> \in Seq(S) /\ <<z>> \in Seq(S) /\ Len(<<c>>) = 1 /\ Len(<<z>>) = 1
  OBVIOUS
<1>1. s1 \in Seq(S) /\ Len(s1) = Len(A) + 1
  <2>1. s1 \in Seq(S) /\ Len(s1) = Len(<<c>>) + Len(A)
    BY <1>0, Joined, Zenon
  <2> HIDE DEF s1
  <2> QED BY <1>0, <2>1
<1>2. s2 \in Seq(S) /\ Len(s2) = Len(A) + 2
  <2> HIDE DEF s1
  <2>1. s2 \in Seq(S) /\ Len(s2) = Len(s1) + Len(<<z>>)
    BY <1>0, <1>1, Joined, Zenon
  <2> HIDE DEF s2
  <2> QED BY <1>0, <1>1, <2>1
<1>3. s3 \in Seq(S) /\ Len(s3) = Len(A) + Len(e) + 2
  <2> HIDE DEF s2
  <2>1. s3 \in Seq(S) /\ Len(s3) = Len(s2) + Len(e)
    BY <1>0, <1>2, Joined, Zenon
  <2> HIDE DEF s3
  <2> QED BY <1>0, <1>2, <2>1
<1>4. s4 \in Seq(S) /\ Len(s4) = Len(A) + Len(e) + 3
  <2> HIDE DEF s3
  <2>1. s4 \in Seq(S) /\ Len(s4) = Len(s3) + Len(<<z>>)
    BY <1>0, <1>3, Joined, Zenon
  <2> HIDE DEF s4
  <2> QED BY <1>0, <1>3, <2>1
<1>5. s5 \in Seq(S) /\ Len(s5) = Len(A) + Len(e) + Len(W) + 3
  <2> HIDE DEF s4
  <2>1. s5 \in Seq(S) /\ Len(s5) = Len(s4) + Len(W)
    BY <1>0, <1>4, Joined, Zenon
  <2> HIDE DEF s5
  <2> QED BY <1>0, <1>4, <2>1
<1>6. s6 \in Seq(S) /\ Len(s6) = Len(A) + Len(e) + Len(W) + 4
  <2> HIDE DEF s5
  <2>1. s6 \in Seq(S) /\ Len(s6) = Len(s5) + Len(<<z>>)
    BY <1>0, <1>5, Joined, Zenon
  <2> HIDE DEF s6
  <2> QED BY <1>0, <1>5, <2>1
<1>7. s = Join(s6, P) /\ s \in Seq(S) /\ Len(s) \in Nat
  <2>1. s = Join(s6, P)
    BY Zenon
  <2> HIDE DEF s6
  <2>2. Join(s6, P) \in Seq(S)
    BY <1>6, Joined, Zenon
  <2>3. s \in Seq(S)
    BY <2>1, <2>2, Zenon
  <2>4. Len(s) \in Nat
    BY <2>3
  <2> QED BY <2>1, <2>3, <2>4, Zenon
<1>8. Len(Join(s6, P)) = Len(A) + Len(e) + Len(W) + Len(P) + 4
  <2> HIDE DEF s6
  <2>1. Len(Join(s6, P)) = Len(s6) + Len(P)
    BY <1>6, Joined, Zenon
  <2> QED BY <1>0, <1>6, <2>1
<1>9. At(s, 0, Join(s6, P))
  <2> HIDE DEF s6
  <2>1. At(s, 0, s)
    BY DEF At
  <2> QED BY <1>7, <2>1, Zenon
<1>10. At(s, 0, s6)
  <2> HIDE DEF s6
  <2> QED BY <1>6, <1>7, <1>9, Peel, Zenon
<1>11. At(s, 0, s5) /\ At(s, 0 + Len(s5), <<z>>)
  <2> HIDE DEF s5
  <2> QED BY <1>0, <1>5, <1>7, <1>10, Peel, Zenon
<1>12. At(s, 0, s4) /\ At(s, 0 + Len(s4), W)
  <2> HIDE DEF s4
  <2> QED BY <1>4, <1>7, <1>11, Peel, Zenon
<1>13. At(s, 0, s3) /\ At(s, 0 + Len(s3), <<z>>)
  <2> HIDE DEF s3
  <2> QED BY <1>0, <1>3, <1>7, <1>12, Peel, Zenon
<1>14. At(s, 0, s2) /\ At(s, 0 + Len(s2), e)
  <2> HIDE DEF s2
  <2> QED BY <1>2, <1>7, <1>13, Peel, Zenon
<1>15. At(s, 0, s1) /\ At(s, 0 + Len(s1), <<z>>)
  <2> HIDE DEF s1
  <2> QED BY <1>0, <1>1, <1>7, <1>14, Peel, Zenon
<1>16. At(s, 0, <<c>>) /\ At(s, 0 + Len(<<c>>), A)
  BY <1>0, <1>7, <1>15, Peel, Zenon
<1> HIDE DEF s1, s2, s3, s4, s5, s6
<1>17. /\ 0 + Len(s5) = Len(A) + Len(e) + Len(W) + 3 /\ 0 + Len(s4) = Len(A) + Len(e) + 3
       /\ 0 + Len(s3) = Len(A) + Len(e) + 2 /\ 0 + Len(s2) = Len(A) + 2 /\ 0 + Len(s1) = Len(A) + 1
       /\ 0 + Len(<<c>>) = 1
  BY <1>0, <1>1, <1>2, <1>3, <1>4, <1>5
<1>18. Layout(s, c, z, A, e, W)
  BY <1>11, <1>12, <1>13, <1>14, <1>15, <1>16, <1>17, Zenon DEF Layout
<1> QED BY <1>7, <1>8, <1>18, Zenon

(* What the guest cuts out of its stack. *)
LEMMA Cut ==
  ASSUME NEW S, NEW s \in Seq(S), NEW u \in Seq(S), NEW k \in Nat, At(s, k, u)
  PROVE  SubSeq(s, k + 1, k + Len(u)) = u
<1>1. Len(u) \in Nat /\ Len(s) \in Nat /\ k + Len(u) <= Len(s)
      /\ \A i \in 1 .. Len(u) : s[k + i] = u[i]
  BY DEF At
<1>2. /\ SubSeq(s, k + 1, k + Len(u)) \in Seq(S) /\ Len(SubSeq(s, k + 1, k + Len(u))) = Len(u)
      /\ \A i \in 1 .. Len(u) : SubSeq(s, k + 1, k + Len(u))[i] = u[i]
  BY <1>1
<1> QED BY <1>2, SeqEqual, Zenon

(* The null word that a reader stops at is the first one. *)
LEMMA FirstNull ==
  ASSUME Len(stack) \in Nat, NEW from \in Nat, NEW x \in from .. Len(stack), stack[x] = Null,
         \A j \in from .. x - 1 : stack[j] # Null
  PROVE  NullAfter(from) = x
<1>1. x \in Nulls(from)
  BY Zenon DEF Nulls
<1>2. \A j \in Nulls(from) : j \in Nat /\ x <= j
  BY DEF Nulls
<1>3. \A y \in Nulls(from) : (\A j \in Nulls(from) : y <= j) => y = x
  BY <1>1, <1>2
<1> QED BY <1>1, <1>2, <1>3, Zenon DEF NullAfter

(* The two ends that a reader looks for lie in the stack. *)
LEMMA InStack ==
  ASSUME NEW a \in Nat, NEW n \in Nat, NEW w \in Nat, NEW l \in Nat, a + n + w + 4 <= l
  PROVE  /\ a + n + 3 \in a + 3 .. l /\ a + 3 \in Nat
         /\ a + n + w + 4 \in a + n + 4 .. l /\ a + n + 4 \in Nat
OBVIOUS

(* How the guest reads its stack. *)
ReadsAs(argc, A, e, W) ==
  /\ ReadArgc = argc /\ ReadArgv = A /\ stack[ReadArgc + 2] = Null /\ ReadEnv = e
  /\ AuxStart = argc + Len(e) + 4 /\ NullAfter(AuxStart) = argc + Len(e) + Len(W) + 4

(* The stack is read as it was laid out, if no variable and no entry of    *)
(* the auxiliary vector looks like its end.                                *)
LEMMA ReadBack ==
  ASSUME NEW S, stack \in Seq(S), NEW argc \in Nat, NEW A \in Seq(S), NEW e \in Seq(S), NEW W \in Seq(S),
         Len(A) = argc,
         Layout(stack, <<"argc", argc>>, Null, A, e, W),
         \A i \in 1 .. Len(e) : e[i] # Null, \A i \in 1 .. Len(W) : W[i] # Null
  PROVE  ReadsAs(argc, A, e, W)
<1> DEFINE n == Len(e)
           w == Len(W)
<1> USE DEF Layout
<1>0. n \in Nat /\ w \in Nat /\ Len(stack) \in Nat
  BY SMTT(60)
<1>1. stack[1] = <<"argc", argc>>
  BY DEF At
<1>2. stack[argc + 2] = Null /\ stack[argc + n + 3] = Null /\ stack[argc + n + w + 4] = Null
      /\ argc + n + w + 4 <= Len(stack)
  <2>1. ASSUME NEW k \in Nat, At(stack, k, <<Null>>)
        PROVE  stack[k + 1] = Null /\ k + 1 <= Len(stack)
    BY <2>1 DEF At
  <2>2. At(stack, argc + 1, <<Null>>) /\ At(stack, argc + n + 2, <<Null>>) /\ At(stack, argc + n + w + 3, <<Null>>)
    BY Zenon
  <2> HIDE DEF n, w
  <2>3. argc + 1 \in Nat /\ argc + n + 2 \in Nat /\ argc + n + w + 3 \in Nat
    BY <1>0
  <2>4. /\ stack[(argc + 1) + 1] = Null /\ stack[(argc + n + 2) + 1] = Null
        /\ stack[(argc + n + w + 3) + 1] = Null /\ (argc + n + w + 3) + 1 <= Len(stack)
    BY <2>1, <2>2, <2>3, Zenon
  <2>5. /\ (argc + 1) + 1 = argc + 2 /\ (argc + n + 2) + 1 = argc + n + 3
        /\ (argc + n + w + 3) + 1 = argc + n + w + 4
    BY <1>0
  <2> QED BY <2>4, <2>5, Zenon
<1>3. \A i \in 1 .. n : stack[argc + 2 + i] = e[i]
  BY Zenon DEF At
<1>4. \A i \in 1 .. w : stack[argc + n + 3 + i] = W[i]
  BY Zenon DEF At
<1>5. SubSeq(stack, 1 + 1, 1 + Len(A)) = A
  BY Cut, Zenon
<1>6. SubSeq(stack, argc + 2 + 1, argc + 2 + Len(e)) = e
  BY Cut
<1>7. ReadArgc = argc
  BY <1>1 DEF ReadArgc
<1> HIDE DEF n, w
<1>8. NullAfter(argc + 3) = argc + n + 3
  <2>1. ASSUME NEW j \in argc + 3 .. (argc + n + 3) - 1
        PROVE  stack[j] # Null
    <3>1. j - argc - 2 \in 1 .. n /\ argc + 2 + (j - argc - 2) = j
      BY <1>0
    <3>2. stack[j] = e[j - argc - 2] /\ e[j - argc - 2] # Null
      BY <1>3, <3>1, Zenon DEF n
    <3> QED BY <3>2, Zenon
  <2>2. argc + n + 3 \in argc + 3 .. Len(stack) /\ argc + 3 \in Nat
    BY <1>0, <1>2, InStack, Zenon
  <2> QED BY <1>0, <1>2, <2>1, <2>2, FirstNull, Zenon
<1>9. NullAfter(argc + n + 4) = argc + n + w + 4
  <2>1. ASSUME NEW j \in argc + n + 4 .. (argc + n + w + 4) - 1
        PROVE  stack[j] # Null
    <3>1. j - argc - n - 3 \in 1 .. w /\ argc + n + 3 + (j - argc - n - 3) = j
      BY <1>0, SMTT(60)
    <3>2. stack[j] = W[j - argc - n - 3] /\ W[j - argc - n - 3] # Null
      BY <1>4, <3>1, Zenon DEF w
    <3> QED BY <3>2, Zenon
  <2>2. argc + n + w + 4 \in argc + n + 4 .. Len(stack) /\ argc + n + 4 \in Nat
    BY <1>0, <1>2, InStack, Zenon
  <2> QED BY <1>0, <1>2, <2>1, <2>2, FirstNull, Zenon
<1>10. EnvStart = argc + 3
  BY <1>7, Zenon DEF EnvStart
<1>11. AuxStart = argc + n + 4 /\ NullAfter(AuxStart) = argc + n + w + 4
  <2>1. AuxStart = (argc + n + 3) + 1
    BY <1>8, <1>10, Zenon DEF AuxStart
  <2>2. AuxStart = argc + n + 4
    BY <1>0, <2>1
  <2> QED BY <1>9, <2>2, Zenon
<1>12. ReadEnv = e
  <2>1. ReadEnv = SubSeq(stack, argc + 3, (argc + n + 3) - 1)
    BY <1>8, <1>10, ZenonT(30) DEF ReadEnv
  <2>2. argc + 3 = argc + 2 + 1 /\ (argc + n + 3) - 1 = argc + 2 + n
    BY <1>0
  <2> QED BY <1>6, <2>1, <2>2, Zenon DEF n
<1>13. ReadArgv = A
  <2>1. ReadArgv = SubSeq(stack, 2, argc + 1)
    BY <1>7, Zenon DEF ReadArgv
  <2>2. 1 + 1 = 2 /\ 1 + Len(A) = argc + 1
    OBVIOUS
  <2> QED BY <1>5, <2>1, <2>2, Zenon
<1> QED BY <1>2, <1>7, <1>11, <1>12, <1>13, Zenon DEF ReadsAs, n, w

(* Variable k is the first one with the name. *)
FirstAt(env, name, k) ==
  k \in 1 .. Len(env) /\ env[k][1] = name /\ \A j \in 1 .. k - 1 : env[j][1] # name

(* getenv finds the first variable with the name. *)
LEMMA FirstNamed ==
  ASSUME NEW S, NEW env \in Seq(S), NEW name, NEW k, FirstAt(env, name, k)
  PROVE  GetEnv(env, name) = env[k]
<1> DEFINE is == {i \in DOMAIN env : env[i][1] = name}
           f == CHOOSE i \in is : \A j \in is : i <= j
<1>1. DOMAIN env = 1 .. Len(env) /\ Len(env) \in Nat
  OBVIOUS
<1>2. k \in is /\ \A j \in is : j \in Nat /\ k <= j
  BY <1>1 DEF FirstAt
<1>3. GetEnv(env, name) = env[f]
  BY <1>2, Zenon DEF GetEnv
<1> HIDE DEF is
<1>4. f \in is /\ \A j \in is : f <= j
  BY <1>2, Zenon
<1> HIDE DEF f
<1>5. f = k
  <2>1. f \in Nat /\ k \in Nat /\ k <= f /\ f <= k
    BY <1>2, <1>4, Zenon
  <2> QED BY <2>1
<1> QED BY <1>3, <1>5, Zenon

(* getenv finds nothing if no variable has the name. *)
LEMMA NotNamed ==
  ASSUME NEW S, NEW env \in Seq(S), NEW name, \A j \in 1 .. Len(env) : env[j][1] # name
  PROVE  GetEnv(env, name) = <<>>
<1>1. DOMAIN env = 1 .. Len(env)
  OBVIOUS
<1>2. {i \in DOMAIN env : env[i][1] = name} = {}
  BY <1>1, Zenon
<1> QED BY <1>2, Zenon DEF GetEnv

(* A variable that exists has a first occurrence. *)
LEMMA NamedOrNot ==
  ASSUME NEW S, NEW env \in Seq(S), NEW name
  PROVE  \/ \A j \in 1 .. Len(env) : env[j][1] # name
         \/ \E k \in 1 .. Len(env) : env[k][1] = name /\ \A j \in 1 .. k - 1 : env[j][1] # name
<1> DEFINE T == {i \in 1 .. Len(env) : env[i][1] = name}
<1>1. Len(env) \in Nat /\ T \in SUBSET Nat
  OBVIOUS
<1>2. CASE T = {}
  BY <1>2, Zenon
<1>3. CASE T # {}
  <2>1. PICK k \in T : \A y \in T : k <= y
    <3> HIDE DEF T
    <3> QED BY <1>1, <1>3, Least, Zenon
  <2>2. ASSUME NEW j \in 1 .. k - 1
        PROVE  env[j][1] # name
    <3>1. j \in 1 .. Len(env) /\ ~(k <= j)
      BY <1>1, <2>1
    <3> QED BY <2>1, <3>1, Zenon
  <2> QED BY <2>1, <2>2, Zenon
<1> QED BY <1>2, <1>3, Zenon

Variables == STRING \X STRING
GuestVariables ==
  Variables \union {<<"L", "sysroot">>} \union {<<"L", "sysroot", x>> : x \in STRING}

(* The environment that is copied to the stack. *)
LEMMA GuestEnvPlain ==
  ASSUME NEW env \in Seq(Variables), NEW sysroot, LdPathIndex(env, sysroot) = 0
  PROVE  GuestEnv(env, sysroot) = Join(env, IF sysroot THEN <<<<"L", "sysroot">>>> ELSE <<>>)
<1>1. GuestEnv(env, sysroot) = env \o (IF sysroot THEN <<<<"L", "sysroot">>>> ELSE <<>>)
  BY Zenon DEF GuestEnv, Injected
<1> QED BY <1>1, Zenon DEF Join

(* Variable i of env is taken out, and put last with the sysroot's path. *)
Replaces(e, env, i) ==
  /\ <<"L", "sysroot", env[i][2]>> \in GuestVariables
  /\ e \in Seq(GuestVariables) /\ Len(e) = Len(env)
  /\ \A j \in 1 .. i - 1 : e[j] = env[j]
  /\ \A j \in i .. Len(env) - 1 : e[j] = env[j + 1]
  /\ e[Len(env)] = <<"L", "sysroot", env[i][2]>>

(* main replaces LD_LIBRARY_PATH when there is a sysroot. *)
LEMMA GuestEnvReplaced ==
  ASSUME NEW env \in Seq(Variables), NEW sysroot, NEW i \in 1 .. Len(env), sysroot = TRUE,
         LdPathIndex(env, sysroot) = i
  PROVE  Replaces(GuestEnv(env, sysroot), env, i)
<1> DEFINE x == <<"L", "sysroot", env[i][2]>>
           u == SubSeq(env, 1, i - 1)
           v == SubSeq(env, i + 1, Len(env))
           G == GuestVariables
<1>1. x \in G
  <2>1. env[i] \in STRING \X STRING
    BY DEF Variables
  <2>2. env[i][2] \in STRING
    BY <2>1, Zenon
  <2> QED BY <2>2, Zenon DEF GuestVariables
<1>2. GuestEnv(env, sysroot) = Join(Join(u, v), <<x>>)
  <2>0. i # 0
    BY SMT
  <2>1. LdPathIndex(env, sysroot) = i /\ LdPathIndex(env, sysroot) # 0
    BY <2>0, Zenon
  <2>2. Injected(env, sysroot) = <<x>>
    BY <2>1, Zenon DEF Injected
  <2>3. GuestEnv(env, sysroot) = (u \o v) \o Injected(env, sysroot)
    BY <2>1, Zenon DEF GuestEnv
  <2> QED BY <2>2, <2>3, Zenon DEF Join
<1>3. Len(env) \in Nat /\ i \in Nat /\ i >= 1 /\ i <= Len(env)
  OBVIOUS
<1>4. /\ u \in Seq(G) /\ Len(u) = i - 1 /\ \A j \in 1 .. i - 1 : u[j] = env[j]
  <2>1. u \in Seq(Variables) /\ Len(u) = i - 1 /\ \A j \in 1 .. i - 1 : u[j] = env[j]
    BY <1>3
  <2> HIDE DEF u
  <2> QED BY <2>1 DEF GuestVariables
<1>5. /\ v \in Seq(G) /\ Len(v) = Len(env) - i /\ \A j \in 1 .. Len(env) - i : v[j] = env[i + j]
  <2>1. v \in Seq(Variables) /\ Len(v) = Len(env) - i /\ \A j \in 1 .. Len(env) - i : v[j] = env[i + j]
    BY <1>3
  <2> HIDE DEF v
  <2> QED BY <2>1 DEF GuestVariables
<1> HIDE DEF u, v, x, G
<1>6. /\ Join(u, v) \in Seq(G) /\ Len(Join(u, v)) = Len(u) + Len(v)
      /\ \A j \in 1 .. Len(u) : Join(u, v)[j] = u[j]
  <2>1. u \in Seq(G) /\ v \in Seq(G)
    BY <1>4, <1>5, Zenon
  <2> QED BY <2>1, Joined, Zenon
<1>7. ASSUME NEW j \in 1 .. Len(v)
      PROVE  Join(u, v)[Len(u) + j] = v[j]
  <2>1. u \in Seq(G) /\ v \in Seq(G)
    BY <1>4, <1>5, Zenon
  <2> QED BY <2>1, JoinedRight, Zenon
<1>8. <<x>> \in Seq(G) /\ Len(<<x>>) = 1 /\ <<x>>[1] = x /\ 1 \in 1 .. Len(<<x>>)
  BY <1>1
<1> DEFINE m == Join(u, v)
           e == Join(m, <<x>>)
<1>9. m \in Seq(G)
  BY <1>6, Zenon
<1>10. /\ e \in Seq(G) /\ Len(e) = Len(m) + Len(<<x>>)
       /\ \A j \in 1 .. Len(m) : e[j] = m[j]
  <2> HIDE DEF m
  <2> QED BY <1>8, <1>9, Joined, Zenon
<1>11. e[Len(m) + 1] = <<x>>[1]
  <2> HIDE DEF m
  <2> DEFINE w == <<x>>
  <2>1. w \in Seq(G) /\ 1 \in 1 .. Len(w)
    BY <1>8, Zenon
  <2> HIDE DEF w
  <2>2. Join(m, w)[Len(m) + 1] = w[1]
    <3>1. m \in Seq(G) /\ w \in Seq(G) /\ 1 \in 1 .. Len(w)
      BY <1>9, <2>1, Zenon
    <3> QED BY <3>1, JoinedRight
  <2> QED BY <2>2, Zenon DEF w
<1>12. /\ Len(m) = Len(env) - 1
       /\ \A j \in 1 .. i - 1 : m[j] = env[j]
       /\ \A j \in i .. Len(env) - 1 : m[j] = env[j + 1]
  <2>1. Len(m) = Len(env) - 1
    BY <1>3, <1>4, <1>5, <1>6
  <2>2. ASSUME NEW j \in 1 .. i - 1
        PROVE  m[j] = env[j]
    BY <1>4, <1>6, Zenon
  <2>3. ASSUME NEW j \in i .. Len(env) - 1
        PROVE  m[j] = env[j + 1]
    <3>1. j - i + 1 \in 1 .. Len(env) - i /\ (i - 1) + (j - i + 1) = j /\ i + (j - i + 1) = j + 1
      BY <1>3, SMTT(60)
    <3>2. m[(i - 1) + (j - i + 1)] = v[j - i + 1] /\ v[j - i + 1] = env[i + (j - i + 1)]
      BY <1>4, <1>5, <1>7, <3>1, Zenon
    <3> QED BY <3>1, <3>2, Zenon
  <2> QED BY <2>1, <2>2, <2>3, Zenon
<1> HIDE DEF m, e
<1>13. Len(e) = Len(env) /\ e[Len(env)] = x
  BY <1>3, <1>8, <1>10, <1>11, <1>12
<1>14. ASSUME NEW j \in 1 .. i - 1
       PROVE  e[j] = env[j]
  BY <1>3, <1>10, <1>12
<1>15. ASSUME NEW j \in i .. Len(env) - 1
       PROVE  e[j] = env[j + 1]
  BY <1>3, <1>10, <1>12
<1>16. GuestEnv(env, sysroot) = e
  BY <1>2, Zenon DEF e, m
<1>17. Replaces(e, env, i)
  BY <1>1, <1>10, <1>13, <1>14, <1>15, Zenon DEF Replaces, x, G
<1> QED BY <1>16, <1>17, Zenon

(* Variables of other names behind an environment are not found. *)
LEMMA GetBefore ==
  ASSUME NEW S, NEW env \in Seq(S), NEW e \in Seq(S), NEW name, Len(env) <= Len(e),
         \A j \in 1 .. Len(env) : e[j] = env[j],
         \A j \in 1 .. Len(e) : j > Len(env) => e[j][1] # name
  PROVE  GetEnv(e, name) = GetEnv(env, name)
<1>0. Len(env) \in Nat /\ Len(e) \in Nat
  OBVIOUS
<1>1. CASE \A j \in 1 .. Len(env) : env[j][1] # name
  <2>1. ASSUME NEW j \in 1 .. Len(e)
        PROVE  e[j][1] # name
    <3>1. j \in 1 .. Len(env) \/ j > Len(env)
      BY <1>0
    <3> QED BY <1>1, <3>1, Zenon
  <2>2. GetEnv(e, name) = <<>>
    BY <2>1, NotNamed, Zenon
  <2>3. GetEnv(env, name) = <<>>
    BY <1>1, NotNamed, Zenon
  <2> QED BY <2>2, <2>3, Zenon
<1>2. ASSUME NEW k \in 1 .. Len(env), env[k][1] = name, \A j \in 1 .. k - 1 : env[j][1] # name
      PROVE  GetEnv(e, name) = GetEnv(env, name)
  <2>1. k \in 1 .. Len(e) /\ e[k] = env[k] /\ \A j \in 1 .. k - 1 : e[j][1] # name
    BY <1>0, <1>2
  <2>2. GetEnv(e, name) = e[k]
    <3>1. FirstAt(e, name, k)
      BY <1>2, <2>1, Zenon DEF FirstAt
    <3> QED BY <3>1, FirstNamed, ZenonT(30)
  <2>3. GetEnv(env, name) = env[k]
    <3>1. FirstAt(env, name, k)
      BY <1>2, Zenon DEF FirstAt
    <3> QED BY <3>1, FirstNamed, ZenonT(30)
  <2> QED BY <2>1, <2>2, <2>3, Zenon
<1> QED BY <1>1, <1>2, NamedOrNot, Zenon

(* Variable i is taken out and another one put last. *)
Moved(env, e, i) ==
  /\ i \in 1 .. Len(env) /\ Len(e) = Len(env)
  /\ \A j \in 1 .. i - 1 : e[j] = env[j]
  /\ \A j \in i .. Len(env) - 1 : e[j] = env[j + 1]

(* getenv still finds the variables of other names. *)
LEMMA GetOther ==
  ASSUME NEW S, NEW env \in Seq(S), NEW e \in Seq(S), NEW name, NEW i, Moved(env, e, i),
         env[i][1] # name, e[Len(env)][1] # name
  PROVE  GetEnv(e, name) = GetEnv(env, name)
<1>m. /\ i \in 1 .. Len(env) /\ Len(e) = Len(env)
      /\ \A j \in 1 .. i - 1 : e[j] = env[j]
      /\ \A j \in i .. Len(env) - 1 : e[j] = env[j + 1]
  BY Zenon DEF Moved
<1>0. Len(env) \in Nat /\ i \in Nat /\ 1 <= i /\ i <= Len(env)
  BY <1>m
<1>1. CASE \A j \in 1 .. Len(env) : env[j][1] # name
  <2>1. ASSUME NEW j \in 1 .. Len(e)
        PROVE  e[j][1] # name
    <3>1. CASE j \in 1 .. i - 1
      BY <1>m, <1>0, <1>1, <3>1, Zenon
    <3>2. CASE j \in i .. Len(env) - 1
      <4>1. j + 1 \in 1 .. Len(env)
        BY <1>0, <3>2
      <4> QED BY <1>m, <1>1, <3>2, <4>1, Zenon
    <3>3. CASE j = Len(env)
      BY <1>m, <3>3, Zenon
    <3> QED BY <1>m, <1>0, <3>1, <3>2, <3>3
  <2>2. GetEnv(e, name) = <<>>
    BY <2>1, NotNamed, Zenon
  <2>3. GetEnv(env, name) = <<>>
    BY <1>1, NotNamed, Zenon
  <2> QED BY <2>2, <2>3, Zenon
<1>2. ASSUME NEW k \in 1 .. Len(env), env[k][1] = name, \A j \in 1 .. k - 1 : env[j][1] # name
      PROVE  GetEnv(e, name) = GetEnv(env, name)
  <2>0. GetEnv(env, name) = env[k] /\ k # i
    <3>1. GetEnv(env, name) = env[k]
      <4>1. FirstAt(env, name, k)
        BY <1>2, Zenon DEF FirstAt
      <4> QED BY <4>1, FirstNamed, ZenonT(30)
    <3> QED BY <1>2, <3>1, Zenon
  <2>1. CASE k < i
    <3>1. k \in 1 .. Len(e) /\ e[k] = env[k] /\ \A j \in 1 .. k - 1 : e[j][1] # name
      BY <1>m, <1>0, <1>2, <2>1, SMTT(60)
    <3>2. GetEnv(e, name) = e[k]
      <4>1. FirstAt(e, name, k)
        BY <1>2, <3>1, Zenon DEF FirstAt
      <4> QED BY <4>1, FirstNamed, ZenonT(30)
    <3> QED BY <2>0, <3>1, <3>2, Zenon
  <2>2. CASE k > i
    <3>1. k - 1 \in 1 .. Len(e) /\ e[k - 1] = env[k]
      <4>1. k - 1 \in i .. Len(env) - 1 /\ (k - 1) + 1 = k /\ k - 1 \in 1 .. Len(e)
        BY <1>m, <1>0, <2>2
      <4>2. e[k - 1] = env[(k - 1) + 1]
        BY <1>m, <4>1, Zenon
      <4> QED BY <4>1, <4>2, Zenon
    <3>2. ASSUME NEW j \in 1 .. (k - 1) - 1
          PROVE  e[j][1] # name
      <4>1. CASE j < i
        BY <1>m, <1>0, <1>2, <2>2, <4>1
      <4>2. CASE j >= i
        <5>1. j \in i .. Len(env) - 1 /\ j + 1 \in 1 .. k - 1
          BY <1>0, <2>2, <4>2
        <5> QED BY <1>m, <1>2, <5>1, Zenon
      <4> QED BY <1>0, <4>1, <4>2
    <3>3. GetEnv(e, name) = e[k - 1]
      <4>1. FirstAt(e, name, k - 1)
        BY <1>2, <3>1, <3>2, Zenon DEF FirstAt
      <4> QED BY <4>1, FirstNamed, ZenonT(30)
    <3> QED BY <2>0, <3>1, <3>3, Zenon
  <2>3. k < i \/ k > i
    <3>1. k \in Nat /\ k # i
      BY <2>0
    <3> QED BY <1>0, <3>1
  <2> QED BY <2>1, <2>2, <2>3, Zenon
<1> QED BY <1>1, <1>2, NamedOrNot, Zenon

(* No variable is taken for the end of the environment. *)
LEMMA NotNull ==
  ASSUME NEW x \in GuestVariables
  PROVE  x # Null
<1>1. CASE x \in Variables
  BY <1>1 DEF Variables, Null
<1>2. CASE x = <<"L", "sysroot">>
  BY <1>2, Zenon DEF Null
<1>3. CASE x \in {<<"L", "sysroot", y>> : y \in STRING}
  BY <1>3 DEF Null
<1> QED BY <1>1, <1>2, <1>3, Zenon DEF GuestVariables

(* The path of the host comes behind the one of the sysroot. *)
LEMMA Appended ==
  ASSUME NEW a, NEW b, NEW c
  PROVE  /\ Tail(<<a, b>>) = <<b>> /\ <<a, b>> # <<>>
         /\ <<a, c>> \o <<b>> = <<a, c, b>>
<1>1. Tail(<<a, b>>) = <<b>> /\ <<a, b>> # <<>>
  OBVIOUS
<1>2. <<a, c>> \o <<b>> = <<a, c, b>>
  <2> DEFINE S == {a, b, c}
             s == <<a, c>> \o <<b>>
             t == <<a, c, b>>
  <2>1. <<a, c>> \in Seq(S) /\ <<b>> \in Seq(S) /\ Len(<<a, c>>) = 2 /\ Len(<<b>>) = 1
    OBVIOUS
  <2>2. t \in Seq(S) /\ Len(t) = 3 /\ t[1] = a /\ t[2] = c /\ t[3] = b
    OBVIOUS
  <2>3. s \in Seq(S) /\ Len(s) = 3 /\ s[1] = a /\ s[2] = c /\ s[3] = b
    BY <2>1, ConcatProperties
  <2> HIDE DEF s, t, S
  <2>4. \A k \in 1 .. Len(s) : s[k] = t[k]
    BY <2>2, <2>3
  <2>5. s = t
    BY <2>2, <2>3, <2>4, SeqEqual, Zenon
  <2> QED BY <2>5, Zenon DEF s, t
<1> QED BY <1>1, <1>2, Zenon

(* Where LD_LIBRARY_PATH is, set at most once. *)
LEMMA LdPathFound ==
  ASSUME NEW env \in Seq(Variables), NEW sysroot \in BOOLEAN, \A i, j \in LdPaths(env) : i = j
  PROVE  \/ LdPathIndex(env, sysroot) = 0 /\ (sysroot => LdPaths(env) = {})
         \/ /\ sysroot /\ LdPathIndex(env, sysroot) \in 1 .. Len(env)
            /\ env[LdPathIndex(env, sysroot)][1] = "L" /\ LdPaths(env) # {}
            /\ \A j \in 1 .. Len(env) : env[j][1] = "L" => j = LdPathIndex(env, sysroot)
<1>1. LdPaths(env) = {j \in 1 .. Len(env) : env[j][1] = "L"}
  BY DEF LdPaths
<1>2. CASE ~(sysroot /\ LdPaths(env) # {})
  BY <1>2, Zenon DEF LdPathIndex
<1>3. CASE sysroot /\ LdPaths(env) # {}
  <2>1. PICK k \in LdPaths(env) : TRUE
    BY <1>3, Zenon
  <2>2. k \in Nat
    BY <1>1
  <2>3. \A j \in LdPaths(env) : j <= k
    BY <2>2
  <2>4. LdPathIndex(env, sysroot) \in LdPaths(env)
    BY <1>3, <2>1, <2>3, Zenon DEF LdPathIndex
  <2> QED BY <1>1, <1>3, <2>4, Zenon
<1> QED BY <1>2, <1>3, Zenon

(* The environment on the stack gives the host's variables; LD_LIBRARY_PATH *)
(* is the sysroot's in front of the host's.                                 *)
LEMMA GuestEnvReads ==
  ASSUME NEW env \in Seq(Variables), NEW sysroot \in BOOLEAN, \A i, j \in LdPaths(env) : i = j
  PROVE  LET e == GuestEnv(env, sysroot)
             own == GetEnv(env, "L")
         IN  /\ e \in Seq(GuestVariables)
             /\ \A v \in {"A", "B"} : GetEnv(e, v) = GetEnv(env, v)
             /\ GetEnv(e, "L") = IF ~sysroot THEN own
                                 ELSE <<"L", "sysroot">> \o (IF own = <<>> THEN own ELSE Tail(own))
             /\ Len(e) = Len(env) + (IF sysroot /\ LdPathIndex(env, sysroot) = 0 THEN 1 ELSE 0)
<1> DEFINE e == GuestEnv(env, sysroot)
           own == GetEnv(env, "L")
           G == GuestVariables
           i == LdPathIndex(env, sysroot)
           path == IF ~sysroot THEN own
                   ELSE <<"L", "sysroot">> \o (IF own = <<>> THEN own ELSE Tail(own))
           more == IF sysroot /\ i = 0 THEN 1 ELSE 0
<1> SUFFICES /\ e \in Seq(G) /\ \A v \in {"A", "B"} : GetEnv(e, v) = GetEnv(env, v)
             /\ GetEnv(e, "L") = path /\ Len(e) = Len(env) + more
  BY Zenon
<1>0. env \in Seq(G) /\ Len(env) \in Nat
  BY DEF GuestVariables
<1> HIDE DEF e, own, G, i, path, more
<1>1. CASE i = 0 /\ (sysroot => LdPaths(env) = {})
  <2>1. CASE ~sysroot
    <3>1. e = env \o <<>>
      BY <1>1, <2>1, Zenon DEF e, i, GuestEnv, Injected
    <3>2. e = env /\ more = 0 /\ path = own
      BY <1>0, <2>1, <3>1 DEF more, path
    <3> QED BY <1>0, <3>2 DEF own
  <2>2. CASE sysroot
    <3> DEFINE x == <<"L", "sysroot">>
               w == <<x>>
    <3>1. e = Join(env, w)
      BY <1>1, <2>2, GuestEnvPlain, Zenon DEF e, i
    <3>2. w \in Seq(G) /\ Len(w) = 1 /\ w[1] = x
      BY DEF G, GuestVariables
    <3> HIDE DEF w
    <3>3. e \in Seq(G) /\ Len(e) = Len(env) + Len(w) /\ \A j \in 1 .. Len(env) : e[j] = env[j]
      <4>1. env \in Seq(G)
        BY <1>0, Zenon
      <4>2. w \in Seq(G)
        BY <3>2, Zenon
      <4>3. /\ Join(env, w) \in Seq(G) /\ Len(Join(env, w)) = Len(env) + Len(w)
            /\ \A j \in 1 .. Len(env) : Join(env, w)[j] = env[j]
        BY <4>1, <4>2, Joined, ZenonT(30)
      <4> QED BY <3>1, <4>3, ZenonT(30)
    <3>4. e[Len(env) + 1] = x
      <4>1. 1 \in 1 .. Len(w)
        BY <3>2
      <4>2. Join(env, w)[Len(env) + 1] = w[1]
        <5>1. env \in Seq(G) /\ w \in Seq(G) /\ 1 \in 1 .. Len(w)
          BY <1>0, <3>2, <4>1, Zenon
        <5> QED BY <5>1, JoinedRight
      <4> QED BY <3>1, <3>2, <4>2, Zenon
    <3>5. Len(e) = Len(env) + 1
      BY <3>2, <3>3, Zenon
    <3>6. ASSUME NEW v \in {"A", "B"}
          PROVE  GetEnv(e, v) = GetEnv(env, v)
      <4>1. ASSUME NEW j \in 1 .. Len(e), j > Len(env)
            PROVE  e[j][1] # v
        <5>1. j = Len(env) + 1
          BY <1>0, <3>5, <4>1
        <5> QED BY <3>4, <5>1
      <4>2. Len(env) <= Len(e)
        BY <1>0, <3>5
      <4> QED BY <1>0, <3>3, <4>1, <4>2, GetBefore
    <3>7. \A j \in 1 .. Len(env) : env[j][1] # "L"
      BY <1>1, <2>2 DEF LdPaths
    <3>8. own = <<>>
      BY <3>7, NotNamed, Zenon DEF own
    <3>9. GetEnv(e, "L") = x
      <4> DEFINE k == Len(env) + 1
      <4>1. k \in 1 .. Len(e) /\ e[k] = x /\ e[k][1] = "L"
        BY <1>0, <3>4, <3>5
      <4>2. \A j \in 1 .. k - 1 : e[j][1] # "L"
        BY <1>0, <3>3, <3>7
      <4> HIDE DEF k
      <4>3. GetEnv(e, "L") = e[k]
        <5>1. FirstAt(e, "L", k)
          BY <4>1, <4>2, Zenon DEF FirstAt
        <5> QED BY <3>3, <5>1, FirstNamed, ZenonT(30)
      <4> QED BY <4>1, <4>3, Zenon
    <3>10. x \o <<>> = x
      OBVIOUS
    <3>11. path = x /\ more = 1
      BY <1>1, <2>2, <3>8, <3>10, Zenon DEF path, more
    <3> QED BY <3>3, <3>5, <3>6, <3>9, <3>11, Zenon
  <2> QED BY <2>1, <2>2, Zenon
<1>2. CASE /\ sysroot /\ i \in 1 .. Len(env) /\ env[i][1] = "L" /\ LdPaths(env) # {}
           /\ \A j \in 1 .. Len(env) : env[j][1] = "L" => j = i
  <2> DEFINE x == <<"L", "sysroot", env[i][2]>>
  <2>1. /\ x \in G /\ e \in Seq(G) /\ Len(e) = Len(env)
        /\ \A j \in 1 .. i - 1 : e[j] = env[j]
        /\ \A j \in i .. Len(env) - 1 : e[j] = env[j + 1]
        /\ e[Len(env)] = x
    <3>1. sysroot = TRUE /\ i \in 1 .. Len(env) /\ LdPathIndex(env, sysroot) = i
      BY <1>2, Zenon DEF i
    <3>2. Replaces(GuestEnv(env, sysroot), env, i)
      BY <3>1, GuestEnvReplaced, Zenon
    <3> QED BY <3>2, Zenon DEF e, G, Replaces
  <2>2. ASSUME NEW v \in {"A", "B"}
        PROVE  GetEnv(e, v) = GetEnv(env, v)
    <3>1. e[Len(env)][1] # v /\ env[i][1] # v
      BY <1>2, <2>1, SMTT(60)
    <3>2. Moved(env, e, i)
      BY <1>2, <2>1, Zenon DEF Moved
    <3>3. env \in Seq(G) /\ e \in Seq(G)
      BY <1>0, <2>1, Zenon
    <3> QED BY <3>1, <3>2, <3>3, GetOther, Zenon
  <2>3. own = env[i]
    <3>1. \A j \in 1 .. i - 1 : env[j][1] # "L"
      BY <1>0, <1>2
    <3>2. FirstAt(env, "L", i)
      BY <1>2, <3>1, Zenon DEF FirstAt
    <3> QED BY <1>0, <3>2, FirstNamed, ZenonT(30) DEF own
  <2>4. GetEnv(e, "L") = x
    <3>1. Len(env) \in 1 .. Len(e) /\ e[Len(env)][1] = "L"
      BY <1>0, <1>2, <2>1
    <3>2. ASSUME NEW j \in 1 .. Len(env) - 1
          PROVE  e[j][1] # "L"
      <4>1. CASE j < i
        BY <1>0, <1>2, <2>1, <4>1, SMTT(60)
      <4>2. CASE j >= i
        <5>1. j \in i .. Len(env) - 1 /\ j + 1 \in 1 .. Len(env) /\ j + 1 # i
          BY <1>0, <1>2, <4>2, SMTT(60)
        <5> QED BY <1>2, <2>1, <5>1, Zenon
      <4> QED BY <1>2, <4>1, <4>2, SMTT(60)
    <3>3. FirstAt(e, "L", Len(env))
      BY <3>1, <3>2, Zenon DEF FirstAt
    <3>4. GetEnv(e, "L") = e[Len(env)]
      BY <2>1, <3>3, FirstNamed, ZenonT(30)
    <3> QED BY <2>1, <3>4, Zenon
  <2>5. env[i] = <<"L", env[i][2]>>
    <3>1. env[i] \in STRING \X STRING
      BY <1>2 DEF Variables
    <3> QED BY <1>2, <3>1, SMTT(60)
  <2>6. Tail(env[i]) = <<env[i][2]>> /\ env[i] # <<>>
    <3>1. Tail(<<"L", env[i][2]>>) = <<env[i][2]>> /\ <<"L", env[i][2]>> # <<>>
      BY Appended, Zenon
    <3> QED BY <2>5, <3>1, Zenon
  <2>7. <<"L", "sysroot">> \o <<env[i][2]>> = x
    BY Appended, Zenon
  <2>8. i # 0
    BY <1>2
  <2>9. path = x
    BY <1>2, <2>3, <2>6, <2>7, Zenon DEF path
  <2>10. more = 0
    BY <2>8, Zenon DEF more
  <2> QED BY <1>0, <2>1, <2>2, <2>4, <2>9, <2>10
<1> QED BY <1>1, <1>2, LdPathFound, Zenon DEF i

(* The auxiliary vector on the stack. *)
LEMMA AuxWords ==
  /\ DOMAIN Words(Auxv) = 1 .. 30 /\ Words(Auxv) = [i \in 1 .. 30 |-> Words(Auxv)[i]]
  /\ \A i \in 1 .. 30 : Words(Auxv)[i] # Null
  /\ Words(Auxv)[27] = <<"AT", "PHDR">> /\ Words(Auxv)[28] = <<"val", info.phdr>>
  /\ Words(Auxv)[29] = <<"AT", "ENTRY">> /\ Words(Auxv)[30] = <<"val", info.elf_entry>>
<1>1. Len(Auxv) = 15 /\ Auxv[14] = <<"PHDR", info.phdr>> /\ Auxv[15] = <<"ENTRY", info.elf_entry>>
  BY Zenon DEF Auxv
<1> DEFINE w(i) == IF i % 2 = 1 THEN <<"AT", Auxv[(i + 1) \div 2][1]>> ELSE <<"val", Auxv[i \div 2][2]>>
<1>2. Words(Auxv) = [i \in 1 .. 2 * Len(Auxv) |-> w(i)]
  BY Zenon DEF Words
<1>3. 2 * Len(Auxv) = 30
  BY <1>1
<1>4. Words(Auxv) = [i \in 1 .. 30 |-> w(i)]
  BY <1>2, <1>3, Zenon
<1>5. \A i \in 1 .. 30 : w(i) # Null
  BY Zenon DEF Null
<1>6. /\ w(27) = <<"AT", "PHDR">> /\ w(28) = <<"val", info.phdr>>
      /\ w(29) = <<"AT", "ENTRY">> /\ w(30) = <<"val", info.elf_entry>>
  <2>1. /\ 27 % 2 = 1 /\ (27 + 1) \div 2 = 14 /\ 28 % 2 # 1 /\ 28 \div 2 = 14
        /\ 29 % 2 = 1 /\ (29 + 1) \div 2 = 15 /\ 30 % 2 # 1 /\ 30 \div 2 = 15
    OBVIOUS
  <2> QED BY <1>1, <2>1, SMTT(60)
<1> HIDE DEF w
<1>7. 27 \in 1 .. 30 /\ 28 \in 1 .. 30 /\ 29 \in 1 .. 30 /\ 30 \in 1 .. 30
  OBVIOUS
<1> QED BY <1>4, <1>5, <1>6, <1>7, Zenon

(* A list of n words is a sequence. *)
LEMMA Listed ==
  ASSUME NEW S, NEW n \in Nat, NEW f, f = [i \in 1 .. n |-> f[i]], \A i \in 1 .. n : f[i] \in S
  PROVE  f \in Seq(S) /\ Len(f) = n
OBVIOUS

(* The stack pointer is even: the padding makes it so. *)
LEMMA Even ==
  ASSUME NEW a \in Nat, NEW n \in Nat, NEW x \in Nat
  PROVE  (a + (n + x) + 30 + ((a + n + x - 0) % 2) + 4) % 2 = 0
OBVIOUS

(* What StackReadable says of a stack built from argc, env and sysroot. *)
Readable(argc, env, sysroot) ==
  /\ ReadArgc = argc /\ ReadArgv = Argv(argc) /\ stack[ReadArgc + 2] = Null
  /\ ReadEnv = GuestEnv(env, sysroot)
  /\ {<<"PHDR", info.phdr>>, <<"ENTRY", info.elf_entry>>} \subseteq AuxPairs
  /\ ~(sysroot /\ LdPaths(env) # {}) => Len(stack) % 2 = 0

(* What main lays out, the guest reads. *)
LEMMA BuiltReadable ==
  ASSUME NEW argc \in Nat, NEW env \in Seq(Variables), NEW sysroot \in BOOLEAN,
         \A i, j \in LdPaths(env) : i = j, stack = InitialStack(argc, env, sysroot)
  PROVE  Readable(argc, env, sysroot)
<1> DEFINE c == <<"argc", argc>>
           A == Argv(argc)
           e == GuestEnv(env, sysroot)
           W == Words(Auxv)
           p == Pad(argc, env, sysroot)
           P == [i \in 1 .. p |-> <<"pad">>]
           S == {c, Null, <<"pad">>} \union {A[i] : i \in 1 .. argc} \union GuestVariables
                  \union {W[i] : i \in 1 .. 30}
           more == IF sysroot /\ LdPathIndex(env, sysroot) = 0 THEN 1 ELSE 0
<1>1. stack = Join(Join(Join(Join(Join(Join(Join(<<c>>, A), <<Null>>), e), <<Null>>), W), <<Null>>), P)
  BY Zenon DEF InitialStack, Join
<1>2. c \in S /\ Null \in S
  BY Zenon
<1>3. A \in Seq(S) /\ Len(A) = argc
  <2>1. A = [i \in 1 .. argc |-> A[i]]
    BY Zenon DEF Argv
  <2>2. \A i \in 1 .. argc : A[i] \in S
    BY Zenon
  <2> HIDE DEF A, S
  <2> QED BY <2>1, <2>2, Listed, Zenon
<1>4. e \in Seq(S) /\ Len(e) \in Nat /\ Len(e) = Len(env) + more /\ \A i \in 1 .. Len(e) : e[i] # Null
  <2>1. e \in Seq(GuestVariables) /\ Len(e) = Len(env) + more
    BY GuestEnvReads, Zenon
  <2>2. GuestVariables \subseteq S
    BY Zenon
  <2> HIDE DEF e, S, more
  <2>3. \A i \in 1 .. Len(e) : e[i] # Null
    BY <2>1, NotNull
  <2> QED BY <2>1, <2>2, <2>3
<1>5. W \in Seq(S) /\ Len(W) = 30 /\ \A i \in 1 .. Len(W) : W[i] # Null
  <2>1. W = [i \in 1 .. 30 |-> W[i]] /\ \A i \in 1 .. 30 : W[i] # Null
    BY AuxWords, Zenon
  <2>2. \A i \in 1 .. 30 : W[i] \in S
    BY Zenon
  <2> HIDE DEF W, S
  <2>3. W \in Seq(S) /\ Len(W) = 30
    BY <2>1, <2>2, Listed
  <2> QED BY <2>1, <2>3, Zenon
<1>6. p \in Nat
  <2>1. /\ (IF sysroot /\ LdPathIndex(env, sysroot) = 0 THEN 1 ELSE 0) \in Int
        /\ (IF LdPathIndex(env, sysroot) # 0 THEN 1 ELSE 0) \in Int
    OBVIOUS
  <2> QED BY <2>1 DEF Pad
<1>7. P \in Seq(S) /\ Len(P) = p
  <2>1. P = [i \in 1 .. p |-> P[i]]
    BY Zenon
  <2>2. \A i \in 1 .. p : P[i] \in S
    BY Zenon
  <2> HIDE DEF P, p, S
  <2> QED BY <1>6, <2>1, <2>2, Listed, Zenon
<1> HIDE DEF A, e, W, P, p, S
<1>8. /\ stack \in Seq(S) /\ Len(stack) = Len(A) + Len(e) + Len(W) + Len(P) + 4
      /\ Layout(stack, c, Null, A, e, W)
  <2>1. c \in S /\ Null \in S /\ A \in Seq(S) /\ e \in Seq(S) /\ W \in Seq(S) /\ P \in Seq(S)
    BY <1>2, <1>3, <1>4, <1>5, <1>7, Zenon
  <2> HIDE DEF c
  <2> QED BY <1>1, <2>1, LaidOut, Zenon
<1>9. /\ ReadArgc = argc /\ ReadArgv = A /\ stack[ReadArgc + 2] = Null /\ ReadEnv = e
      /\ AuxStart = argc + Len(e) + 4 /\ NullAfter(AuxStart) = argc + Len(e) + Len(W) + 4
  <2>1. A \in Seq(S) /\ e \in Seq(S) /\ W \in Seq(S) /\ Len(A) = argc /\ stack \in Seq(S)
    BY <1>3, <1>4, <1>5, <1>8, Zenon
  <2>2. (\A i \in 1 .. Len(e) : e[i] # Null) /\ (\A i \in 1 .. Len(W) : W[i] # Null)
    BY <1>4, <1>5, Zenon
  <2>3. Layout(stack, <<"argc", argc>>, Null, A, e, W)
    BY <1>8, Zenon
  <2>4. ReadsAs(argc, A, e, W)
    BY <2>1, <2>2, <2>3, ReadBack, Zenon
  <2> QED BY <2>4, Zenon DEF ReadsAs
<1>10. {<<"PHDR", info.phdr>>, <<"ENTRY", info.elf_entry>>} \subseteq AuxPairs
  <2> DEFINE k == argc + Len(e) + 3
             a == AuxStart
             z == NullAfter(AuxStart)
  <2>1. k \in Nat /\ a = k + 1 /\ z = k + 31
    <3>1. Len(e) \in Nat /\ Len(W) = 30 /\ a = argc + Len(e) + 4 /\ z = argc + Len(e) + Len(W) + 4
      BY <1>4, <1>5, <1>9, ZenonT(30)
    <3> HIDE DEF a, z
    <3> QED BY <3>1
  <2>2. \A i \in 1 .. 30 : stack[k + i] = W[i]
    BY <1>3, <1>5, <1>8, Zenon DEF At, Layout
  <2>3. /\ W[27] = <<"AT", "PHDR">> /\ W[28] = <<"val", info.phdr>>
        /\ W[29] = <<"AT", "ENTRY">> /\ W[30] = <<"val", info.elf_entry>>
    BY AuxWords, Zenon DEF W
  <2>4. AuxPairs = {<<stack[i][2], stack[i + 1][2]>> : i \in {j \in a .. z - 1 : (j - a) % 2 = 0}}
    BY Zenon DEF AuxPairs
  <2> HIDE DEF k, a, z
  <2>5. /\ stack[k + 27] = <<"AT", "PHDR">> /\ stack[(k + 27) + 1] = <<"val", info.phdr>>
        /\ stack[k + 29] = <<"AT", "ENTRY">> /\ stack[(k + 29) + 1] = <<"val", info.elf_entry>>
    <3>1. (k + 27) + 1 = k + 28 /\ (k + 29) + 1 = k + 30
      BY <2>1
    <3>2. /\ stack[k + 27] = W[27] /\ stack[k + 28] = W[28]
          /\ stack[k + 29] = W[29] /\ stack[k + 30] = W[30]
      BY <2>2, SMTT(60)
    <3> QED BY <2>3, <3>1, <3>2, Zenon
  <2>6. /\ k + 27 \in {j \in a .. z - 1 : (j - a) % 2 = 0}
        /\ k + 29 \in {j \in a .. z - 1 : (j - a) % 2 = 0}
    BY <2>1
  <2>7. /\ <<stack[k + 27][2], stack[(k + 27) + 1][2]>> = <<"PHDR", info.phdr>>
        /\ <<stack[k + 29][2], stack[(k + 29) + 1][2]>> = <<"ENTRY", info.elf_entry>>
    BY <2>5
  <2>8. <<"PHDR", info.phdr>> \in AuxPairs /\ <<"ENTRY", info.elf_entry>> \in AuxPairs
    BY <2>4, <2>6, <2>7, Zenon
  <2> QED BY <2>8, Zenon
<1>11. ASSUME ~(sysroot /\ LdPaths(env) # {})
       PROVE  Len(stack) % 2 = 0
  <2>1. LdPathIndex(env, sysroot) = 0
    BY <1>11, Zenon DEF LdPathIndex
  <2>2. more \in Nat /\ Len(env) \in Nat
    OBVIOUS
  <2>3. p = (argc + Len(env) + more - 0) % 2
    BY <2>1, Zenon DEF p, Pad
  <2> HIDE DEF more
  <2>4. Len(stack) = argc + (Len(env) + more) + 30 + ((argc + Len(env) + more - 0) % 2) + 4
    BY <1>3, <1>4, <1>5, <1>7, <1>8, <2>3, Zenon
  <2> QED BY <2>2, <2>4, Even
<1> QED BY <1>9, <1>10, <1>11, Zenon DEF Readable, A, e

(* The stack is the one that was built from the inputs. *)
StackInv ==
  HasStack =>
    /\ given = [argc |-> given.argc, env |-> given.env, sysroot |-> given.sysroot]
    /\ given.argc \in Argcs /\ given.env \in Environs /\ given.sysroot \in BOOLEAN
    /\ stack = InitialStack(given.argc, given.env, given.sysroot)

(* There is no stack at the start. *)
LEMMA StackBuilt ==
  StartInit => StackInv
BY Zenon DEF StartInit, StackInv, HasStack

(* The stack is built once, from the inputs, and not changed by main. *)
LEMMA StackStays ==
  StackInv /\ [StartNext]_allVars => StackInv'
<1> SUFFICES ASSUME StackInv, [StartNext]_allVars
             PROVE  StackInv'
  BY Zenon
<1>1. ASSUME HasStack, UNCHANGED <<vars, given, stack>>
      PROVE  StackInv'
  <2>1. InitialStack(given.argc, given.env, given.sysroot)' =
          InitialStack(given.argc, given.env, given.sysroot)
    BY <1>1, Zenon DEF InitialStack, Auxv, vars
  <2> QED BY <1>1, <2>1, Zenon DEF StackInv
<1>2. CASE LoadProgram
  BY <1>2, Zenon DEF LoadProgram, StackInv, HasStack
<1>3. CASE Handshake
  BY <1>3, Zenon DEF Handshake, StackInv, HasStack
<1>4. CASE BuildStack
  <2>1. CASE step' = "exit"
    BY <2>1, Zenon DEF StackInv, HasStack
  <2>2. CASE step' # "exit"
    <3>1. PICK argc \in Argcs, env \in Environs, sysroot \in BOOLEAN :
            /\ given' = [argc |-> argc, env |-> env, sysroot |-> sysroot]
            /\ stack' = InitialStack(argc, env, sysroot) /\ UNCHANGED vars
      BY <1>4, <2>2, Zenon DEF BuildStack
    <3>2. InitialStack(argc, env, sysroot)' = InitialStack(argc, env, sysroot)
      BY <3>1, Zenon DEF InitialStack, Auxv, vars
    <3>3. given'.argc = argc /\ given'.env = env /\ given'.sysroot = sysroot
      BY <3>1, Zenon
    <3> QED BY <3>1, <3>2, <3>3, Zenon DEF StackInv
  <2> QED BY <2>1, <2>2, Zenon
<1>5. CASE EnterGuest
  BY <1>1, <1>5, Zenon DEF EnterGuest, HasStack, StackInv
<1>6. CASE CloneThread
  BY <1>1, <1>6, Zenon DEF CloneThread, HasStack
<1>7. CASE UNCHANGED allVars
  BY <1>1, <1>7, Zenon DEF allVars, startVars, StackInv, HasStack
<1> QED BY <1>2, <1>3, <1>4, <1>5, <1>6, <1>7, Zenon DEF StartNext

(* A stack that was built from the inputs is readable. *)
LEMMA StackInvReadable ==
  StackInv => StackReadable
<1> SUFFICES ASSUME StackInv, HasStack
             PROVE  StackReadable
  BY Zenon DEF StackReadable
<1> DEFINE argc == given.argc
           env == given.env
           sysroot == given.sysroot
<1>1. /\ argc \in Nat /\ env \in Seq(Variables) /\ sysroot \in BOOLEAN
      /\ \A i, j \in LdPaths(env) : i = j
      /\ stack = InitialStack(argc, env, sysroot)
  BY StackAssumption, Zenon DEF StackInv, Variables
<1> HIDE DEF argc, env, sysroot
<1>2. Readable(argc, env, sysroot)
  BY <1>1, BuiltReadable, Zenon
<1>3. LET e == GuestEnv(env, sysroot)
          own == GetEnv(env, "L")
      IN  /\ \A v \in {"A", "B"} : GetEnv(e, v) = GetEnv(env, v)
          /\ GetEnv(e, "L") = IF ~sysroot THEN own
                              ELSE <<"L", "sysroot">> \o (IF own = <<>> THEN own ELSE Tail(own))
  BY <1>1, GuestEnvReads, Zenon
<1> QED BY <1>2, <1>3, Zenon DEF Readable, StackReadable, argc, env, sysroot

(* The guest finds on the stack that main builds what it was given: its     *)
(* arguments, its environment, its program headers and its entry, for every *)
(* argc and every environment.                                              *)
THEOREM GuestReadsStack == StartSpec => []StackReadable
<1>1. StartSpec => []StackInv
  BY StackBuilt, StackStays, PTL DEF StartSpec
<1> QED BY <1>1, StackInvReadable, PTL
==============================================================================
