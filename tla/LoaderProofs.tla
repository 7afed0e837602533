---------------------------- MODULE LoaderProofs -----------------------------
(***************************************************************************)
(* Proofs about ElfLoader as Start runs it, for all page sizes, programs   *)
(* and choices of the kernel.                                              *)
(***************************************************************************)
EXTENDS Start, TLAPS

------------------------------------------------------------------------------
(* The loader *)

(* The page size is positive. *)
LEMMA PageNat == PageSize \in Nat \ {0} /\ PageSize \in Int /\ PageSize > 0
BY ElfAssumption

(* Division by a page size. *)
LEMMA Quotient ==
  ASSUME NEW p \in Nat \ {0}, NEW x \in Int
  PROVE  \E q \in Int, r \in Int : x = q * p + r /\ r = x % p /\ 0 <= r /\ r < p
<1>1. x \div p \in Int /\ x % p \in Int /\ 0 <= x % p /\ x % p < p
  OBVIOUS
<1>2. x = (x \div p) * p + (x % p)
  OBVIOUS
<1> QED BY <1>1, <1>2, Zenon

(* The remainder is the one number below p with this property. *)
LEMMA Remainder ==
  ASSUME NEW p \in Nat \ {0}, NEW x \in Int, NEW q \in Int, NEW r \in Int,
         x = q * p + r, 0 <= r, r < p
  PROVE  x % p = r
OBVIOUS

(* ALIGN_DOWN and ALIGN_UP give the multiples of the page size next to an  *)
(* address.                                                                *)
LEMMA Aligned ==
  ASSUME NEW x \in Int
  PROVE  /\ AlignDown(x) \in Int /\ AlignDown(x) % PageSize = 0
         /\ AlignDown(x) <= x /\ x < AlignDown(x) + PageSize
         /\ AlignUp(x) \in Int /\ AlignUp(x) % PageSize = 0
         /\ x <= AlignUp(x) /\ AlignUp(x) < x + PageSize
<1>1. ASSUME NEW y \in Int
      PROVE  /\ AlignDown(y) \in Int /\ AlignDown(y) % PageSize = 0
             /\ AlignDown(y) <= y /\ y < AlignDown(y) + PageSize
  <2>1. PICK q \in Int, r \in Int : y = q * PageSize + r /\ r = y % PageSize /\ 0 <= r /\ r < PageSize
    BY Quotient, PageNat, Zenon
  <2>2. q * PageSize \in Int
    BY PageNat
  <2>3. AlignDown(y) = y - r
    BY <2>1, Zenon DEF AlignDown
  <2>4. AlignDown(y) = q * PageSize + 0 /\ AlignDown(y) \in Int
    BY <2>1, <2>2, <2>3
  <2>5. AlignDown(y) % PageSize = 0
    BY <2>4, Remainder, PageNat
  <2>6. 0 <= r /\ r < PageSize
    BY <2>1, Zenon
  <2>7. AlignDown(y) <= y /\ y < AlignDown(y) + PageSize
    BY <2>3, <2>6, PageNat
  <2> QED BY <2>4, <2>5, <2>7, Zenon
<1>2. x + PageSize - 1 \in Int
  BY PageNat
<1>3. /\ AlignUp(x) \in Int /\ AlignUp(x) % PageSize = 0
      /\ AlignUp(x) <= x + PageSize - 1 /\ x + PageSize - 1 < AlignUp(x) + PageSize
  BY <1>1, <1>2, Zenon DEF AlignUp
<1> QED BY <1>1, <1>3, PageNat

(* A multiple of the page size moves through both. *)
LEMMA AlignShift ==
  ASSUME NEW b \in Int, NEW x \in Int, b % PageSize = 0
  PROVE  /\ AlignDown(b + x) = b + AlignDown(x)
         /\ AlignUp(b + x) = b + AlignUp(x)
<1>1. ASSUME NEW y \in Int
      PROVE  AlignDown(b + y) = b + AlignDown(y)
  <2>1. PICK c \in Int, s \in Int : b = c * PageSize + s /\ s = b % PageSize
    BY Quotient, PageNat, Zenon
  <2>2. PICK q \in Int, r \in Int : y = q * PageSize + r /\ r = y % PageSize /\ 0 <= r /\ r < PageSize
    BY Quotient, PageNat, Zenon
  <2>3. c * PageSize + q * PageSize = (c + q) * PageSize
    BY PageNat
  <2>4. c * PageSize \in Int /\ q * PageSize \in Int /\ (c + q) * PageSize \in Int /\ c + q \in Int
    BY PageNat
  <2>5. s = 0
    BY <2>1, Zenon
  <2>6. b + y = (c + q) * PageSize + r
    BY <2>1, <2>2, <2>3, <2>4, <2>5
  <2>7. (b + y) % PageSize = r
    BY <2>2, <2>4, <2>6, Remainder, PageNat
  <2>8. AlignDown(b + y) = b + y - r /\ AlignDown(y) = y - r
    BY <2>2, <2>7 DEF AlignDown
  <2> QED BY <2>2, <2>8, Zenon
<1>2. (b + x) + PageSize - 1 = b + (x + PageSize - 1) /\ x + PageSize - 1 \in Int
  BY PageNat
<1> QED BY <1>1, <1>2, Zenon DEF AlignUp

(* A multiple of the page size below another one is a page below it. *)
LEMMA PagesApart ==
  ASSUME NEW a \in Int, NEW b \in Int, a % PageSize = 0, b % PageSize = 0, a < b + PageSize
  PROVE  a <= b
<1>1. PICK c \in Int, s \in Int : a = c * PageSize + s /\ s = a % PageSize
  BY Quotient, PageNat, Zenon
<1>2. PICK d \in Int, t \in Int : b = d * PageSize + t /\ t = b % PageSize
  BY Quotient, PageNat, Zenon
<1>3. ASSUME NEW p \in Nat \ {0}, c * p < d * p + p
      PROVE  c * p <= d * p
  <2>1. c < d + 1
    BY <1>3
  <2>2. c <= d
    BY <2>1
  <2> QED BY <2>2
<1>4. s = 0 /\ t = 0 /\ c * PageSize \in Int /\ d * PageSize \in Int
  BY <1>1, <1>2, PageNat
<1>5. a = c * PageSize /\ b = d * PageSize
  BY <1>1, <1>2, <1>4
<1> QED BY <1>3, <1>5, PageNat, Zenon

(* Rounding to pages keeps the order of addresses. *)
LEMMA AlignMonotone ==
  ASSUME NEW x \in Int, NEW y \in Int, x <= y
  PROVE  AlignDown(x) <= AlignDown(y) /\ AlignUp(x) <= AlignUp(y)
<1>1. AlignDown(x) < AlignDown(y) + PageSize /\ AlignUp(x) < AlignUp(y) + PageSize
  BY Aligned, PageNat
<1> QED BY <1>1, Aligned, PagesApart, PageNat, Zenon

(* The page of an address does not start before an aligned address below  *)
(* it, nor end behind one above it.                                        *)
LEMMA AlignBetween ==
  ASSUME NEW x \in Int, NEW y \in Int, y % PageSize = 0
  PROVE  (y <= x => y <= AlignDown(x)) /\ (x <= y => AlignUp(x) <= y)
<1>1. y <= x => y < AlignDown(x) + PageSize
  BY Aligned, PageNat
<1>2. x <= y => AlignUp(x) < y + PageSize
  BY Aligned, PageNat
<1> QED BY <1>1, <1>2, Aligned, PagesApart, PageNat, Zenon

(* The end of what elf_map clears is between the end of the segment and    *)
(* the end of its last page; the memset ends at this or at the end of the  *)
(* page with the file's last byte.                                         *)
LEMMA ClearedEnds ==
  ASSUME NEW p, p.filesz \in Nat, p.memsz \in Nat, p.filesz <= p.memsz, NEW addr \in Int
  PROVE  /\ AllocEnd(p, addr) \in Int /\ ZeroPage(p, addr) \in Int
         /\ AlignUp(AllocEnd(p, addr)) \in Int
         /\ addr + p.memsz <= AllocEnd(p, addr)
         /\ AllocEnd(p, addr) <= AlignUp(AllocEnd(p, addr))
         /\ AlignUp(AllocEnd(p, addr)) <= AlignUp(addr + p.memsz)
         /\ addr + p.filesz <= ZeroPage(p, addr)
         /\ ZeroPage(p, addr) <= AllocEnd(p, addr)
         /\ ZeroPage(p, addr) <= AlignUp(addr + p.filesz)
         /\ AlignUp(addr + p.filesz) <= AlignUp(addr + p.memsz)
         /\ AlignDown(addr) <= addr
         /\ AlignUp(addr + p.filesz) \in Int /\ AlignUp(addr + p.memsz) \in Int /\ AlignDown(addr) \in Int
<1>1. addr + p.filesz \in Int /\ addr + p.memsz \in Int /\ addr + p.filesz <= addr + p.memsz
  OBVIOUS
<1>2. /\ AlignUp(addr + p.filesz) \in Int /\ AlignUp(addr + p.memsz) \in Int /\ AlignDown(addr) \in Int
      /\ AlignUp(addr + p.memsz) % PageSize = 0 /\ AlignDown(addr) <= addr
      /\ addr + p.filesz <= AlignUp(addr + p.filesz) /\ addr + p.memsz <= AlignUp(addr + p.memsz)
  BY <1>1, Aligned, Zenon
<1>3. AlignUp(addr + p.filesz) <= AlignUp(addr + p.memsz)
  BY <1>1, AlignMonotone, Zenon
<1>4. /\ AllocEnd(p, addr) \in Int /\ addr + p.memsz <= AllocEnd(p, addr)
      /\ AllocEnd(p, addr) <= AlignUp(addr + p.memsz)
  BY <1>1, <1>2 DEF AllocEnd
<1>5. /\ AlignUp(AllocEnd(p, addr)) <= AlignUp(addr + p.memsz)
      /\ AlignUp(AllocEnd(p, addr)) \in Int /\ AllocEnd(p, addr) <= AlignUp(AllocEnd(p, addr))
  BY <1>2, <1>4, AlignBetween, Aligned
<1>6. /\ ZeroPage(p, addr) \in Int /\ addr + p.filesz <= ZeroPage(p, addr)
      /\ ZeroPage(p, addr) <= AllocEnd(p, addr) /\ ZeroPage(p, addr) <= AlignUp(addr + p.filesz)
  BY <1>1, <1>2, <1>4 DEF ZeroPage
<1> QED BY <1>2, <1>3, <1>4, <1>5, <1>6, Zenon

(* elf_map changes nothing outside the pages of its segment, and leaves    *)
(* the file's bytes and zeros behind them in the segment.                  *)
LEMMA MapsSegment ==
  ASSUME NEW f, NEW p, p.filesz \in Nat, p.memsz \in Nat, p.filesz <= p.memsz, NEW addr \in Int,
         NEW a \in Addrs
  PROVE  LET filled == Cleared(FileMem(f, p, addr), p, addr)
             full == ZeroMem(filled, p, addr)
         IN  /\ a \notin AlignDown(addr) .. AlignUp(addr + p.memsz) - 1 =>
                  filled[a] = mem[a] /\ full[a] = mem[a]
             /\ a \in addr .. addr + p.memsz - 1 =>
                  full[a] = IF a < addr + p.filesz
                            THEN Byte(f, AlignDown(p.off) + a - AlignDown(addr)) ELSE 0
<1> DEFINE filled == Cleared(FileMem(f, p, addr), p, addr)
           full == ZeroMem(filled, p, addr)
           ae == AllocEnd(p, addr)
           zp == ZeroPage(p, addr)
           e1 == AlignUp(addr + p.filesz)
           e2 == AlignUp(addr + p.memsz)
           e3 == AlignUp(ae)
           d == AlignDown(addr)
           x == Byte(f, AlignDown(p.off) + a - AlignDown(addr))
           y == FileMem(f, p, addr)[a]
<1>1. a \in Int
  BY ElfAssumption DEF Addrs
<1>2. /\ ae \in Int /\ zp \in Int /\ e1 \in Int /\ e2 \in Int /\ e3 \in Int /\ d \in Int
      /\ addr + p.memsz <= ae /\ ae <= e3 /\ e3 <= e2 /\ addr + p.filesz <= zp /\ zp <= ae
      /\ zp <= e1 /\ e1 <= e2 /\ d <= addr
  BY ClearedEnds, Zenon
<1>3. y = IF a \in d .. e1 - 1 THEN x ELSE mem[a]
  BY Zenon DEF FileMem
<1>4. filled[a] = IF a \in addr + p.filesz .. zp - 1 THEN 0 ELSE y
  BY Zenon DEF Cleared, Fill
<1>5. full[a] = IF ae > zp /\ a \in zp .. e3 - 1 THEN 0 ELSE filled[a]
  BY Zenon DEF ZeroMem, Fill
<1> HIDE DEF filled, full, ae, zp, e1, e2, e3, d, x, y
<1>6. a \notin d .. e2 - 1 => filled[a] = mem[a] /\ full[a] = mem[a]
  BY <1>1, <1>2, <1>3, <1>4, <1>5
<1>7. a \in addr .. addr + p.memsz - 1 => full[a] = IF a < addr + p.filesz THEN x ELSE 0
  BY <1>1, <1>2, <1>3, <1>4, <1>5
<1> QED BY <1>6, <1>7, Zenon DEF filled, full, e2, d, x

(* The pages of segment i of file f, loaded with bias b. *)
Area(f, i, b) ==
  AlignDown(b + Segments(f)[i].vaddr) .. AlignUp(b + Segments(f)[i].vaddr + Segments(f)[i].memsz) - 1

(* What a well-formed file says of its segments. *)
LEMMA SegmentsTyped ==
  ASSUME NEW f, WellFormed(f)
  PROVE  /\ Segments(f) \in Seq(ProgramHeaders) /\ Len(Segments(f)) \in Nat
         /\ DOMAIN Segments(f) = 1 .. Len(Segments(f))
         /\ \A i \in 1 .. Len(Segments(f)) :
              /\ Segments(f)[i].vaddr \in Nat /\ Segments(f)[i].off \in Nat
              /\ Segments(f)[i].filesz \in Nat /\ Segments(f)[i].memsz \in Nat
              /\ Segments(f)[i].filesz <= Segments(f)[i].memsz
              /\ f.type = "EXEC" => Segments(f)[i].vaddr + Segments(f)[i].memsz <= MmapBase
         /\ \A i, k \in 1 .. Len(Segments(f)) :
              i < k => Segments(f)[i].vaddr + Segments(f)[i].memsz <= Segments(f)[k].vaddr
<1>1. CASE ~f.phok
  BY <1>1 DEF Segments
<1>2. CASE f.phok
  <2> DEFINE s == Segments(f)
  <2>1. s = Loads(f)
    BY <1>2, Zenon DEF Segments
  <2>2. s \in Seq(ProgramHeaders) /\ Len(s) \in Nat /\ DOMAIN s = 1 .. Len(s)
    BY <2>1 DEF WellFormed
  <2>3. ASSUME NEW i \in 1 .. Len(s)
        PROVE  /\ s[i].vaddr \in Nat /\ s[i].off \in Nat /\ s[i].filesz \in Nat /\ s[i].memsz \in Nat
    <3>1. s[i] \in ProgramHeaders
      BY <2>2
    <3> QED BY <3>1, Zenon DEF ProgramHeaders
  <2>4. ASSUME NEW i \in 1 .. Len(s)
        PROVE  s[i].filesz <= s[i].memsz /\ (f.type = "EXEC" => s[i].vaddr + s[i].memsz <= MmapBase)
    BY <2>1, <2>2, Zenon DEF WellFormed, EndOfLoad
  <2>5. ASSUME NEW i \in 1 .. Len(s), NEW k \in 1 .. Len(s), i < k
        PROVE  s[i].vaddr + s[i].memsz <= s[k].vaddr
    BY <2>1, <2>2, <2>5, Zenon DEF WellFormed, EndOfLoad
  <2> HIDE DEF s
  <2>6. /\ s \in Seq(ProgramHeaders) /\ Len(s) \in Nat
        /\ DOMAIN s = 1 .. Len(s)
        /\ \A i \in 1 .. Len(s) :
             /\ s[i].vaddr \in Nat /\ s[i].off \in Nat
             /\ s[i].filesz \in Nat /\ s[i].memsz \in Nat
             /\ s[i].filesz <= s[i].memsz
             /\ f.type = "EXEC" => s[i].vaddr + s[i].memsz <= MmapBase
        /\ \A i, k \in 1 .. Len(s) :
             i < k => s[i].vaddr + s[i].memsz <= s[k].vaddr
    BY <2>2, <2>3, <2>4, <2>5, Zenon
  <2> QED BY <2>6, Zenon DEF s
<1> QED BY <1>1, <1>2, Zenon

(* The numbers of the segments. *)
LEMMA SegmentRange ==
  ASSUME NEW f, WellFormed(f)
  PROVE  Len(Segments(f)) \in Nat /\ DOMAIN Segments(f) = 1 .. Len(Segments(f))
BY SegmentsTyped, Zenon

(* The difference of two multiples. *)
LEMMA Multiples ==
  ASSUME NEW p \in Nat \ {0}, NEW q \in Int, NEW u \in Int
  PROVE  (q * p - u * p) % p = 0
<1>1. q * p - u * p = (q - u) * p + 0
  OBVIOUS
<1>2. q - u \in Int /\ q * p - u * p \in Int
  OBVIOUS
<1> QED BY <1>1, <1>2, Remainder

(* The difference of two aligned addresses is aligned. *)
LEMMA Difference ==
  ASSUME NEW p \in Nat \ {0}, NEW j \in Int, NEW k \in Int, j % p = 0, k % p = 0
  PROVE  (j - k) % p = 0
<1>1. PICK q \in Int, r \in Int : j = q * p + r /\ r = j % p
  BY Quotient, Zenon
<1>2. PICK u \in Int, t \in Int : k = u * p + t /\ t = k % p
  BY Quotient, Zenon
<1>3. q * p \in Int /\ u * p \in Int
  OBVIOUS
<1>4. j = q * p /\ k = u * p
  BY <1>1, <1>2, <1>3
<1> QED BY <1>4, Multiples, Zenon

(* A segment v .. e - 1 between the first address c and the end l of a     *)
(* program is within the reserved pages when the program is moved there.   *)
LEMMA Enclosed ==
  ASSUME NEW v \in Int, NEW e \in Int, NEW c \in Int, NEW l \in Int, c <= v, e <= l,
         NEW a \in Int, a % PageSize = 0, NEW b, b = a - AlignDown(c)
  PROVE  /\ b \in Int /\ b % PageSize = 0
         /\ a <= AlignDown(b + v) /\ AlignUp(b + e) <= a + AlignUp(l - AlignDown(c))
<1> DEFINE d == AlignDown(c)
           z == AlignUp(l - d)
<1>1. d \in Int /\ d % PageSize = 0 /\ l - d \in Int /\ z \in Int
  BY Aligned
<1>2. b \in Int /\ b % PageSize = 0
  BY <1>1, Difference, PageNat
<1>3. AlignDown(b + v) = b + AlignDown(v) /\ AlignUp(b + e) = b + AlignUp(e)
  BY <1>2, AlignShift, Zenon
<1>4. d <= AlignDown(v) /\ AlignUp(e) <= AlignUp(l)
  BY AlignMonotone, Zenon
<1>5. AlignDown(v) \in Int /\ AlignUp(e) \in Int /\ AlignUp(l) \in Int
  BY Aligned, Zenon
<1>6. d + (l - d) = l
  BY <1>1
<1>7. AlignUp(d + (l - d)) = d + z
  BY <1>1, AlignShift, Zenon
<1>8. AlignUp(l) = d + z /\ b = a - d
  BY <1>6, <1>7, Zenon
<1> HIDE DEF d, z
<1>9. a <= b + AlignDown(v) /\ b + AlignUp(e) <= a + z
  BY <1>1, <1>2, <1>4, <1>5, <1>8
<1>10. a <= AlignDown(b + v) /\ AlignUp(b + e) <= a + z
  BY <1>3, <1>9, Zenon
<1> QED BY <1>2, <1>10, Zenon DEF d, z

(* A bias is a multiple of the page size. *)
LEMMA BiasInt ==
  ASSUME NEW f, WellFormed(f), NEW b \in Biases(f)
  PROVE  b \in Int /\ b % PageSize = 0 /\ (f.type = "EXEC" => b = 0)
<1>1. CASE f.type = "EXEC"
  BY <1>1, PageNat DEF Biases
<1>2. CASE f.type # "EXEC"
  <2>1. Extent(f)[1] \in Int /\ Extent(f)[1] % PageSize = 0
    <3>1. CASE Segments(f) = <<>>
      BY <3>1, PageNat DEF Extent
    <3>2. CASE Segments(f) # <<>>
      <4>1. 1 \in 1 .. Len(Segments(f))
        BY <3>2, SegmentsTyped
      <4>2. Segments(f)[1].vaddr \in Int
        BY <4>1, SegmentsTyped
      <4>3. Extent(f)[1] = AlignDown(Segments(f)[1].vaddr)
        BY <3>2, Zenon DEF Extent
      <4> QED BY <4>2, <4>3, Aligned, Zenon
    <3> QED BY <3>1, <3>2, Zenon
  <2>2. PICK a \in Places(mem, Extent(f)[2] - Extent(f)[1]) : b = a - Extent(f)[1]
    BY <1>2, Zenon DEF Biases
  <2>3. a \in Int /\ a % PageSize = 0
    BY <2>2, ElfAssumption DEF Places
  <2>4. b \in Int
    BY <2>1, <2>2, <2>3
  <2>5. (a - Extent(f)[1]) % PageSize = 0
    BY <2>1, <2>3, Difference, PageNat, Zenon
  <2> QED BY <1>2, <2>2, <2>4, <2>5, Zenon
<1> QED BY <1>1, <1>2, Zenon

(* elf_determine_load_bias keeps the segments of a program with fixed      *)
(* addresses below what mmap hands out, and puts all pages of another one  *)
(* on free pages: the first and the last PT_LOAD enclose the others.       *)
LEMMA Reserved ==
  ASSUME NEW f, WellFormed(f), NEW b \in Biases(f), NEW i \in DOMAIN Segments(f)
  PROVE  /\ b \in Int /\ b % PageSize = 0
         /\ f.type = "EXEC" => b = 0 /\ Area(f, i, b) \subseteq 0 .. MmapBase - 1
         /\ f.type # "EXEC" =>
              /\ Area(f, i, b) \subseteq MmapBase .. Top - 1
              /\ \A a \in Area(f, i, b) : mem[a] = Free
<1> DEFINE s == Segments(f)
           v == s[i].vaddr
           e == s[i].vaddr + s[i].memsz
           n == Len(s)
           c == s[1].vaddr
           l == s[n].vaddr + s[n].memsz
<1>1. /\ n \in Nat /\ i \in 1 .. n /\ 1 \in 1 .. n /\ n \in 1 .. n /\ s # <<>>
      /\ v \in Nat /\ e \in Nat /\ c \in Nat /\ l \in Nat /\ s[i].memsz \in Nat
      /\ c <= v /\ v <= e /\ e <= l
      /\ f.type = "EXEC" => e <= MmapBase
  <2>1. n \in Nat /\ i \in 1 .. n /\ 1 \in 1 .. n /\ n \in 1 .. n /\ s # <<>>
    <3>1. n \in Nat /\ i \in 1 .. n
      BY SegmentsTyped, Zenon
    <3> QED BY <3>1
  <2>2. /\ v \in Nat /\ e \in Nat /\ c \in Nat /\ l \in Nat /\ s[i].memsz \in Nat /\ v <= e
        /\ s[1].memsz \in Nat /\ s[n].memsz \in Nat /\ s[n].vaddr \in Nat
        /\ f.type = "EXEC" => e <= MmapBase
    BY <2>1, SegmentsTyped
  <2>3. i # 1 => s[1].vaddr + s[1].memsz <= v
    BY <2>1, SegmentsTyped
  <2>4. i # n => e <= s[n].vaddr
    BY <2>1, SegmentsTyped
  <2> HIDE DEF s, n
  <2>5. c <= v /\ e <= l
    BY <2>2, <2>3, <2>4
  <2> QED BY <2>1, <2>2, <2>5, Zenon
<1>2. b \in Int => Area(f, i, b) = AlignDown(b + v) .. AlignUp(b + e) - 1
  <2>1. b \in Int => b + v + s[i].memsz = b + e
    <3>1. v \in Nat /\ s[i].memsz \in Nat
      BY <1>1, Zenon
    <3> HIDE DEF s
    <3> QED BY <3>1
  <2> QED BY <2>1, Zenon DEF Area
<1>3. Extent(f) = <<AlignDown(c), l>>
  BY <1>1, Zenon DEF Extent
<1> HIDE DEF s, n, v, e, l, c
<1>4. CASE f.type = "EXEC"
  <2>1. b = 0
    BY <1>4, Zenon DEF Biases
  <2>2. b \in Int /\ b % PageSize = 0 /\ b + v = v /\ b + e = e
    BY <1>1, <2>1, PageNat
  <2>3. 0 <= AlignDown(v) /\ AlignDown(v) \in Int
    <3>1. 0 \in Int /\ 0 % PageSize = 0
      BY PageNat
    <3> QED BY <1>1, <3>1, AlignBetween, Aligned
  <2>4. AlignUp(e) <= MmapBase /\ AlignUp(e) \in Int /\ MmapBase \in Int
    <3>1. e \in Int /\ e <= MmapBase
      BY <1>1, <1>4
    <3>2. MmapBase \in Int /\ MmapBase % PageSize = 0
      BY ElfAssumption
    <3>3. AlignUp(e) <= MmapBase
      BY <3>1, <3>2, AlignBetween, Zenon
    <3> QED BY <3>1, <3>2, <3>3, Aligned, Zenon
  <2>5. Area(f, i, b) = AlignDown(v) .. AlignUp(e) - 1
    BY <1>2, <2>2, Zenon
  <2> QED BY <1>4, <2>1, <2>2, <2>3, <2>4, <2>5
<1>5. CASE f.type # "EXEC"
  <2> DEFINE z == AlignUp(l - AlignDown(c))
  <2>1. z \in Int
    BY <1>1, Aligned
  <2>2. PICK a \in Places(mem, l - AlignDown(c)) : b = a - AlignDown(c)
    BY <1>3, <1>5 DEF Biases
  <2>3. /\ a \in Int /\ a % PageSize = 0 /\ MmapBase <= a /\ a + z <= Top
        /\ \A x \in a .. a + z - 1 : mem[x] = Free
    BY <2>2, ElfAssumption DEF Places
  <2>4. /\ b \in Int /\ b % PageSize = 0
        /\ a <= AlignDown(b + v) /\ AlignUp(b + e) <= a + z
    <3>1. v \in Int /\ e \in Int /\ c \in Int /\ l \in Int /\ c <= v /\ e <= l
      BY <1>1
    <3>2. a \in Int /\ a % PageSize = 0
      BY <2>3, Zenon
    <3> QED BY <2>2, <3>1, <3>2, Enclosed, Zenon
  <2>5. AlignDown(b + v) \in Int /\ AlignUp(b + e) \in Int
    BY <1>1, <2>4, Aligned
  <2>6. Area(f, i, b) = AlignDown(b + v) .. AlignUp(b + e) - 1
    BY <1>2, <2>4, Zenon
  <2> HIDE DEF z
  <2>7. Area(f, i, b) \subseteq a .. a + z - 1
    BY <2>1, <2>3, <2>4, <2>5, <2>6
  <2>8. a .. a + z - 1 \subseteq MmapBase .. Top - 1
    BY <2>1, <2>3, ElfAssumption
  <2> QED BY <1>5, <2>3, <2>4, <2>7, <2>8, Zenon
<1> QED BY <1>4, <1>5, Zenon

(* The pages of file f, loaded with bias b, are clear of the client and of *)
(* the temporary maps t.                                                   *)
Clear(f, b, t) ==
  \A i \in DOMAIN Segments(f) :
    /\ Area(f, i, b) \subseteq Addrs
    /\ \A a \in Area(f, i, b) :
         a \notin Client /\ \A n \in DOMAIN t : a \notin t[n] .. t[n] + PageSize - 1

LoaderTyped ==
  /\ WellFormed(main) /\ WellFormed(interp)
  /\ bias \in [1 .. 2 -> Int] /\ seg \in Nat \ {0}
  /\ \A n \in DOMAIN tmp : tmp[n] \in Int /\ MmapBase <= tmp[n] /\ tmp[n] + PageSize <= Top

MapInv ==
  /\ LoaderTyped
  /\ pc = "map" => Clear(main, bias[1], tmp)
  /\ pc = "imap" => Clear(interp, bias[2], tmp)
  /\ MapsKept

(* Bytes of the client, of temporary maps and of nothing are told apart. *)
LEMMA BytesDiffer ==
  Free # ClientByte /\ Free # TmpByte /\ ClientByte # TmpByte
BY DEF Free, ClientByte, TmpByte

(* Before load_elf_binary only the client is mapped. *)
LEMMA InitMaps ==
  Init => MapInv
<1> SUFFICES ASSUME Init PROVE MapInv
  BY Zenon
<1>1. WellFormed(main) /\ WellFormed(interp)
  BY ProgramsAssumption, Zenon DEF Init
<1>2. bias \in [1 .. 2 -> Int] /\ seg \in Nat \ {0} /\ tmp = <<>> /\ DOMAIN tmp = {} /\ pc = "open"
  BY DEF Init
<1>3. \A a \in Client : a \in Addrs /\ mem[a] = ClientByte
  BY ElfAssumption DEF Init, Addrs
<1> QED BY <1>1, <1>2, <1>3, Zenon DEF MapInv, LoaderTyped, MapsKept

(* A step that touches neither the memory nor the maps. *)
LEMMA StillMaps ==
  ASSUME MapInv, UNCHANGED <<main, interp, seg, bias, tmp, mem>>, pc' \notin {"map", "imap", "done"}
  PROVE  MapInv'
BY Zenon DEF MapInv, LoaderTyped, MapsKept

(* out_free_ph and out_close, on every way out. *)
LEMMA LeaveMaps ==
  ASSUME MapInv, NEW err, NEW m, \A a \in Client : m[a] = ClientByte, Leave(err, m)
  PROVE  MapInv'
<1>1. pc' = "done" /\ fds' = {} /\ tmp' = <<>> /\ DOMAIN tmp' = {} /\ UNCHANGED <<main, interp, seg, bias>>
  BY DEF Leave
<1>2. mem' = [a \in Addrs |-> IF m[a] = TmpByte THEN Free ELSE m[a]]
  BY Zenon DEF Leave
<1>3. \A a \in Client : mem'[a] = ClientByte
  BY <1>2, BytesDiffer, ElfAssumption DEF Addrs
<1>4. \A a \in Addrs : mem'[a] # TmpByte
  BY <1>2, BytesDiffer, Zenon
<1>5. MapsKept'
  BY <1>1, <1>3, <1>4, Zenon DEF MapsKept
<1>6. LoaderTyped'
  BY <1>1, Zenon DEF MapInv, LoaderTyped
<1> QED BY <1>1, <1>5, <1>6, Zenon DEF MapInv

(* load_elf_phdrs maps a page that is free, so neither the client's nor    *)
(* the other file's headers.                                               *)
LEMMA PhdrsMaps ==
  ASSUME MapInv, NEW f, NEW name, NEW next, NEW err, next \notin {"map", "imap", "done"},
         LoadPhdrs(f, name, next, err)
  PROVE  MapInv'
<1>1. CASE Leave(err, mem)
  BY <1>1, LeaveMaps, Zenon DEF MapInv, MapsKept
<1>2. CASE ~Leave(err, mem)
  <2>1. PICK a \in Places(mem, PageSize) :
          /\ tmp' = [n \in DOMAIN tmp \union {name} |-> IF n = name THEN a ELSE tmp[n]]
          /\ mem' = Fill(mem, a, a + PageSize, TmpByte)
    BY <1>2, Zenon DEF LoadPhdrs
  <2>2. pc' = next /\ UNCHANGED <<main, interp, seg, bias, retval, fds, info>>
    BY <1>2, Zenon DEF LoadPhdrs
  <2>3. AlignUp(PageSize) = PageSize
    <3>1. AlignUp(PageSize) <= PageSize /\ PageSize <= AlignUp(PageSize) /\ AlignUp(PageSize) \in Int
      <4>1. PageSize % PageSize = 0
        BY PageNat
      <4> QED BY <4>1, Aligned, AlignBetween, PageNat
    <3> QED BY <3>1, PageNat
  <2>4. /\ a \in Int /\ MmapBase <= a /\ a + PageSize <= Top
        /\ \A x \in a .. a + PageSize - 1 : mem[x] = Free
    BY <2>1, <2>3, ElfAssumption DEF Places
  <2>5. \A x \in Addrs : mem'[x] = IF x \in a .. a + PageSize - 1 THEN TmpByte ELSE mem[x]
    <3>1. mem' = Fill(mem, a, a + PageSize, TmpByte)
      BY <2>1, Zenon
    <3>2. ASSUME NEW x \in Addrs
          PROVE  Fill(mem, a, a + PageSize, TmpByte)[x]
                   = IF x \in a .. a + PageSize - 1 THEN TmpByte ELSE mem[x]
      BY <2>4, PageNat DEF Fill
    <3> QED BY <3>1, <3>2, Zenon
  <2>6. \A x \in Client : mem'[x] = ClientByte
    BY <2>4, <2>5, BytesDiffer, ElfAssumption DEF MapInv, MapsKept, Addrs
  <2>7. ASSUME NEW n \in DOMAIN tmp'
        PROVE  /\ tmp'[n] \in Int /\ MmapBase <= tmp'[n] /\ tmp'[n] + PageSize <= Top
               /\ \A x \in tmp'[n] .. tmp'[n] + PageSize - 1 : mem'[x] = TmpByte
    <3>1. \A x \in a .. a + PageSize - 1 : x \in Addrs
      BY <2>4, ElfAssumption DEF Addrs
    <3>2. CASE n = name
      <4>1. tmp'[n] = a
        BY <2>1, <3>2, Zenon
      <4> QED BY <2>4, <2>5, <3>1, <4>1, Zenon
    <3>3. CASE n # name
      <4>1. n \in DOMAIN tmp /\ tmp'[n] = tmp[n]
        BY <2>1, <2>7, <3>3, Zenon
      <4>2. /\ tmp[n] \in Int /\ MmapBase <= tmp[n] /\ tmp[n] + PageSize <= Top
            /\ \A x \in tmp[n] .. tmp[n] + PageSize - 1 : mem[x] = TmpByte
        BY <4>1, Zenon DEF MapInv, LoaderTyped, MapsKept
      <4>3. \A x \in tmp[n] .. tmp[n] + PageSize - 1 : x \in Addrs
        BY <4>2, ElfAssumption DEF Addrs
      <4> QED BY <2>5, <4>1, <4>2, <4>3, Zenon
    <3> QED BY <3>2, <3>3, Zenon
  <2>8. LoaderTyped'
    BY <2>2, <2>7, Zenon DEF MapInv, LoaderTyped
  <2>9. MapsKept'
    BY <2>2, <2>6, <2>7, Zenon DEF MapsKept
  <2> QED BY <2>2, <2>8, <2>9, Zenon DEF MapInv
<1> QED BY <1>1, <1>2, Zenon

(* The pages that elf_determine_load_bias settles on are clear. *)
LEMMA BiasMaps ==
  ASSUME MapInv, NEW f, NEW which \in 1 .. 2, NEW next, ChooseBias(f, which, next),
         \/ f = main /\ which = 1 /\ next = "map"
         \/ f = interp /\ which = 2 /\ next = "imap"
  PROVE  MapInv'
<1>1. CASE Leave("bias", mem)
  BY <1>1, LeaveMaps, Zenon DEF MapInv, MapsKept
<1>2. CASE ~Leave("bias", mem)
  <2>1. PICK b \in Biases(f) : bias' = [bias EXCEPT ![which] = b]
    BY <1>2, Zenon DEF ChooseBias
  <2>2. pc' = next /\ seg' = 1 /\ UNCHANGED <<main, interp, retval, fds, tmp, mem, info>>
    BY <1>2, Zenon DEF ChooseBias
  <2>3. WellFormed(f)
    BY Zenon DEF MapInv, LoaderTyped
  <2>4. Clear(f, b, tmp)
    <3> SUFFICES ASSUME NEW i \in DOMAIN Segments(f)
                 PROVE  /\ Area(f, i, b) \subseteq Addrs
                        /\ \A a \in Area(f, i, b) :
                             a \notin Client /\ \A n \in DOMAIN tmp : a \notin tmp[n] .. tmp[n] + PageSize - 1
      BY Zenon DEF Clear
    <3>1. CASE f.type = "EXEC"
      <4>1. Area(f, i, b) \subseteq 0 .. MmapBase - 1
        BY <2>3, <3>1, Reserved, Zenon
      <4>2. ASSUME NEW a \in Area(f, i, b)
            PROVE  a \in Int /\ 0 <= a /\ a < MmapBase
        BY <4>1, ElfAssumption
      <4>3. Area(f, i, b) \subseteq Addrs
        BY <4>2, ElfAssumption DEF Addrs
      <4>4. ASSUME NEW a \in Area(f, i, b), NEW n \in DOMAIN tmp
            PROVE  a \notin tmp[n] .. tmp[n] + PageSize - 1
        BY <4>2, ElfAssumption DEF MapInv, LoaderTyped
      <4>5. ASSUME NEW a \in Area(f, i, b)
            PROVE  a \notin Client
        BY <4>2, ElfAssumption
      <4> QED BY <4>3, <4>4, <4>5, Zenon
    <3>2. CASE f.type # "EXEC"
      <4>1. Area(f, i, b) \subseteq MmapBase .. Top - 1 /\ \A a \in Area(f, i, b) : mem[a] = Free
        BY <2>3, <3>2, Reserved, Zenon
      <4>2. Area(f, i, b) \subseteq Addrs
        BY <4>1, ElfAssumption DEF Addrs
      <4> QED BY <4>1, <4>2, BytesDiffer, Zenon DEF MapInv, MapsKept
    <3> QED BY <3>1, <3>2, Zenon
  <2>5. b \in Int
    BY BiasInt, <2>1, <2>3, Zenon
  <2>6. bias' \in [1 .. 2 -> Int] /\ bias'[which] = b
    BY <2>1, <2>5, Zenon DEF MapInv, LoaderTyped
  <2>7. LoaderTyped'
    BY <2>2, <2>6 DEF MapInv, LoaderTyped
  <2>8. MapsKept'
    BY <2>2, Zenon DEF MapInv, MapsKept, Addrs
  <2>9. (pc' = "map" => Clear(main, bias[1], tmp)') /\ (pc' = "imap" => Clear(interp, bias[2], tmp)')
    BY <2>2, <2>4, <2>6, Zenon
  <2> QED BY <2>7, <2>8, <2>9, Zenon DEF MapInv
<1> QED BY <1>1, <1>2, Zenon

(* elf_map writes to the pages of its segment only, which are clear. *)
LEMMA SegmentMaps ==
  ASSUME MapInv, NEW f, NEW which \in 1 .. 2, MapSegment(f, which, FALSE),
         \/ f = main /\ which = 1 /\ pc = "map"
         \/ f = interp /\ which = 2 /\ pc = "imap"
  PROVE  MapInv'
<1> DEFINE p == Segments(f)[seg]
           addr == bias[which] + p.vaddr
           filled == Cleared(FileMem(f, p, addr), p, addr)
           full == ZeroMem(filled, p, addr)
<1>1. seg \in 1 .. Len(Segments(f)) /\ seg \in DOMAIN Segments(f) /\ WellFormed(f)
  <2>1. WellFormed(f) /\ seg \in Nat \ {0} /\ seg <= Len(Segments(f))
    BY Zenon DEF MapInv, LoaderTyped, MapSegment
  <2> QED BY <2>1, SegmentRange
<1>2. p.vaddr \in Nat /\ p.filesz \in Nat /\ p.memsz \in Nat /\ p.filesz <= p.memsz
  BY <1>1, SegmentsTyped, Zenon
<1>3. addr \in Int
  BY <1>2 DEF MapInv, LoaderTyped
<1>4. Clear(f, bias[which], tmp)
  BY Zenon DEF MapInv
<1>5. Area(f, seg, bias[which]) = AlignDown(addr) .. AlignUp(addr + p.memsz) - 1
  BY Zenon DEF Area
<1>6. ASSUME NEW a \in Addrs, filled[a] # mem[a] \/ full[a] # mem[a]
      PROVE  a \notin Client /\ \A n \in DOMAIN tmp : a \notin tmp[n] .. tmp[n] + PageSize - 1
  <2>1. a \in Area(f, seg, bias[which])
    BY <1>2, <1>3, <1>5, <1>6, MapsSegment, SMTT(60)
  <2> QED BY <1>1, <1>4, <2>1, Zenon DEF Clear
<1>7. \/ /\ mem' = full /\ seg' = seg + 1
         /\ UNCHANGED <<main, interp, pc, bias, retval, fds, tmp, info>>
      \/ Leave("map", mem)
      \/ Leave("map", filled)
  BY Zenon DEF MapSegment
<1> HIDE DEF filled, full
<1>8. \A a \in Client : a \in Addrs /\ mem[a] = ClientByte
  BY ElfAssumption DEF MapInv, MapsKept, Addrs
<1>9. \A a \in Client : filled[a] = ClientByte /\ full[a] = ClientByte
  BY <1>6, <1>8, Zenon
<1>10. CASE /\ mem' = full /\ seg' = seg + 1
            /\ UNCHANGED <<main, interp, pc, bias, retval, fds, tmp, info>>
  <2>1. LoaderTyped'
    BY <1>10 DEF MapInv, LoaderTyped
  <2>2. ASSUME NEW n \in DOMAIN tmp, NEW a \in tmp[n] .. tmp[n] + PageSize - 1
        PROVE  full[a] = TmpByte
    <3>1. mem[a] = TmpByte
      BY Zenon DEF MapInv, MapsKept
    <3>2. a \in Addrs
      BY ElfAssumption DEF MapInv, LoaderTyped, Addrs
    <3> QED BY <1>6, <3>1, <3>2, Zenon
  <2>3. pc' # "done"
    BY <1>10, Zenon
  <2>4. MapsKept'
    BY <1>9, <1>10, <2>2, <2>3, Zenon DEF MapsKept
  <2>5. (pc' = "map" => Clear(main, bias[1], tmp)') /\ (pc' = "imap" => Clear(interp, bias[2], tmp)')
    BY <1>10, Zenon DEF MapInv
  <2> QED BY <2>1, <2>4, <2>5, Zenon DEF MapInv
<1>11. CASE Leave("map", mem) \/ Leave("map", filled)
  BY <1>8, <1>9, <1>11, LeaveMaps, Zenon
<1> QED BY <1>7, <1>10, <1>11, Zenon

(* Every step of main keeps MapInv. *)
LEMMA StepMaps ==
  MapInv /\ [StartNext]_allVars => MapInv'
<1> SUFFICES ASSUME MapInv, [StartNext]_allVars
             PROVE  MapInv'
  BY Zenon
<1>1. CASE OpenMain
  BY <1>1, StillMaps, LeaveMaps, Zenon DEF OpenMain, MapInv, MapsKept
<1>2. CASE ReadEhdr
  BY <1>2, StillMaps, LeaveMaps, Zenon DEF ReadEhdr, MapInv, MapsKept
<1>3. CASE ReadPhdrs
  BY <1>3, PhdrsMaps, Zenon DEF ReadPhdrs
<1>4. CASE OpenInterp
  BY <1>4, StillMaps, LeaveMaps, Zenon DEF OpenInterp, MapInv, MapsKept
<1>5. CASE ReadInterp
  BY <1>5, PhdrsMaps, LeaveMaps, Zenon DEF ReadInterp, MapInv, MapsKept
<1>6. CASE MainBias
  BY <1>6, BiasMaps DEF MainBias
<1>7. CASE InterpBias
  BY <1>7, BiasMaps DEF InterpBias
<1>8. CASE MapMain
  <2>1. MapSegment(main, 1, FALSE) \/ MainMapped
    BY <1>8, Zenon DEF MapMain, MapSegment
  <2>2. pc = "map" /\ 1 \in 1 .. 2
    BY <1>8 DEF MapMain
  <2>3. CASE MapSegment(main, 1, FALSE)
    BY <2>2, <2>3, SegmentMaps, Zenon
  <2>4. CASE MainMapped
    BY <2>4, StillMaps, Zenon DEF MainMapped
  <2> QED BY <2>1, <2>3, <2>4, Zenon
<1>9. CASE MapInterp
  <2>1. MapSegment(interp, 2, FALSE) \/ InterpMapped
    BY <1>9, Zenon DEF MapInterp, MapSegment
  <2>2. pc = "imap" /\ 2 \in 1 .. 2
    BY <1>9 DEF MapInterp
  <2>3. CASE MapSegment(interp, 2, FALSE)
    BY <2>2, <2>3, SegmentMaps, Zenon
  <2>4. CASE InterpMapped
    BY <2>4, StillMaps, Zenon DEF InterpMapped
  <2> QED BY <2>1, <2>3, <2>4, Zenon
<1>10. CASE Finish
  <2>1. pc' = "done" /\ fds' = {} /\ tmp' = <<>> /\ DOMAIN tmp' = {} /\ UNCHANGED <<main, interp, seg, bias>>
    BY <1>10 DEF Finish
  <2>2. mem' = [a \in Addrs |-> IF mem[a] = TmpByte THEN Free ELSE mem[a]]
    BY <1>10, Zenon DEF Finish
  <2>3. \A a \in Client : mem'[a] = ClientByte
    BY <2>2, BytesDiffer, ElfAssumption DEF Addrs, MapInv, MapsKept
  <2>4. \A a \in Addrs : mem'[a] # TmpByte
    BY <2>2, BytesDiffer, Zenon
  <2>5. MapsKept'
    BY <2>1, <2>3, <2>4, Zenon DEF MapsKept
  <2>6. LoaderTyped'
    BY <2>1, Zenon DEF MapInv, LoaderTyped
  <2> QED BY <2>1, <2>5, <2>6, Zenon DEF MapInv
<1>11. CASE UNCHANGED vars
  BY <1>11, Zenon DEF vars, MapInv, LoaderTyped, MapsKept
<1>12. load_elf_binary \/ UNCHANGED vars
  BY Zenon DEF StartNext, LoadProgram, Handshake, BuildStack, EnterGuest, CloneThread, allVars
<1> QED BY <1>1, <1>2, <1>3, <1>4, <1>5, <1>6, <1>7, <1>8, <1>9, <1>10, <1>11, <1>12, Zenon
     DEF load_elf_binary

(* load_elf_binary maps nothing over the client or over the program        *)
(* headers it is reading, and gives back its temporary maps and files on   *)
(* every way out, for every page size, program and choice of the kernel.   *)
THEOREM LoaderKeepsMaps == StartSpec => []MapsKept
<1>1. StartInit => MapInv
  BY InitMaps, Zenon DEF StartInit
<1>2. MapInv => MapsKept
  BY Zenon DEF MapInv
<1> QED BY <1>1, <1>2, StepMaps, PTL DEF StartSpec

------------------------------------------------------------------------------
(* What is loaded *)

(* The addresses, before the bias, that only segment i of file f covers    *)
(* among the segments from i on, and what should be there.                 *)
Own(f, i) ==
  {a \in Segments(f)[i].vaddr .. Segments(f)[i].vaddr + Segments(f)[i].memsz - 1 :
     \A k \in i + 1 .. Len(Segments(f)) : a < AlignDown(Segments(f)[k].vaddr)}
Content(f, i, a) ==
  IF a - Segments(f)[i].vaddr < Segments(f)[i].filesz
  THEN Byte(f, Segments(f)[i].off + a - Segments(f)[i].vaddr) ELSE 0

(* The segments of f before the n-th are in memory m. *)
Holds(f, n, b, m) ==
  \A i \in DOMAIN Segments(f) : i < n => \A a \in Own(f, i) : m[b + a] = Content(f, i, a)

(* What elf_determine_load_bias achieves. *)
Based(f, b) ==
  /\ b \in Int /\ b % PageSize = 0 /\ (f.type = "EXEC" => b = 0)
  /\ \A i \in DOMAIN Segments(f) :
       /\ Area(f, i, b) \subseteq Addrs
       /\ f.type # "EXEC" => Area(f, i, b) \subseteq MmapBase .. Top - 1

(* The pages of g miss what f has in memory. *)
Misses(g, c, f, b) ==
  \A k \in DOMAIN Segments(g), i \in DOMAIN Segments(f) : \A a \in Own(f, i) : b + a \notin Area(g, k, c)

LoadInv ==
  /\ MapInv /\ Apart(main, interp) /\ HeadersApart(main)
  /\ pc # "done" => retval # "ok"
  /\ pc \in {"open", "ehdr", "phdrs", "interp"} => "interp" \notin fds
  /\ pc \in {"iehdr", "bias", "map", "ibias", "imap", "finish"} => ("interp" \in fds <=> HasInterp(main))
  /\ pc = "map" => Based(main, bias[1]) /\ Holds(main, seg, bias[1], mem)
  /\ pc \in {"ibias", "imap", "finish"} =>
       Based(main, bias[1]) /\ Holds(main, Len(Segments(main)) + 1, bias[1], mem)
  /\ pc = "imap" =>
       /\ Based(interp, bias[2]) /\ Holds(interp, seg, bias[2], mem)
       /\ Misses(interp, bias[2], main, bias[1])
  /\ pc = "finish" /\ HasInterp(main) =>
       Based(interp, bias[2]) /\ Holds(interp, Len(Segments(interp)) + 1, bias[2], mem)
  /\ LoadedRight

(* Bytes of a file are neither free nor a temporary map. *)
LEMMA ByteNat ==
  ASSUME NEW f, f.id \in Nat, NEW o \in Int, 0 <= o
  PROVE  Byte(f, o) # Free /\ Byte(f, o) # TmpByte /\ 0 # Free /\ 0 # TmpByte
<1>1. 100 * f.id + o + 1 \in Int /\ 100 * f.id + o + 1 > 0
  OBVIOUS
<1> QED BY <1>1 DEF Byte, Free, TmpByte

(* A byte of a segment is in its pages. *)
LEMMA OwnInArea ==
  ASSUME NEW f, WellFormed(f), NEW b \in Int, NEW i \in DOMAIN Segments(f), NEW a \in Own(f, i)
  PROVE  /\ a \in Int /\ b + a \in Area(f, i, b)
         /\ Segments(f)[i].vaddr <= a /\ a < Segments(f)[i].vaddr + Segments(f)[i].memsz
         /\ Content(f, i, a) # Free /\ Content(f, i, a) # TmpByte
<1> DEFINE v == Segments(f)[i].vaddr
           w == Segments(f)[i].memsz
           o == Segments(f)[i].off
<1>1. v \in Nat /\ w \in Nat /\ o \in Nat
  BY SegmentsTyped, Zenon
<1>2. a \in v .. v + w - 1
  BY Zenon DEF Own
<1>3. Area(f, i, b) = AlignDown(b + v) .. AlignUp(b + v + w) - 1
  BY Zenon DEF Area
<1>4. f.id \in Nat
  BY Zenon DEF WellFormed
<1>5. Content(f, i, a) = IF a - v < Segments(f)[i].filesz THEN Byte(f, o + a - v) ELSE 0
  BY Zenon DEF Content
<1> HIDE DEF v, w, o
<1>6. a \in Int /\ v <= a /\ a < v + w
  BY <1>1, <1>2
<1>7. b + v \in Int /\ b + v + w \in Int
  BY <1>1
<1>8. /\ AlignDown(b + v) \in Int /\ AlignDown(b + v) <= b + v
      /\ AlignUp(b + v + w) \in Int /\ b + v + w <= AlignUp(b + v + w)
  BY <1>7, Aligned, Zenon
<1>9. b + a \in Area(f, i, b)
  BY <1>1, <1>3, <1>6, <1>8
<1>10. o + a - v \in Int /\ 0 <= o + a - v
  BY <1>1, <1>6
<1>11. Content(f, i, a) # Free /\ Content(f, i, a) # TmpByte
  BY <1>4, <1>5, <1>10, ByteNat, Zenon
<1> QED BY <1>6, <1>9, <1>11, Zenon DEF v, w

(* What f has in memory stays there when the bytes that change are not     *)
(* its own.                                                                *)
LEMMA HoldsStill ==
  ASSUME NEW f, NEW n, NEW b, NEW m, NEW M, Holds(f, n, b, m),
         \A i \in DOMAIN Segments(f) : \A a \in Own(f, i) : i < n => M[b + a] = m[b + a]
  PROVE  Holds(f, n, b, M)
BY Zenon DEF Holds

(* The addresses that segment n of f is mapped to: below them are the own  *)
(* bytes of the segments before.                                           *)
LEMMA BeforeArea ==
  ASSUME NEW f, WellFormed(f), NEW b \in Int, b % PageSize = 0, NEW n \in DOMAIN Segments(f),
         NEW i \in DOMAIN Segments(f), i < n, NEW a \in Own(f, i)
  PROVE  b + a \notin Area(f, n, b)
<1> DEFINE v == Segments(f)[n].vaddr
           w == Segments(f)[n].memsz
<1>1. v \in Nat /\ w \in Nat /\ n \in i + 1 .. Len(Segments(f))
  BY SegmentsTyped, SMTT(60)
<1>2. a < AlignDown(v) /\ a \in Int
  BY <1>1, OwnInArea, Zenon DEF Own
<1>3. Area(f, n, b) = AlignDown(b + v) .. AlignUp(b + v + w) - 1
  BY Zenon DEF Area
<1> HIDE DEF v, w
<1>4. AlignDown(b + v) = b + AlignDown(v) /\ AlignDown(v) \in Int
  <2>1. v \in Int
    BY <1>1
  <2> QED BY <2>1, AlignShift, Aligned, Zenon
<1>5. AlignUp(b + v + w) \in Int
  BY <1>1, Aligned, SMTT(60)
<1> QED BY <1>2, <1>3, <1>4, <1>5

(* elf_map keeps the segments before and adds its own: offset and address  *)
(* agree modulo the page size, so that each byte is where it belongs.      *)
LEMMA SegmentHolds ==
  ASSUME NEW f, WellFormed(f), NEW b, Based(f, b), NEW n \in DOMAIN Segments(f), NEW p,
         p = Segments(f)[n], p.vaddr % PageSize = p.off % PageSize, Holds(f, n, b, mem)
  PROVE  Holds(f, n + 1, b, ZeroMem(Cleared(FileMem(f, p, b + p.vaddr), p, b + p.vaddr), p, b + p.vaddr))
<1> DEFINE addr == b + p.vaddr
           full == ZeroMem(Cleared(FileMem(f, p, addr), p, addr), p, addr)
<1>1. /\ p.vaddr \in Nat /\ p.filesz \in Nat /\ p.memsz \in Nat /\ p.off \in Nat
      /\ p.filesz <= p.memsz /\ n \in Nat
  BY SegmentsTyped
<1>2. b \in Int /\ b % PageSize = 0
  BY Zenon DEF Based
<1>3. addr \in Int
  BY <1>1, <1>2
<1>4. Area(f, n, b) = AlignDown(addr) .. AlignUp(addr + p.memsz) - 1
  BY Zenon DEF Area
<1>5. ASSUME NEW i \in DOMAIN Segments(f), NEW a \in Own(f, i)
      PROVE  b + a \in Addrs
  BY <1>2, OwnInArea, Zenon DEF Based
<1>6. ASSUME NEW x \in Addrs, x \notin Area(f, n, b)
      PROVE  full[x] = mem[x]
  BY <1>1, <1>3, <1>4, <1>6, MapsSegment, SMTT(60)
<1>7. ASSUME NEW i \in DOMAIN Segments(f), i < n, NEW a \in Own(f, i)
      PROVE  full[b + a] = Content(f, i, a)
  <2>1. full[b + a] = mem[b + a]
    BY <1>2, <1>5, <1>6, <1>7, BeforeArea, Zenon
  <2> QED BY <1>7, <2>1, Zenon DEF Holds
<1>8. ASSUME NEW a \in Own(f, n)
      PROVE  full[b + a] = Content(f, n, a)
  <2>1. a \in Int /\ p.vaddr <= a /\ a < p.vaddr + p.memsz /\ b + a \in Addrs
    BY <1>2, <1>5, OwnInArea, ZenonT(30)
  <2>2. b + a \in addr .. addr + p.memsz - 1
    BY <1>1, <1>2, <2>1
  <2>3. full[b + a] = IF b + a < addr + p.filesz
                      THEN Byte(f, AlignDown(p.off) + (b + a) - AlignDown(addr)) ELSE 0
    BY <1>1, <1>3, <2>1, <2>2, MapsSegment, SMTT(60)
  <2>4. AlignDown(p.off) + (b + a) - AlignDown(addr) = p.off + a - p.vaddr
    <3>1. p.vaddr \in Int /\ p.off \in Int /\ p.vaddr % PageSize \in Int /\ p.off % PageSize \in Int
      BY <1>1, PageNat
    <3>2. AlignDown(b + p.vaddr) = b + AlignDown(p.vaddr)
      BY <1>2, <3>1, AlignShift, Zenon
    <3>3. AlignDown(p.vaddr) = p.vaddr - (p.vaddr % PageSize) /\ AlignDown(p.off) = p.off - (p.off % PageSize)
      BY Zenon DEF AlignDown
    <3> DEFINE r == p.off % PageSize
    <3>4. AlignDown(p.vaddr) = p.vaddr - r /\ AlignDown(p.off) = p.off - r /\ r \in Int
      BY <3>1, <3>3, Zenon
    <3> HIDE DEF r
    <3> QED BY <1>1, <1>2, <2>1, <3>2, <3>4
  <2>5. (b + a < addr + p.filesz) <=> (a - p.vaddr < p.filesz)
    BY <1>1, <1>2, <2>1
  <2> HIDE DEF full
  <2>6. Content(f, n, a) = IF a - p.vaddr < p.filesz THEN Byte(f, p.off + a - p.vaddr) ELSE 0
    BY Zenon DEF Content
  <2> QED BY <2>3, <2>4, <2>5, <2>6, Zenon
<1> HIDE DEF full
<1>9. ASSUME NEW i \in DOMAIN Segments(f), i < n + 1
      PROVE  i < n \/ i = n
  BY <1>1, <1>9, SegmentsTyped
<1>10. Holds(f, n + 1, b, full)
  BY <1>7, <1>8, <1>9, Zenon DEF Holds
<1> QED BY <1>10, Zenon DEF full

(* elf_map changes nothing outside the pages of its segment. *)
LEMMA MapsInside ==
  ASSUME NEW g, NEW p, p.filesz \in Nat, p.memsz \in Nat, p.filesz <= p.memsz, NEW addr \in Int,
         NEW x \in Addrs, x \notin AlignDown(addr) .. AlignUp(addr + p.memsz) - 1
  PROVE  ZeroMem(Cleared(FileMem(g, p, addr), p, addr), p, addr)[x] = mem[x]
BY MapsSegment

(* What is in memory of f stays while g is mapped. *)
LEMMA OtherHolds ==
  ASSUME NEW f, WellFormed(f), NEW b, Based(f, b), NEW h, Holds(f, h, b, mem),
         NEW g, WellFormed(g), NEW c \in Int, Misses(g, c, f, b),
         NEW n \in DOMAIN Segments(g), NEW p, p = Segments(g)[n]
  PROVE  Holds(f, h, b, ZeroMem(Cleared(FileMem(g, p, c + p.vaddr), p, c + p.vaddr), p, c + p.vaddr))
<1> DEFINE addr == c + p.vaddr
           full == ZeroMem(Cleared(FileMem(g, p, addr), p, addr), p, addr)
<1>1. p.vaddr \in Nat /\ p.filesz \in Nat /\ p.memsz \in Nat /\ p.filesz <= p.memsz
  BY SegmentsTyped, Zenon
<1>2. addr \in Int
  BY <1>1
<1>3. Area(g, n, c) = AlignDown(addr) .. AlignUp(addr + p.memsz) - 1
  BY Zenon DEF Area
<1>4. ASSUME NEW x \in Addrs, x \notin Area(g, n, c)
      PROVE  full[x] = mem[x]
  <2>1. x \notin AlignDown(addr) .. AlignUp(addr + p.memsz) - 1
    BY <1>3, <1>4, Zenon
  <2> HIDE DEF addr
  <2> QED BY <1>1, <1>2, <2>1, MapsInside, Zenon
<1>5. b \in Int
  BY Zenon DEF Based
<1>6. ASSUME NEW i \in DOMAIN Segments(f), NEW a \in Own(f, i)
      PROVE  full[b + a] = mem[b + a]
  <2>1. b + a \in Addrs
    BY <1>5, OwnInArea, Zenon DEF Based
  <2>2. b + a \notin Area(g, n, c)
    BY Zenon DEF Misses
  <2> QED BY <1>4, <2>1, <2>2, Zenon
<1> QED BY <1>6, HoldsStill, ZenonT(30)

(* A bias that was chosen is a good one. *)
LEMMA BiasBased ==
  ASSUME NEW f, WellFormed(f), NEW b \in Biases(f)
  PROVE  Based(f, b)
<1>1. ASSUME NEW i \in DOMAIN Segments(f)
      PROVE  /\ Area(f, i, b) \subseteq Addrs
             /\ f.type # "EXEC" => Area(f, i, b) \subseteq MmapBase .. Top - 1
  <2>1. CASE f.type = "EXEC"
    BY <2>1, Reserved, ElfAssumption DEF Addrs
  <2>2. CASE f.type # "EXEC"
    BY <2>2, Reserved, ElfAssumption DEF Addrs
  <2> QED BY <2>1, <2>2, Zenon
<1> QED BY <1>1, BiasInt, Zenon DEF Based

(* The interpreter is placed beside what is loaded of the program: on free *)
(* pages, or below all that mmap hands out, where only a program with      *)
(* fixed addresses can be.                                                 *)
LEMMA BiasMisses ==
  ASSUME NEW f, WellFormed(f), NEW b, Based(f, b), Holds(f, Len(Segments(f)) + 1, b, mem),
         NEW g, WellFormed(g), NEW c \in Biases(g), Apart(f, g)
  PROVE  Misses(g, c, f, b)
<1> SUFFICES ASSUME NEW k \in DOMAIN Segments(g), NEW i \in DOMAIN Segments(f), NEW a \in Own(f, i)
             PROVE  b + a \notin Area(g, k, c)
  BY Zenon DEF Misses
<1>1. /\ b \in Int /\ a \in Int /\ b + a \in Area(f, i, b) /\ Content(f, i, a) # Free
      /\ Segments(f)[i].vaddr <= a /\ a < Segments(f)[i].vaddr + Segments(f)[i].memsz
  BY OwnInArea, Zenon DEF Based
<1>2. CASE g.type # "EXEC"
  <2>1. i < Len(Segments(f)) + 1
    BY SegmentsTyped, SMTT(60)
  <2>2. mem[b + a] # Free
    BY <1>1, <2>1, Zenon DEF Holds
  <2> QED BY <1>2, <2>2, Reserved, Zenon
<1>3. CASE g.type = "EXEC" /\ f.type # "EXEC"
  <2>1. Area(g, k, c) \subseteq 0 .. MmapBase - 1
    BY <1>3, Reserved, Zenon
  <2>2. b + a \in MmapBase .. Top - 1
    BY <1>1, <1>3, Zenon DEF Based
  <2> QED BY <2>1, <2>2, ElfAssumption
<1>4. CASE g.type = "EXEC" /\ f.type = "EXEC"
  <2>1. b = 0 /\ c = 0
    BY <1>4, BiasInt, Zenon DEF Based
  <2> DEFINE v == Segments(g)[k].vaddr
             w == Segments(g)[k].memsz
             u == Segments(f)[i].vaddr
             x == Segments(f)[i].memsz
  <2>2. v \in Nat /\ w \in Nat /\ u \in Nat /\ x \in Nat
    BY SegmentsTyped, Zenon
  <2>3. Segments(f) = Loads(f) /\ Segments(g) = Loads(g)
    BY SMTT(60) DEF Segments
  <2>4. u + x <= AlignDown(v) \/ AlignUp(v + w) <= u
    BY <1>4, <2>3, Zenon DEF Apart, EndOfLoad
  <2>5. Area(g, k, c) = AlignDown(c + v) .. AlignUp(c + v + w) - 1
    BY Zenon DEF Area
  <2>6. u <= a /\ a < u + x
    BY <1>1, Zenon
  <2> HIDE DEF v, w, u, x
  <2>7. c + v = v /\ b + a = a
    BY <1>1, <2>1, <2>2
  <2>8. Area(g, k, c) = AlignDown(v) .. AlignUp(v + w) - 1
    BY <2>5, <2>7, Zenon
  <2>9. AlignDown(v) \in Int /\ AlignUp(v + w) \in Int
    <3>1. v \in Int /\ v + w \in Int
      BY <2>2
    <3> QED BY <3>1, Aligned, Zenon
  <2> QED BY <1>1, <2>2, <2>4, <2>6, <2>7, <2>8, <2>9
<1> QED BY <1>2, <1>3, <1>4, Zenon

(* LoadInv holds before load_elf_binary. *)
LEMMA InitLoad ==
  Init => LoadInv
<1> SUFFICES ASSUME Init PROVE LoadInv
  BY Zenon
<1>1. Apart(main, interp) /\ HeadersApart(main)
  BY ProgramsAssumption, Zenon DEF Init
<1>2. pc = "open" /\ retval = "ENOEXEC" /\ fds = {}
  BY Zenon DEF Init
<1>3. MapInv
  BY InitMaps, Zenon
<1>4. LoadedRight
  BY <1>2, Zenon DEF LoadedRight
<1> QED BY <1>1, <1>2, <1>3, <1>4, Zenon DEF LoadInv

(* An error is not a success. *)
LEMMA LeaveLoad ==
  ASSUME LoadInv, MapInv', NEW err, NEW m, Leave(err, m), err # "ok"
  PROVE  LoadInv'
<1>1. pc' = "done" /\ retval' # "ok" /\ main' = main /\ interp' = interp
  BY Zenon DEF Leave
<1>2. LoadedRight'
  BY <1>1, Zenon DEF LoadedRight
<1> QED BY <1>1, <1>2, Zenon DEF LoadInv

(* A step before the mapping starts. *)
LEMMA EarlyLoad ==
  ASSUME LoadInv, MapInv', UNCHANGED <<main, interp>>, retval' # "ok",
         \/ pc' \in {"open", "ehdr", "phdrs", "interp"} /\ "interp" \notin fds'
         \/ pc' \in {"iehdr", "bias"} /\ ("interp" \in fds' <=> HasInterp(main))
  PROVE  LoadInv'
<1>1. LoadedRight'
  BY Zenon DEF LoadedRight
<1> QED BY <1>1, Zenon DEF LoadInv

(* load_elf_phdrs changes the memory, but only before the mapping starts. *)
LEMMA PhdrsLoad ==
  ASSUME LoadInv, MapInv', NEW f, NEW name, NEW next, NEW err, err # "ok", pc # "done",
         LoadPhdrs(f, name, next, err),
         \/ next = "interp" /\ "interp" \notin fds
         \/ next = "bias" /\ ("interp" \in fds <=> HasInterp(main))
  PROVE  LoadInv'
<1>1. CASE Leave(err, mem)
  BY <1>1, LeaveLoad, Zenon
<1>2. CASE ~Leave(err, mem)
  <2>1. pc' = next /\ UNCHANGED <<main, interp, seg, bias, retval, fds, info>>
    BY <1>2, Zenon DEF LoadPhdrs
  <2>2. retval' # "ok"
    BY <2>1, Zenon DEF LoadInv
  <2> QED BY <2>1, <2>2, EarlyLoad, Zenon
<1> QED BY <1>1, <1>2, Zenon

(* With no segment mapped yet, there is nothing to hold. *)
LEMMA NoneHold ==
  ASSUME NEW f, WellFormed(f), NEW b, NEW m
  PROVE  Holds(f, 1, b, m)
<1>1. \A i \in DOMAIN Segments(f) : ~(i < 1)
  BY SegmentsTyped
<1> QED BY <1>1, ZenonT(30) DEF Holds

(* The load bias of the program leaves it room for its segments. *)
LEMMA MainBiasLoad ==
  ASSUME LoadInv, MapInv', MainBias
  PROVE  LoadInv'
<1>1. CASE Leave("bias", mem)
  BY <1>1, LeaveLoad, Zenon
<1>2. CASE ~Leave("bias", mem)
  <2>1. PICK b \in Biases(main) : bias' = [bias EXCEPT ![1] = b]
    BY <1>2, Zenon DEF MainBias, ChooseBias
  <2>2. pc = "bias" /\ pc' = "map" /\ seg' = 1 /\ UNCHANGED <<main, interp, retval, fds, tmp, mem, info>>
    BY <1>2, Zenon DEF MainBias, ChooseBias
  <2>3. WellFormed(main) /\ bias \in [1 .. 2 -> Int]
    BY Zenon DEF LoadInv, MapInv, LoaderTyped
  <2>4. bias'[1] = b
    BY <2>1, <2>3
  <2>5. Based(main, b) /\ Holds(main, 1, b, mem)
    BY <2>1, <2>3, BiasBased, NoneHold, Zenon
  <2>6. retval' # "ok" /\ LoadedRight'
    BY <2>2, Zenon DEF LoadInv, LoadedRight
  <2>7. Based(main, bias[1])' /\ Holds(main, seg, bias[1], mem)'
    BY <2>2, <2>4, <2>5, Zenon
  <2> QED BY <2>2, <2>6, <2>7, Zenon DEF LoadInv
<1> QED BY <1>1, <1>2, Zenon

(* The load bias of the interpreter keeps it off the program. *)
LEMMA InterpBiasLoad ==
  ASSUME LoadInv, MapInv', InterpBias
  PROVE  LoadInv'
<1>1. CASE Leave("bias", mem)
  BY <1>1, LeaveLoad, Zenon
<1>2. CASE ~Leave("bias", mem)
  <2>1. PICK b \in Biases(interp) : bias' = [bias EXCEPT ![2] = b]
    BY <1>2, Zenon DEF InterpBias, ChooseBias
  <2>2. pc = "ibias" /\ pc' = "imap" /\ seg' = 1 /\ UNCHANGED <<main, interp, retval, fds, tmp, mem, info>>
    BY <1>2, Zenon DEF InterpBias, ChooseBias
  <2>3. WellFormed(main) /\ WellFormed(interp) /\ bias \in [1 .. 2 -> Int] /\ Apart(main, interp)
    BY Zenon DEF LoadInv, MapInv, LoaderTyped
  <2>4. bias'[2] = b /\ bias'[1] = bias[1]
    BY <2>1, <2>3
  <2>5. Based(interp, b) /\ Holds(interp, 1, b, mem)
    BY <2>1, <2>3, BiasBased, NoneHold, Zenon
  <2>6. Based(main, bias[1]) /\ Holds(main, Len(Segments(main)) + 1, bias[1], mem)
    BY <2>2, Zenon DEF LoadInv
  <2>7. Misses(interp, b, main, bias[1])
    BY <2>1, <2>3, <2>6, BiasMisses, Zenon
  <2>8. retval' # "ok" /\ LoadedRight'
    BY <2>2, Zenon DEF LoadInv, LoadedRight
  <2>9. /\ Based(interp, bias[2])' /\ Holds(interp, seg, bias[2], mem)'
        /\ Misses(interp, bias[2], main, bias[1])'
        /\ Based(main, bias[1])' /\ Holds(main, Len(Segments(main)) + 1, bias[1], mem)'
    BY <2>2, <2>4, <2>5, <2>6, <2>7, Zenon
  <2> QED BY <2>2, <2>8, <2>9, Zenon DEF LoadInv
<1> QED BY <1>1, <1>2, Zenon

(* After the last segment, all are there. *)
LEMMA AllHold ==
  ASSUME NEW f, WellFormed(f), NEW n \in Nat, n > Len(Segments(f)), NEW b, NEW m, Holds(f, n, b, m)
  PROVE  Holds(f, Len(Segments(f)) + 1, b, m)
<1>1. \A i \in DOMAIN Segments(f) : i < n
  BY SegmentRange
<1> QED BY <1>1, Zenon DEF Holds

(* Mapping a segment of the program keeps LoadInv. *)
LEMMA MapMainLoad ==
  ASSUME LoadInv, MapInv', MapMain
  PROVE  LoadInv'
<1> DEFINE p == Segments(main)[seg]
           addr == bias[1] + p.vaddr
           filled == Cleared(FileMem(main, p, addr), p, addr)
<1>1. /\ pc = "map" /\ WellFormed(main) /\ seg \in Nat \ {0} /\ retval # "ok"
      /\ Based(main, bias[1]) /\ Holds(main, seg, bias[1], mem)
      /\ ("interp" \in fds <=> HasInterp(main))
  BY Zenon DEF LoadInv, MapInv, LoaderTyped, MapMain
<1>2. \/ /\ seg <= Len(Segments(main)) /\ p.vaddr % PageSize = p.off % PageSize
         /\ mem' = ZeroMem(filled, p, addr)
         /\ seg' = seg + 1
         /\ UNCHANGED <<main, interp, pc, bias, retval, fds, tmp, info>>
      \/ Leave("map", mem)
      \/ Leave("map", filled)
      \/ seg > Len(Segments(main)) /\ MainMapped
  BY Zenon DEF MapMain, MapSegment
<1>3. CASE /\ seg <= Len(Segments(main)) /\ p.vaddr % PageSize = p.off % PageSize
           /\ mem' = ZeroMem(filled, p, addr)
           /\ seg' = seg + 1
           /\ UNCHANGED <<main, interp, pc, bias, retval, fds, tmp, info>>
  <2>1. seg \in DOMAIN Segments(main)
    <3>1. WellFormed(main) /\ seg \in Nat \ {0} /\ seg <= Len(Segments(main))
      BY <1>1, <1>3, Zenon
    <3> QED BY <3>1, SegmentRange
  <2>2. Holds(main, seg + 1, bias[1], ZeroMem(filled, p, addr))
    BY <1>1, <1>3, <2>1, SegmentHolds, Zenon
  <2> HIDE DEF p, addr, filled
  <2>3. Holds(main, seg, bias[1], mem)' /\ Based(main, bias[1])'
    BY <1>1, <1>3, <2>2, Zenon
  <2>4. LoadedRight'
    BY <1>1, <1>3, Zenon DEF LoadedRight
  <2>5. pc' = "map" /\ retval' # "ok" /\ UNCHANGED <<main, interp, fds>>
    BY <1>1, <1>3, Zenon
  <2> QED BY <2>3, <2>4, <2>5, <1>1, Zenon DEF LoadInv
<1>4. CASE Leave("map", mem) \/ Leave("map", filled)
  BY <1>4, LeaveLoad, Zenon
<1>5. CASE seg > Len(Segments(main)) /\ MainMapped
  <2>1. /\ pc' = (IF "interp" \in fds THEN "ibias" ELSE "finish")
        /\ UNCHANGED <<main, interp, seg, bias, retval, fds, tmp, mem, info>>
    BY <1>5, Zenon DEF MainMapped
  <2>2. Holds(main, Len(Segments(main)) + 1, bias[1], mem)
    BY <1>1, <1>5, AllHold, Zenon
  <2>3. Holds(main, Len(Segments(main)) + 1, bias[1], mem)' /\ Based(main, bias[1])'
    BY <1>1, <2>1, <2>2, Zenon
  <2>4. LoadedRight'
    BY <1>1, <2>1, Zenon DEF LoadedRight
  <2>5. HasInterp(main)' = HasInterp(main)
    BY <2>1, Zenon
  <2> QED BY <1>1, <2>1, <2>3, <2>4, <2>5, Zenon DEF LoadInv
<1> HIDE DEF p, addr, filled
<1> QED BY <1>2, <1>3, <1>4, <1>5, Zenon

(* Mapping a segment of the interpreter keeps LoadInv, the program's       *)
(* segments included.                                                      *)
LEMMA MapInterpLoad ==
  ASSUME LoadInv, MapInv', MapInterp
  PROVE  LoadInv'
<1> DEFINE p == Segments(interp)[seg]
           addr == bias[2] + p.vaddr
           filled == Cleared(FileMem(interp, p, addr), p, addr)
           n == Len(Segments(main)) + 1
<1>1. /\ pc = "imap" /\ WellFormed(main) /\ WellFormed(interp) /\ seg \in Nat \ {0} /\ retval # "ok"
      /\ Based(main, bias[1]) /\ Holds(main, n, bias[1], mem)
      /\ Based(interp, bias[2]) /\ Holds(interp, seg, bias[2], mem)
      /\ Misses(interp, bias[2], main, bias[1]) /\ bias[2] \in Int
      /\ ("interp" \in fds <=> HasInterp(main))
  <2>1. pc = "imap"
    BY Zenon DEF MapInterp
  <2>2. WellFormed(main) /\ WellFormed(interp) /\ seg \in Nat \ {0}
    BY Zenon DEF LoadInv, MapInv, LoaderTyped
  <2>3. /\ Based(main, bias[1]) /\ Holds(main, n, bias[1], mem) /\ retval # "ok"
        /\ ("interp" \in fds <=> HasInterp(main))
    BY <2>1, Zenon DEF LoadInv
  <2>4. /\ Based(interp, bias[2]) /\ Holds(interp, seg, bias[2], mem)
        /\ Misses(interp, bias[2], main, bias[1])
    BY <2>1, Zenon DEF LoadInv
  <2>5. bias[2] \in Int
    BY <2>4, Zenon DEF Based
  <2> QED BY <2>1, <2>2, <2>3, <2>4, <2>5, Zenon
<1>2. \/ /\ seg <= Len(Segments(interp)) /\ p.vaddr % PageSize = p.off % PageSize
         /\ mem' = ZeroMem(filled, p, addr)
         /\ seg' = seg + 1
         /\ UNCHANGED <<main, interp, pc, bias, retval, fds, tmp, info>>
      \/ Leave("map", mem)
      \/ Leave("map", filled)
      \/ seg > Len(Segments(interp)) /\ InterpMapped
  BY Zenon DEF MapInterp, MapSegment
<1>3. CASE /\ seg <= Len(Segments(interp)) /\ p.vaddr % PageSize = p.off % PageSize
           /\ mem' = ZeroMem(filled, p, addr)
           /\ seg' = seg + 1
           /\ UNCHANGED <<main, interp, pc, bias, retval, fds, tmp, info>>
  <2>1. seg \in DOMAIN Segments(interp)
    <3>1. WellFormed(interp) /\ seg \in Nat \ {0} /\ seg <= Len(Segments(interp))
      BY <1>1, <1>3, ZenonT(30)
    <3> QED BY <3>1, SegmentRange
  <2>2. Holds(interp, seg + 1, bias[2], ZeroMem(filled, p, addr))
    BY <1>1, <1>3, <2>1, SegmentHolds, Zenon
  <2>3. Holds(main, n, bias[1], ZeroMem(filled, p, addr))
    BY <1>1, <2>1, OtherHolds, Zenon
  <2> HIDE DEF p, addr, filled
  <2>4. /\ Holds(interp, seg, bias[2], mem)' /\ Based(interp, bias[2])'
        /\ Holds(main, Len(Segments(main)) + 1, bias[1], mem)' /\ Based(main, bias[1])'
        /\ Misses(interp, bias[2], main, bias[1])'
    BY <1>1, <1>3, <2>2, <2>3, Zenon
  <2>5. LoadedRight'
    BY <1>1, <1>3, Zenon DEF LoadedRight
  <2>6. pc' = "imap" /\ retval' # "ok" /\ UNCHANGED <<main, interp, fds>>
    BY <1>1, <1>3, Zenon
  <2> QED BY <2>4, <2>5, <2>6, <1>1, Zenon DEF LoadInv
<1>4. CASE Leave("map", mem) \/ Leave("map", filled)
  BY <1>4, LeaveLoad, Zenon
<1>5. CASE seg > Len(Segments(interp)) /\ InterpMapped
  <2>1. pc' = "finish" /\ UNCHANGED <<main, interp, seg, bias, retval, fds, tmp, mem, info>>
    BY <1>5, Zenon DEF InterpMapped
  <2>2. Holds(interp, Len(Segments(interp)) + 1, bias[2], mem)
    BY <1>1, <1>5, AllHold, Zenon
  <2>3. /\ Holds(main, Len(Segments(main)) + 1, bias[1], mem)' /\ Based(main, bias[1])'
        /\ Holds(interp, Len(Segments(interp)) + 1, bias[2], mem)' /\ Based(interp, bias[2])'
    BY <1>1, <2>1, <2>2, Zenon
  <2>4. LoadedRight'
    BY <1>1, <2>1, Zenon DEF LoadedRight
  <2> QED BY <1>1, <2>1, <2>3, <2>4, Zenon DEF LoadInv
<1> HIDE DEF p, addr, filled
<1> QED BY <1>2, <1>3, <1>4, <1>5, Zenon

(* The bytes of a segment that LoadedRight speaks of are its own: one that *)
(* no later segment covers is below the pages of all later ones.           *)
LEMMA OwnBytes ==
  ASSUME NEW f, WellFormed(f), f.phok, NEW i \in DOMAIN Loads(f),
         NEW a \in Loads(f)[i].vaddr .. Loads(f)[i].vaddr + Loads(f)[i].memsz - 1,
         a \notin UNION {AlignDown(Loads(f)[k].vaddr) .. Loads(f)[k].vaddr + Loads(f)[k].memsz - 1 :
                           k \in i + 1 .. Len(Loads(f))}
  PROVE  a \in Own(f, i)
<1>1. Segments(f) = Loads(f)
  BY Zenon DEF Segments
<1>2. ASSUME NEW k \in i + 1 .. Len(Loads(f))
      PROVE  a < AlignDown(Loads(f)[k].vaddr)
  <2> DEFINE v == Loads(f)[k].vaddr
             w == Loads(f)[k].memsz
             u == Loads(f)[i].vaddr
             x == Loads(f)[i].memsz
  <2>1. i \in 1 .. Len(Loads(f)) /\ k \in 1 .. Len(Loads(f)) /\ i < k
    BY <1>1, SegmentRange
  <2>2. v \in Nat /\ w \in Nat /\ u \in Nat /\ x \in Nat /\ u + x <= v
    BY <1>1, <2>1, SegmentsTyped, Zenon
  <2>3. a \notin AlignDown(v) .. v + w - 1
    BY Zenon
  <2>4. a \in u .. u + x - 1
    BY Zenon
  <2> HIDE DEF v, w, u, x
  <2>5. v \in Int
    BY <2>2
  <2>6. AlignDown(v) \in Int
    BY <2>5, Aligned, Zenon
  <2>7. a < AlignDown(v)
    BY <2>2, <2>3, <2>4, <2>6
  <2> QED BY <2>7, Zenon DEF v
<1> QED BY <1>1, <1>2, Zenon DEF Own

(* out_free_ph takes nothing of what is loaded away. *)
LEMMA FreeHolds ==
  ASSUME NEW f, WellFormed(f), NEW b, Based(f, b), NEW n, Holds(f, n, b, mem)
  PROVE  Holds(f, n, b, [a \in Addrs |-> IF mem[a] = TmpByte THEN Free ELSE mem[a]])
<1> DEFINE m == [a \in Addrs |-> IF mem[a] = TmpByte THEN Free ELSE mem[a]]
<1>1. b \in Int
  BY Zenon DEF Based
<1>2. ASSUME NEW i \in DOMAIN Segments(f), NEW a \in Own(f, i), i < n
      PROVE  m[b + a] = mem[b + a]
  <2>1. b + a \in Addrs /\ Content(f, i, a) # TmpByte
    BY <1>1, OwnInArea, Zenon DEF Based
  <2>2. mem[b + a] # TmpByte
    BY <1>2, <2>1, Zenon DEF Holds
  <2> QED BY <2>1, <2>2, Zenon
<1> QED BY <1>2, HoldsStill, Zenon

(* The result of load_elf_binary is right when all segments are mapped. *)
LEMMA FinishLoad ==
  ASSUME LoadInv, MapInv', Finish
  PROVE  LoadInv'
<1>1. /\ pc = "finish" /\ info' = Info(main, bias) /\ pc' = "done" /\ retval' = "ok"
      /\ mem' = [a \in Addrs |-> IF mem[a] = TmpByte THEN Free ELSE mem[a]]
      /\ UNCHANGED <<main, interp, seg, bias>>
  BY Zenon DEF Finish
<1>2. /\ WellFormed(main) /\ WellFormed(interp) /\ ("interp" \in fds <=> HasInterp(main))
      /\ Based(main, bias[1]) /\ Holds(main, Len(Segments(main)) + 1, bias[1], mem)
      /\ HasInterp(main) =>
           Based(interp, bias[2]) /\ Holds(interp, Len(Segments(interp)) + 1, bias[2], mem)
      /\ HeadersApart(main)
  BY <1>1, Zenon DEF LoadInv, MapInv, LoaderTyped
<1>3. Holds(main, Len(Segments(main)) + 1, bias[1], mem')
  BY <1>1, <1>2, FreeHolds, Zenon
<1>4. HasInterp(main) => Holds(interp, Len(Segments(interp)) + 1, bias[2], mem')
  BY <1>1, <1>2, FreeHolds, Zenon
<1>5. ASSUME NEW f, NEW b, WellFormed(f), f.phok, Holds(f, Len(Segments(f)) + 1, b, mem'),
             NEW i \in DOMAIN Loads(f)
      PROVE  SegmentRight(f, i, b)'
  <2>1. Segments(f) = Loads(f) /\ i < Len(Segments(f)) + 1
    BY <1>5, SegmentsTyped DEF Segments
  <2>2. \A a \in Own(f, i) : mem'[b + a] = Content(f, i, a)
    BY <1>5, <2>1, Zenon DEF Holds
  <2> QED BY <1>5, <2>1, <2>2, OwnBytes, Zenon DEF SegmentRight, Content
<1>6. info'.exec_entry = IF HasInterp(main) THEN bias[2] + interp.entry ELSE bias[1] + main.entry
  BY <1>1, <1>2, Zenon DEF Info
<1>7. ASSUME Segments(main) # <<>>, Segments(main)[1].off <= main.phoff,
             main.phoff < Segments(main)[1].off + Segments(main)[1].filesz
      PROVE  mem'[info'.phdr] = Byte(main, main.phoff)
  <2> DEFINE p == Segments(main)[1]
             a == p.vaddr + main.phoff - p.off
  <2>1. 1 \in DOMAIN Segments(main) /\ 1 < Len(Segments(main)) + 1 /\ Segments(main) = Loads(main)
    BY <1>2, <1>7, SegmentRange DEF Segments
  <2>2. p.vaddr \in Nat /\ p.off \in Nat /\ p.filesz \in Nat /\ p.memsz \in Nat /\ p.filesz <= p.memsz
    BY <1>2, <2>1, SegmentsTyped, Zenon
  <2>3. main.phoff \in Nat
    BY <1>2, <2>1, Zenon DEF WellFormed
  <2>4. a \in p.vaddr .. p.vaddr + p.memsz - 1 /\ a \in Int /\ a - p.vaddr < p.filesz
        /\ p.off + a - p.vaddr = main.phoff
    <3>1. ASSUME NEW v \in Nat, NEW o \in Nat, NEW s \in Nat, NEW w \in Nat, NEW h \in Nat,
                 s <= w, o <= h, h < o + s
          PROVE  /\ v + h - o \in v .. v + w - 1 /\ v + h - o \in Int /\ (v + h - o) - v < s
                 /\ o + (v + h - o) - v = h
      BY <3>1
    <3> HIDE DEF p
    <3>2. p.off <= main.phoff /\ main.phoff < p.off + p.filesz
      BY <1>7, Zenon DEF p
    <3> QED BY <2>2, <2>3, <3>1, <3>2
  <2>5. \A k \in 1 + 1 .. Len(Segments(main)) : a < AlignDown(Segments(main)[k].vaddr)
    BY <1>2, <2>1, SMTT(60) DEF HeadersApart
  <2>6. a \in Own(main, 1)
    BY <2>4, <2>5, Zenon DEF Own
  <2>7. mem'[bias[1] + a] = Content(main, 1, a)
    BY <1>3, <2>1, <2>6, Zenon DEF Holds
  <2>8. Content(main, 1, a) = Byte(main, main.phoff)
    BY <2>4, Zenon DEF Content
  <2>9. info'.phdr = p.vaddr - p.off + bias[1] + main.phoff
    BY <1>1, <1>7, Zenon DEF Info
  <2>10. info'.phdr = bias[1] + a
    <3>1. bias[1] \in Int
      BY <1>2, Zenon DEF Based
    <3> QED BY <2>2, <2>3, <2>9, <3>1
  <2> QED BY <2>7, <2>8, <2>10, Zenon
<1>8. EntryRight'
  BY <1>1, <1>6, <1>7, Zenon DEF EntryRight
<1>9. LoadedRight'
  <2>1. ASSUME main.phok, NEW i \in DOMAIN Loads(main)
        PROVE  SegmentRight(main, i, bias[1])'
    BY <1>1, <1>2, <1>3, <1>5, <2>1, Zenon
  <2>2. ASSUME HasInterp(main), interp.phok, NEW i \in DOMAIN Loads(interp)
        PROVE  SegmentRight(interp, i, bias[2])'
    BY <1>1, <1>2, <1>4, <1>5, <2>2, Zenon
  <2> QED BY <1>1, <1>8, <2>1, <2>2, Zenon DEF LoadedRight
<1> QED BY <1>1, <1>9, Zenon DEF LoadInv

(* Every step of main keeps LoadInv. *)
LEMMA StepLoad ==
  LoadInv /\ [StartNext]_allVars => LoadInv'
<1> SUFFICES ASSUME LoadInv, [StartNext]_allVars
             PROVE  LoadInv'
  BY Zenon
<1>0. MapInv'
  BY StepMaps, Zenon DEF LoadInv
<1>1. CASE OpenMain
  BY <1>0, <1>1, EarlyLoad, LeaveLoad, Zenon DEF OpenMain, LoadInv
<1>2. CASE ReadEhdr
  BY <1>0, <1>2, EarlyLoad, LeaveLoad, Zenon DEF ReadEhdr, LoadInv
<1>3. CASE ReadPhdrs
  BY <1>0, <1>3, PhdrsLoad, Zenon DEF ReadPhdrs, LoadInv
<1>4. CASE OpenInterp
  BY <1>0, <1>4, EarlyLoad, LeaveLoad, Zenon DEF OpenInterp, LoadInv
<1>5. CASE ReadInterp
  BY <1>0, <1>5, PhdrsLoad, LeaveLoad, ZenonT(30) DEF ReadInterp, LoadInv
<1>6. CASE UNCHANGED vars
  <2>1. LoadedRight'
    <3>1. LoadedRight
      BY Zenon DEF LoadInv
    <3>2. /\ main' = main /\ interp' = interp /\ bias' = bias /\ retval' = retval
          /\ mem' = mem /\ info' = info
      BY <1>6, Zenon DEF vars
    <3>3. ASSUME NEW f, NEW i, NEW b
          PROVE  SegmentRight(f, i, b)' = SegmentRight(f, i, b)
      BY <3>2, Zenon DEF SegmentRight
    <3>4. EntryRight' = EntryRight
      BY <3>2, Zenon DEF EntryRight
    <3> QED BY <3>1, <3>2, <3>3, <3>4, Zenon DEF LoadedRight
  <2> QED BY <1>0, <1>6, <2>1, Zenon DEF LoadInv, vars
<1>7. load_elf_binary \/ UNCHANGED vars
  BY Zenon DEF StartNext, LoadProgram, Handshake, BuildStack, EnterGuest, CloneThread, allVars
<1> QED BY <1>0, <1>1, <1>2, <1>3, <1>4, <1>5, <1>6, <1>7,
           MainBiasLoad, InterpBiasLoad, MapMainLoad, MapInterpLoad, FinishLoad, Zenon
     DEF load_elf_binary

(* A program that load_elf_binary reports as loaded is loaded: every       *)
(* segment of it and of its interpreter has the file's bytes and zeros     *)
(* behind them, neither has damaged the other, and entry and AT_PHDR are   *)
(* right, for every page size, program and choice of the kernel.           *)
THEOREM LoaderLoadsRight == StartSpec => []LoadedRight
<1>1. StartInit => LoadInv
  BY InitLoad, Zenon DEF StartInit
<1>2. LoadInv => LoadedRight
  BY Zenon DEF LoadInv
<1> QED BY <1>1, <1>2, StepLoad, PTL DEF StartSpec
==============================================================================
