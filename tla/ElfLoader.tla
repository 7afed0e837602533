------------------------------ MODULE ElfLoader ------------------------------
(***************************************************************************)
(* load_elf_binary of client/elf-loader.c: the guest program, and the      *)
(* interpreter it names, are mapped into the client's own address space,   *)
(* next to the client, its arena and the loader's temporary maps.          *)
(*                                                                         *)
(* Memory is a function from addresses to what is there, with a page size  *)
(* of a few bytes.  The kernel is external: it puts a map without a fixed  *)
(* address on any free pages from MmapBase on, and may refuse a call.      *)
(***************************************************************************)
EXTENDS Integers, Sequences, FiniteSets

CONSTANTS
  PageSize,   \* getpagesize()
  MmapBase,   \* where the kernel starts to hand out addresses
  Top,        \* bound: end of the address space
  Client,     \* addresses of the client itself
  Programs,   \* guest programs, each with the file its interpreter's name denotes
  MayRefuse   \* the kernel may refuse a call

ASSUME ElfAssumption ==
  /\ PageSize \in Nat \ {0} /\ MmapBase \in Nat /\ Top \in Nat
  /\ MmapBase % PageSize = 0 /\ Top % PageSize = 0 /\ MmapBase < Top
  /\ Client \subseteq MmapBase .. Top - 1

VARIABLES
  main,     \* the program file
  interp,   \* the file under the interpreter's name
  pc,       \* the next step of load_elf_binary
  seg,      \* the program header the current loop is at
  bias,     \* load_bias of the program and of the interpreter
  retval,   \* 0, or the name of the error
  fds,      \* open files: "main", "interp"
  tmp,      \* temporary maps: name -> address
  mem,      \* what is at an address
  info      \* BinaryInfo

vars == <<main, interp, pc, seg, bias, retval, fds, tmp, mem, info>>

Addrs == 0 .. Top - 1
Free == -1
ClientByte == -2
TmpByte == -3

AlignDown(a) == a - (a % PageSize)
AlignUp(a) == AlignDown(a + PageSize - 1)

(* What byte off of a file is; the rest of its last page is 0. *)
Byte(f, off) == IF off < f.size THEN 100 * f.id + off + 1 ELSE 0

(* The pages that the kernel may choose for a map of size bytes. *)
Places(m, size) ==
  {a \in MmapBase .. Top - 1 :
     /\ a % PageSize = 0 /\ a + AlignUp(size) <= Top
     /\ \A x \in a .. a + AlignUp(size) - 1 : m[x] = Free}

Fill(m, from, to, byte) == [a \in Addrs |-> IF a \in from .. to - 1 THEN byte ELSE m[a]]
Unmapped(m, a) == Fill(m, a, a + PageSize, Free)

Loads(f) == SelectSeq(f.phdrs, LAMBDA p : p.type = "load")

(* What linkers write: segments ascend and do not overlap (the ELF         *)
(* specification), and those with a fixed address are below what the       *)
(* kernel hands out.                                                       *)
ProgramHeaders ==
  [type : {"load", "interp"}, vaddr : Nat, off : Nat, filesz : Nat, memsz : Nat, w : BOOLEAN]
EndOfLoad(p) == p.vaddr + p.memsz
WellFormed(f) ==
  /\ f.id \in Nat /\ f.phoff \in Nat /\ f.type \in {"EXEC", "DYN"}
  /\ Loads(f) \in Seq(ProgramHeaders)
  /\ \A i \in DOMAIN Loads(f) :
       /\ Loads(f)[i].filesz <= Loads(f)[i].memsz
       /\ f.type = "EXEC" => EndOfLoad(Loads(f)[i]) <= MmapBase
  /\ \A i, k \in DOMAIN Loads(f) : i < k => EndOfLoad(Loads(f)[i]) <= Loads(f)[k].vaddr

(* Two programs with fixed addresses share no page, and the page with the  *)
(* program headers belongs to the first segment alone.                     *)
Apart(f, g) ==
  f.type = "EXEC" /\ g.type = "EXEC" =>
    \A i \in DOMAIN Loads(f), k \in DOMAIN Loads(g) :
      \/ EndOfLoad(Loads(f)[i]) <= AlignDown(Loads(g)[k].vaddr)
      \/ AlignUp(EndOfLoad(Loads(g)[k])) <= Loads(f)[i].vaddr
HeadersApart(f) ==
  \A k \in 2 .. Len(Loads(f)) :
    Loads(f)[1].vaddr + f.phoff - Loads(f)[1].off < AlignDown(Loads(f)[k].vaddr)

ASSUME ProgramsAssumption ==
  \A p \in Programs :
    WellFormed(p[1]) /\ WellFormed(p[2]) /\ Apart(p[1], p[2]) /\ HeadersApart(p[1])

Init ==
  /\ \E p \in Programs : main = p[1] /\ interp = p[2]
  /\ pc = "open" /\ seg = 1 /\ bias = <<0, 0>> /\ retval = "ENOEXEC"
  /\ fds = {} /\ tmp = <<>>
  /\ mem = [a \in Addrs |-> IF a \in Client THEN ClientByte ELSE Free]
  /\ info = [elf_entry |-> 0, exec_entry |-> 0, phdr |-> 0]

HasInterp(f) == f.phok /\ \E i \in DOMAIN f.phdrs : f.phdrs[i].type = "interp"

(* The program headers as read: elf_read does not notice a short read, and *)
(* the map they are read to is 0.                                          *)
Segments(f) == IF f.phok THEN Loads(f) ELSE <<>>

----------------------------------------------------------------------------

(* out_free_ph, out_close with memory m: temporary maps and files go. *)
Leave(err, m) ==
  /\ pc' = "done" /\ retval' = err
  /\ fds' = {} /\ tmp' = <<>>
  /\ mem' = [a \in Addrs |-> IF m[a] = TmpByte THEN Free ELSE m[a]]
  /\ UNCHANGED <<main, interp, seg, bias, info>>

OpenMain ==
  /\ pc = "open"
  /\ \/ /\ pc' = "ehdr" /\ fds' = {"main"}
        /\ UNCHANGED <<main, interp, seg, bias, retval, tmp, mem, info>>
     \/ MayRefuse /\ Leave("open", mem)

(* The file header: magic, class and type. *)
ReadEhdr ==
  /\ pc = "ehdr"
  /\ \/ /\ main.ehok /\ pc' = "phdrs"
        /\ UNCHANGED <<main, interp, seg, bias, retval, fds, tmp, mem, info>>
     \/ ~main.ehok /\ Leave("ENOEXEC", mem)

(* load_elf_phdrs *)
LoadPhdrs(f, name, next, err) ==
  \/ /\ f.phentok
     /\ \E a \in Places(mem, PageSize) :
          /\ tmp' = [n \in DOMAIN tmp \union {name} |-> IF n = name THEN a ELSE tmp[n]]
          /\ mem' = Fill(mem, a, a + PageSize, TmpByte)
     /\ pc' = next
     /\ UNCHANGED <<main, interp, seg, bias, retval, fds, info>>
  \/ (~f.phentok \/ MayRefuse) /\ Leave(err, mem)

ReadPhdrs == pc = "phdrs" /\ LoadPhdrs(main, "phdata", "interp", "ENOEXEC")

(* The name of the interpreter, below the sysroot first and then as it is; *)
(* which of the two was opened makes no difference here.                   *)
OpenInterp ==
  /\ pc = "interp"
  /\ \/ /\ ~HasInterp(main) /\ pc' = "bias"
        /\ UNCHANGED <<main, interp, seg, bias, retval, fds, tmp, mem, info>>
     \/ /\ HasInterp(main) /\ main.nameok
        /\ pc' = "iehdr" /\ fds' = fds \union {"interp"} /\ retval' = "ELIBBAD"
        /\ UNCHANGED <<main, interp, seg, bias, tmp, mem, info>>
     \/ HasInterp(main) /\ (~main.nameok \/ MayRefuse) /\ Leave("ENOENT", mem)

ReadInterp ==
  /\ pc = "iehdr"
  /\ IF interp.ehok /\ interp.machine = main.machine
     THEN LoadPhdrs(interp, "interp_phdata", "bias", "ELIBBAD")
     ELSE Leave("ELIBBAD", mem)

----------------------------------------------------------------------------
(* Mapping *)

(* Mutant: the size of the first segment only. *)
ExtentFirst(f) ==
  LET s == Segments(f)
  IN  IF s = <<>> THEN <<0, 0>>
      ELSE <<AlignDown(s[1].vaddr), s[1].vaddr + s[1].memsz>>

(* The first page and the end that elf_determine_load_bias reserves: of    *)
(* the first and of the last PT_LOAD.                                      *)
Extent(f) ==
  LET s == Segments(f)
  IN  IF s = <<>> THEN <<0, 0>>
      ELSE <<AlignDown(s[1].vaddr), s[Len(s)].vaddr + s[Len(s)].memsz>>

(* elf_determine_load_bias: the reservation is given back at once.  The    *)
(* difference may be negative, which the code's unsigned sum wraps.        *)
Biases(f) ==
  IF f.type = "EXEC" THEN {0}
  ELSE {a - Extent(f)[1] : a \in Places(mem, Extent(f)[2] - Extent(f)[1])}
BadBias(f) == f.type = "DYN" /\ (Extent(f)[1] >= Extent(f)[2] \/ MayRefuse)

(* which: 1 for the program, 2 for the interpreter. *)
ChooseBias(f, which, next) ==
  \/ /\ f.type = "DYN" => Extent(f)[1] < Extent(f)[2]
     /\ \E b \in Biases(f) : bias' = [bias EXCEPT ![which] = b]
     /\ pc' = next /\ seg' = 1
     /\ UNCHANGED <<main, interp, retval, fds, tmp, mem, info>>
  \/ BadBias(f) /\ Leave("bias", mem)

MainBias == pc = "bias" /\ ChooseBias(main, 1, "map")
InterpBias == pc = "ibias" /\ ChooseBias(interp, 2, "imap")

(* Mutant: the tail of the last page with data keeps the file's bytes. *)
ClearedNot(m, p, addr) == m

(* The pages of the file. *)
FileMem(f, p, addr) ==
  [a \in Addrs |->
     IF a \in AlignDown(addr) .. AlignUp(addr + p.filesz) - 1
     THEN Byte(f, AlignDown(p.off) + a - AlignDown(addr)) ELSE mem[a]]

(* The end of what is cleared: of the segment, or of its last page if it   *)
(* is writable; the page with the end of the file's bytes is cleared by a  *)
(* memset, further pages are new.                                          *)
AllocEnd(p, addr) == IF p.w THEN AlignUp(addr + p.memsz) ELSE addr + p.memsz
ZeroPage(p, addr) ==
  IF AllocEnd(p, addr) < AlignUp(addr + p.filesz) THEN AllocEnd(p, addr)
  ELSE AlignUp(addr + p.filesz)
Cleared(m, p, addr) == Fill(m, addr + p.filesz, ZeroPage(p, addr), 0)
ZeroMem(m, p, addr) ==
  IF AllocEnd(p, addr) > ZeroPage(p, addr)
  THEN Fill(m, ZeroPage(p, addr), AlignUp(AllocEnd(p, addr)), 0) ELSE m

(* elf_map for the next PT_LOAD; when a call is refused, what was mapped   *)
(* before stays, and the start is given up.                                *)
MapSegment(f, which, last) ==
  LET p == Segments(f)[seg]
      addr == bias[which] + p.vaddr
      aligned == p.vaddr % PageSize = p.off % PageSize
      filled == Cleared(FileMem(f, p, addr), p, addr)
  IN  \/ /\ seg <= Len(Segments(f)) /\ aligned
         /\ mem' = ZeroMem(filled, p, addr)
         /\ seg' = seg + 1
         /\ UNCHANGED <<main, interp, pc, bias, retval, fds, tmp, info>>
      \/ seg <= Len(Segments(f)) /\ (~aligned \/ MayRefuse) /\ Leave("map", mem)
      \/ seg <= Len(Segments(f)) /\ aligned /\ MayRefuse /\ Leave("map", filled)
      \/ seg > Len(Segments(f)) /\ last

(* out_info; load_addr is where the start of the file would be. *)
Info(f, b) ==
  [elf_entry |-> b[1] + f.entry,
   exec_entry |-> IF "interp" \in fds THEN b[2] + interp.entry ELSE b[1] + f.entry,
   phdr |-> IF Segments(f) = <<>> THEN f.phoff
            ELSE Segments(f)[1].vaddr - Segments(f)[1].off + b[1] + f.phoff]

MainMapped ==
  /\ pc' = IF "interp" \in fds THEN "ibias" ELSE "finish"
  /\ UNCHANGED <<main, interp, seg, bias, retval, fds, tmp, mem, info>>
InterpMapped ==
  /\ pc' = "finish" /\ UNCHANGED <<main, interp, seg, bias, retval, fds, tmp, mem, info>>

MapMain == pc = "map" /\ MapSegment(main, 1, MainMapped)
MapInterp == pc = "imap" /\ MapSegment(interp, 2, InterpMapped)

Finish ==
  /\ pc = "finish"
  /\ info' = Info(main, bias)
  /\ pc' = "done" /\ retval' = "ok" /\ fds' = {} /\ tmp' = <<>>
  /\ mem' = [a \in Addrs |-> IF mem[a] = TmpByte THEN Free ELSE mem[a]]
  /\ UNCHANGED <<main, interp, seg, bias>>

load_elf_binary ==
  \/ OpenMain \/ ReadEhdr \/ ReadPhdrs \/ OpenInterp \/ ReadInterp
  \/ MainBias \/ MapMain \/ InterpBias \/ MapInterp \/ Finish

----------------------------------------------------------------------------

(* Byte a of a loaded segment is the file's, or 0 behind the file's part,  *)
(* unless a later segment of the file covers it.                           *)
SegmentRight(f, i, b) ==
  LET p == Loads(f)[i]
      later == UNION {AlignDown(Loads(f)[k].vaddr) .. Loads(f)[k].vaddr + Loads(f)[k].memsz - 1 :
                        k \in i + 1 .. Len(Loads(f))}
  IN  \A a \in (p.vaddr .. p.vaddr + p.memsz - 1) \ later :
        mem[b + a] = IF a - p.vaddr < p.filesz THEN Byte(f, p.off + a - p.vaddr) ELSE 0

(* The guest starts at its interpreter's entry, or at its own, and AT_PHDR *)
(* points to the program headers if the first segment holds them.          *)
EntryRight ==
  /\ info.exec_entry = IF HasInterp(main) THEN bias[2] + interp.entry ELSE bias[1] + main.entry
  /\ Segments(main) # <<>> =>
       LET p == Segments(main)[1]
       IN  p.off <= main.phoff /\ main.phoff < p.off + p.filesz =>
             mem[info.phdr] = Byte(main, main.phoff)

(* A start that is reported as successful has every segment of the program *)
(* and of its interpreter in memory, with the file's bytes and zeros       *)
(* behind them, and the right entry; loading one does not damage the       *)
(* other.  The segments are claimed for readable headers: elf_read reports *)
(* no short read.                                                          *)
LoadedRight ==
  retval = "ok" =>
    /\ EntryRight
    /\ main.phok /\ (HasInterp(main) => interp.phok) =>
         /\ \A i \in DOMAIN Loads(main) : SegmentRight(main, i, bias[1])
         /\ HasInterp(main) => \A i \in DOMAIN Loads(interp) : SegmentRight(interp, i, bias[2])

(* Nothing is mapped over the client, nor over the program headers that    *)
(* the loops are reading, and on every way out of load_elf_binary these    *)
(* temporary maps are gone and the files are closed.                       *)
MapsKept ==
  /\ \A a \in Client : mem[a] = ClientByte
  /\ \A n \in DOMAIN tmp : \A a \in tmp[n] .. tmp[n] + PageSize - 1 : mem[a] = TmpByte
  /\ pc = "done" => fds = {} /\ tmp = <<>> /\ \A a \in Addrs : mem[a] # TmpByte
==============================================================================
