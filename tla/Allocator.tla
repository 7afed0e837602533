------------------------------ MODULE Allocator ------------------------------
(***************************************************************************)
(* What mem_alloc_code and mem_alloc_data promise their callers            *)
(* (client/memory.h): each successful call yields a region of the arena    *)
(* that is aligned as requested and overlaps no earlier one.               *)
(***************************************************************************)
EXTENDS Integers, Sequences

CONSTANTS Start, End, Sizes, Alignments, MinAlign

VARIABLE regions   \* the regions handed out so far, oldest first

Overlap(r, s) == r.base < s.base + s.size /\ s.base < r.base + r.size

Init == regions = <<>>

Alloc(base, size, align) ==
  /\ base + size <= End
  /\ base % align = 0
  /\ LET r == [base |-> base, size |-> size, align |-> align]
     IN  /\ \A i \in DOMAIN regions : ~Overlap(r, regions[i])
         /\ regions' = Append(regions, r)

Next ==
  \E base \in Start .. End, size \in Sizes, align \in Alignments \union {MinAlign} :
    Alloc(base, size, align)

Spec == Init /\ [][Next]_regions
==============================================================================
