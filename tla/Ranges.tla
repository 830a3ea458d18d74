------------------------------- MODULE Ranges -------------------------------
(***************************************************************************)
(* The range list of lab3/mdriver.c: the extent of every payload, newest   *)
(* first, against which the driver checks what the package hands out.      *)
(* Addresses are in bytes from the start of the simulated memory.          *)
(***************************************************************************)
EXTENDS Integers, SequencesExt

Extent(lo, size) == [lo |-> lo, hi |-> lo + size - 1]

(* Both ends are compared with the extent of the heap. *)
OutsideHeap(e, heapsize) ==
  \E a \in {e.lo, e.hi} : a < 0 \/ a > heapsize - 1

(* Only the ends of the new payload are compared with an old one.          *)
Overlaps(e, p) ==
  \E a \in {e.lo, e.hi} : p.lo <= a /\ a <= p.hi

(* add_range complains about the payload e, and then does not record it.   *)
Refused(ranges, e, heapsize) ==
  \/ OutsideHeap(e, heapsize)
  \/ \E k \in DOMAIN ranges : Overlaps(e, ranges[k])

add_range(ranges, e, heapsize) ==
  IF Refused(ranges, e, heapsize) THEN ranges ELSE <<e>> \o ranges

(* Mutant: the link to mend stays at the head of the list. *)
remove_rangeToHead(ranges, lo) ==
  IF \E k \in DOMAIN ranges : ranges[k].lo = lo
  THEN SubSeq(ranges, 1 + SelectInSeq(ranges, LAMBDA p : p.lo = lo), Len(ranges))
  ELSE ranges

remove_range(ranges, lo) == RemoveFirstMatch(ranges, LAMBDA p : p.lo = lo)

clear_ranges == <<>>

=============================================================================
