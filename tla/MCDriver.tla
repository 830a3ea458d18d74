------------------------------ MODULE MCDriver ------------------------------
(***************************************************************************)
(* An instance of Driver for TLC.  The view leaves out what nothing reads  *)
(* any more: the words that MCHeap leaves out, the contents of blocks      *)
(* outside the first replay, the counts outside the second, the results of *)
(* earlier traces, what the driver said of the last request, and between   *)
(* two traces all but the next-fit pointer.                                *)
(***************************************************************************)
EXTENDS Driver, TLC

OwnByte == [i \in Indices |-> i]

Alike == Permutations(Indices)

Replaying == pass \in {"valid", "util", "speed"}

Relied ==
  heap.blocks \union {heap.brk} \union
    (IF pass # "valid" THEN {}
     ELSE {a \in Addr : \E i \in Indices :
             held[i].ptr < a /\ a <= held[i].ptr + Doublewords(held[i].size)})

Reduced(w) == [a \in Relied |-> w[a]]

View ==
  <<pass, tracenum, trace, heap.next,
    IF Replaying
    THEN <<Reduced(heap.hdr), Reduced(heap.ftr), heap.brk, heap.blocks,
           held, ranges, op, runs, seen>>
    ELSE << >>,
    IF pass = "util" THEN counts ELSE << >> >>

=============================================================================
