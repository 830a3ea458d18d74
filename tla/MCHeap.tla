------------------------------- MODULE MCHeap -------------------------------
(***************************************************************************)
(* An instance of HeapClient for TLC.  The requests need blocks of two,    *)
(* three and four doublewords, besides the request of nothing.             *)
(*                                                                         *)
(* Words inside free blocks, past the break and in the last part of a      *)
(* payload without a pattern stay as they were written, but nothing        *)
(* depends on them while HeapTiled holds: the package reads tags at the    *)
(* edges of blocks only, and memcpy reads whole payloads whose remainder   *)
(* the client does not rely on.  The view leaves them out, and a failed    *)
(* call, after which the client goes on as after any other.                *)
(***************************************************************************)
EXTENDS HeapClient, TLC

CONSTANT High           \* the one index whose low byte is 0x80 or more

OwnByte == [i \in Indices |-> i]

Alike == Permutations(Indices \ {High})

Relied ==
  {a \in Addr :
     \/ a \in heap.blocks \union {heap.brk}
     \/ \E i \in Indices :
          held[i].ptr < a /\ a <= held[i].ptr + Doublewords(held[i].size)}

Reduced(w) == [a \in Relied |-> w[a]]

View == <<Reduced(heap.hdr), Reduced(heap.ftr), heap.brk, heap.next,
          heap.blocks, held, ranges,
          IF errors.what = "failed" THEN NoError ELSE errors>>

=============================================================================
