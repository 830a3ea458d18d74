----------------------------- MODULE HeapClient -----------------------------
(***************************************************************************)
(* The client of the malloc package that eval_mm_valid of lab3/mdriver.c   *)
(* is, for every trace: it checks what it is given against its range list, *)
(* checks that realloc kept the contents, fills the block, and starts anew *)
(* for the next trace.  A block it complains of ends the trace.  Unlike    *)
(* mdriver.c it goes on after a result of NULL, and also calls realloc for *)
(* an index without a block.                                               *)
(***************************************************************************)
EXTENDS Heap, Ranges, FiniteSets

CONSTANTS
  Indices,      \* the blocks a client tells apart (the index of a trace)
  Requests,     \* the sizes the client asks for, in bytes
  LowByte,      \* index & 0xFF for every index, 0 to 255
  Negative      \* the bytes from 0x80 on, negative as a char of the machine

ASSUME RequestsAssumption == Requests \subseteq Nat
ASSUME LowByteAssumption == LowByte \in [Indices -> Patterns]
ASSUME NegativeAssumption == Negative \subseteq Patterns

VARIABLES
  heap,
  held,         \* trace->blocks and trace->block_sizes
  ranges,
  errors        \* what malloc_error said of the last request

vars == <<heap, held, ranges, errors>>

Free == [ptr |-> NULL, size |-> 0]

Block == [ptr : Addr \union {NULL}, size : Nat]

(***************************************************************************)
(* malloc_error counts and prints; the driver looks only whether it was    *)
(* called.  It says that a call failed, that a block is outside the heap   *)
(* or overlaps another, or that realloc did not preserve the data.  The    *)
(* last two leave a trace whose blocks nothing reads again.                *)
(***************************************************************************)
Complaints == {"none", "failed", "range", "data"}
Complaint == [what : Complaints, index : Indices \union {None}]

NoError == [what |-> "none", index |-> None]

malloc_error(what, i) == errors' = [what |-> what, index |-> i]

Over == errors.what \in {"range", "data"}

TypeOK ==
  /\ heap \in HeapType
  /\ held \in [Indices -> Block]
  /\ ranges \in Seq([lo : Nat, hi : Nat])
  /\ errors \in Complaint

Blank == [a \in Addr |-> Tag(0, FALSE)]

(* mem_init: the memory before the package is used. *)
mem_init == [hdr |-> Blank, ftr |-> Blank, brk |-> 0, next |-> 1, blocks |-> {}]

Init ==
  /\ heap = mm_init(mem_init)
  /\ held = [i \in Indices |-> Free]
  /\ ranges = clear_ranges
  /\ errors = NoError

-----------------------------------------------------------------------------
BlockExtent(b) == Extent(DSIZE * b.ptr, b.size)

mem_heapsize(h) == DSIZE * h.brk

(* What mdriver.c fills with the low byte of the index. *)
Filled(h, b, i) == memset(h, b.ptr, LowByte[i], Doublewords(b.size))

(* The first n bytes of b are the byte c. *)
Holds(h, b, n, c) ==
  \A k \in 1 .. Doublewords(n) :
    h.hdr[b.ptr + k] = Data(c) /\ h.ftr[b.ptr + k] = Data(c)

(***************************************************************************)
(* newp[j] != (index & 0xFF) for some j below n.  newp points to chars,    *)
(* which are signed: one that holds a byte from 0x80 on is a negative int, *)
(* and differs from the byte it was filled with.                           *)
(***************************************************************************)
NotPreserved(h, b, n, i) ==
  n > 0 /\ (LowByte[i] \in Negative \/ ~Holds(h, b, n, LowByte[i]))

(* The call returned NULL: there is no block to check. *)
Failed(h, i) ==
  /\ heap' = h
  /\ malloc_error("failed", i)
  /\ UNCHANGED <<held, ranges>>

(* The checks of the new block b of index i, whose old contents are n      *)
(* bytes; rest are the ranges without the old block.                       *)
Checked(h, b, n, i, rest) ==
  LET e == BlockExtent(b)
      refused == Refused(rest, e, mem_heapsize(h))
  IN  /\ ranges' = add_range(rest, e, mem_heapsize(h))
      /\ IF refused \/ NotPreserved(h, b, n, i)
         THEN /\ heap' = h /\ held' = held
              /\ malloc_error(IF refused THEN "range" ELSE "data", i)
         ELSE /\ heap' = Filled(h, b, i)
              /\ held' = [held EXCEPT ![i] = b]
              /\ errors' = NoError

Alloc(i, n) ==
  /\ ~Over
  /\ held[i] = Free
  /\ LET r == mm_malloc(heap, n)
     IN  IF r.ptr = NULL THEN Failed(r.heap, i)
         ELSE Checked(r.heap, [ptr |-> r.ptr, size |-> n], 0, i, ranges)

Release(i) ==
  /\ ~Over
  /\ held[i] # Free
  /\ ranges' = remove_range(ranges, BlockExtent(held[i]).lo)
  /\ heap' = mm_free(heap, held[i].ptr)
  /\ held' = [held EXCEPT ![i] = Free]
  /\ errors' = NoError

(* A request of nothing frees the block, and its NULL counts as a failure. *)
ReallocNothing(i) ==
  /\ heap' = mm_realloc(heap, held[i].ptr, 0).heap
  /\ ranges' = remove_range(ranges, BlockExtent(held[i]).lo)
  /\ held' = [held EXCEPT ![i] = Free]
  /\ malloc_error("failed", i)

Realloc(i, n) ==
  LET r == mm_realloc(heap, held[i].ptr, n)
      oldsize == IF n < held[i].size THEN n ELSE held[i].size
  IN  /\ ~Over
      /\ IF n = 0 THEN ReallocNothing(i)
         ELSE IF r.ptr = NULL THEN Failed(r.heap, i)
         ELSE Checked(r.heap, [ptr |-> r.ptr, size |-> n], oldsize, i,
                      remove_range(ranges, BlockExtent(held[i]).lo))

NextTrace ==
  /\ heap' = mm_init(heap)
  /\ held' = [i \in Indices |-> Free]
  /\ ranges' = clear_ranges
  /\ errors' = NoError

Next ==
  \/ \E i \in Indices, n \in Requests : Alloc(i, n) \/ Realloc(i, n)
  \/ \E i \in Indices : Release(i)
  \/ NextTrace

Spec == Init /\ [][Next]_vars

-----------------------------------------------------------------------------
(* The blocks tile the heap from the prologue to the epilogue and each     *)
(* footer equals its header, as mm_check and checkblock look for: no       *)
(* client write, split or join damages a tag, and the walk from header to  *)
(* header meets the blocks and nothing else.                               *)
HeapTiled ==
  /\ heap_listp \in heap.blocks
  /\ heap.hdr[heap_listp] = Tag(1, TRUE)
  /\ heap.hdr[heap.brk] = Tag(0, TRUE)
  /\ \A b \in heap.blocks :
       /\ heap.ftr[NextBlock(heap, b)] = heap.hdr[b]
       /\ b # heap_listp => Size(heap, b) >= 2
       /\ NextBlock(heap, b) \in heap.blocks \union {heap.brk}
       /\ \A c \in heap.blocks : c <= b \/ NextBlock(heap, b) <= c

(* Freed space is joined at once: no two neighbouring blocks are free.     *)
Coalesced ==
  \A b \in heap.blocks : Allocated(heap, b) \/ Allocated(heap, NextBlock(heap, b))

(* "Make sure the nextFit_pointer isn't pointing into the free block that  *)
(* we just coalesced": the search never starts inside a block.             *)
NextFitIsBlock == heap.next \in heap.blocks

(* The allocated blocks are those the client holds, each held once: no     *)
(* block is lost by realloc and none is handed out twice.                  *)
AllocatedAreHeld ==
  ~Over =>
    /\ \A b \in heap.blocks \ {heap_listp} :
         Allocated(heap, b) <=> \E i \in Indices : held[i].ptr = b
    /\ \A i, j \in Indices : held[i].ptr = held[j].ptr /\ held[i] # Free => i = j
    /\ \A i \in Indices : held[i] # Free => held[i].ptr \in heap.blocks \ {heap_listp}

(* What the client wrote is there until it frees the block, whatever the   *)
(* package does to the blocks around it.                                   *)
ContentsKept ==
  ~Over => \A i \in Indices : Holds(heap, held[i], held[i].size, LowByte[i])

(* The driver complains of no block that it should not: none is outside    *)
(* the heap or overlaps another, and realloc preserves the data of the old *)
(* block though the search, the split and the joins run in between.  The   *)
(* exception is the driver's own: where the low byte of the index is 0x80  *)
(* or more, its comparison of a signed char with that byte fails for every *)
(* block, and it reports a realloc that did preserve the data.             *)
NoErrors ==
  /\ errors.what # "range"
  /\ errors.what = "data" => LowByte[errors.index] \in Negative

(* The range list has one record for each block of the trace and no other, *)
(* through every order of allocation, move and release: a record left over *)
(* would condemn a good block, a lost one would let an overlap pass.       *)
RangesAreHeld ==
  LET live == {i \in Indices : held[i] # Free}
  IN  ~Over =>
        /\ Len(ranges) = Cardinality(live)
        /\ {ranges[k] : k \in DOMAIN ranges} = {BlockExtent(held[i]) : i \in live}

(* For each index the bytes it holds, from the start of the memory.        *)
payload ==
  [i \in Indices |->
     DSIZE * held[i].ptr .. DSIZE * held[i].ptr + held[i].size - 1]

(* The package keeps the promise of an allocator: the blocks of mm.c, with *)
(* its joins, splits and moves, give every index aligned bytes of its own. *)
Promise == INSTANCE Allocator WITH payload <- payload

Promised == Promise!Spec

=============================================================================
