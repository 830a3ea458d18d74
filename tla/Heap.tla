-------------------------------- MODULE Heap --------------------------------
(***************************************************************************)
(* The malloc package of lab3: mm.c on top of the simulated memory of      *)
(* memlib.c.  The routines are operators on the value h of the heap.       *)
(*                                                                         *)
(* Everything the package computes with is a multiple of a doubleword:     *)
(* addresses and block sizes are counted in doublewords, and only the      *)
(* sizes a client asks for are in bytes.  HDRP(bp) and the footer of the   *)
(* block before bp are the two words of the doubleword before bp, so       *)
(* h.hdr[a] and h.ftr[a] are the second and the first word of the          *)
(* doubleword before address a.  A word is a tag, or what a client wrote.  *)
(*                                                                         *)
(* h.blocks is a history of the package's intent: where blocks begin.  The *)
(* walks of find_fit from block to block are written with it, and the      *)
(* invariant HeapTiled of HeapClient shows that a walk through the headers *)
(* meets exactly these addresses in increasing order.                      *)
(***************************************************************************)
EXTENDS Integers

CONSTANTS
  Patterns,     \* the bytes a client fills its blocks with
  None,         \* no pattern: the data of a tag
  Chunk,        \* CHUNKSIZE in doublewords, 512 in the code
  MaxHeap       \* MAX_HEAP in doublewords

ASSUME NoneAssumption == None \notin Patterns
ASSUME ChunkAssumption == Chunk \in Nat /\ Chunk >= 2
ASSUME MaxHeapAssumption == MaxHeap \in Nat /\ Chunk + 2 <= MaxHeap

NULL == 0
DSIZE == 8              \* bytes in a doubleword
heap_listp == 1         \* the prologue block

Addr == 1 .. MaxHeap
Word == [size : 0 .. MaxHeap, alloc : BOOLEAN, data : Patterns \union {None}]

Tag(size, alloc) == [size |-> size, alloc |-> alloc, data |-> None]
Data(c) == [size |-> 0, alloc |-> FALSE, data |-> c]

HeapType == [hdr : [Addr -> Word], ftr : [Addr -> Word], brk : 0 .. MaxHeap,
             next : Addr, blocks : SUBSET Addr]

Size(h, bp) == h.hdr[bp].size
Allocated(h, bp) == h.hdr[bp].alloc
NextBlock(h, bp) == bp + Size(h, bp)
PrevBlock(h, bp) == bp - h.ftr[bp].size

Result(h, bp) == [heap |-> h, ptr |-> bp]

(* The header and the footer of a block of this size at bp. *)
WithTags(h, bp, size, alloc) ==
  [h EXCEPT !.hdr[bp] = Tag(size, alloc), !.ftr[bp + size] = Tag(size, alloc)]

(* Mutants: the block before is not looked at; the next-fit pointer stays  *)
(* where it was; the allocated bit of the block after is not looked at.    *)
coalesceNextOnly(h, bp) ==
  LET after == NextBlock(h, bp)
      joined == WithTags(h, bp, Size(h, bp) + Size(h, after), FALSE)
  IN  IF Allocated(h, after) THEN Result(h, bp)
      ELSE Result([joined EXCEPT !.next = IF @ = after THEN bp ELSE @,
                                 !.blocks = @ \ {after}], bp)

coalesceTakesNext(h, bp) ==
  LET after == NextBlock(h, bp)
      joined == WithTags(h, bp, Size(h, bp) + Size(h, after), FALSE)
  IN  IF after = h.brk THEN Result(h, bp)
      ELSE Result([joined EXCEPT !.next = IF @ = after THEN bp ELSE @,
                                 !.blocks = @ \ {after}], bp)

coalesceKeepsNext(h, bp) ==
  LET after == NextBlock(h, bp)
      joinPrev == ~h.ftr[bp].alloc
      joinNext == ~Allocated(h, after)
      first == IF joinPrev THEN PrevBlock(h, bp) ELSE bp
      size == Size(h, bp) + (IF joinPrev THEN Size(h, first) ELSE 0)
                          + (IF joinNext THEN Size(h, after) ELSE 0)
  IN  IF ~joinPrev /\ ~joinNext
      THEN Result(h, bp)
      ELSE Result([WithTags(h, first, size, FALSE) EXCEPT
             !.blocks = @ \ ((IF joinPrev THEN {bp} ELSE {})
                               \union (IF joinNext THEN {after} ELSE {}))],
             first)

(***************************************************************************)
(* coalesce joins the free block at bp with free neighbours, and moves the *)
(* next-fit pointer out of the joined block.                               *)
(***************************************************************************)
coalesce(h, bp) ==
  LET after == NextBlock(h, bp)
      joinPrev == ~h.ftr[bp].alloc
      joinNext == ~Allocated(h, after)
      first == IF joinPrev THEN PrevBlock(h, bp) ELSE bp
      size == Size(h, bp) + (IF joinPrev THEN Size(h, first) ELSE 0)
                          + (IF joinNext THEN Size(h, after) ELSE 0)
      joined == WithTags(h, first, size, FALSE)
  IN  IF ~joinPrev /\ ~joinNext
      THEN Result(h, bp)
      ELSE Result([joined EXCEPT
             !.next = IF first < @ /\ @ < first + size THEN first ELSE @,
             !.blocks = @ \ ((IF joinPrev THEN {bp} ELSE {})
                               \union (IF joinNext THEN {after} ELSE {}))],
             first)

(* Mutant: the limit is one doubleword too far. *)
extend_heapPastEnd(h, size) ==
  LET bp == h.brk
      grown == [WithTags(h, bp, size, FALSE) EXCEPT
                  !.hdr[bp + size] = Tag(0, TRUE),
                  !.brk = bp + size,
                  !.blocks = @ \union {bp}]
  IN  IF bp + size > MaxHeap + 1 THEN Result(h, NULL) ELSE Result(grown, bp)

(***************************************************************************)
(* extend_heap takes the new space with mem_sbrk, which refuses to pass    *)
(* the end of the memory; the epilogue moves up.                           *)
(***************************************************************************)
extend_heap(h, size) ==
  LET bp == h.brk
      grown == [WithTags(h, bp, size, FALSE) EXCEPT
                  !.hdr[bp + size] = Tag(0, TRUE),
                  !.brk = bp + size,
                  !.blocks = @ \union {bp}]
  IN  IF bp + size > MaxHeap THEN Result(h, NULL) ELSE coalesce(grown, bp)

(* Mutant: the next-fit pointer stays where the last replay left it. *)
mm_initKeepsNext(h) ==
  extend_heap([h EXCEPT !.ftr[1] = Tag(0, FALSE),
                        !.hdr[1] = Tag(1, TRUE), !.ftr[2] = Tag(1, TRUE),
                        !.hdr[2] = Tag(0, TRUE),
                        !.brk = 2, !.blocks = {heap_listp}],
              Chunk).heap

(***************************************************************************)
(* mem_reset_brk and mm_init.  What the memory held before stays in it.    *)
(***************************************************************************)
mm_init(h) ==
  extend_heap([h EXCEPT !.ftr[1] = Tag(0, FALSE),
                        !.hdr[1] = Tag(1, TRUE), !.ftr[2] = Tag(1, TRUE),
                        !.hdr[2] = Tag(0, TRUE),
                        !.brk = 2, !.next = heap_listp, !.blocks = {heap_listp}],
              Chunk).heap

(* Mutant: the rest may be too small for a block. *)
placeAnyRest(h, bp, asize) ==
  LET rest == Size(h, bp) - asize
  IN  IF rest >= 1
      THEN [WithTags(WithTags(h, bp, asize, TRUE), bp + asize, rest, FALSE)
              EXCEPT !.blocks = @ \union {bp + asize}]
      ELSE WithTags(h, bp, Size(h, bp), TRUE)

(***************************************************************************)
(* place splits the block if the rest can be a block.                      *)
(***************************************************************************)
place(h, bp, asize) ==
  LET rest == Size(h, bp) - asize
  IN  IF rest >= 2
      THEN [WithTags(WithTags(h, bp, asize, TRUE), bp + asize, rest, FALSE)
              EXCEPT !.blocks = @ \union {bp + asize}]
      ELSE WithTags(h, bp, Size(h, bp), TRUE)

(***************************************************************************)
(* Next fit: the first free block large enough from the next-fit pointer   *)
(* on, else from the start of the heap.                                    *)
(***************************************************************************)
Fitting(h, asize) ==
  {b \in h.blocks : ~Allocated(h, b) /\ asize <= Size(h, b)}

Lowest(S) == CHOOSE a \in S : \A b \in S : a <= b

find_fit(h, asize) ==
  LET fits == Fitting(h, asize)
      ahead == {b \in fits : h.next <= b}
  IN  IF fits = {} THEN NULL
      ELSE Lowest(IF ahead = {} THEN fits ELSE ahead)

(***************************************************************************)
(* The size of the block for a request of n bytes: a doubleword of tags    *)
(* and the request rounded up, and at least two doublewords.               *)
(***************************************************************************)
Adjusted(n) == IF n <= DSIZE THEN 2 ELSE (n + DSIZE + (DSIZE - 1)) \div DSIZE

mm_malloc(h, n) ==
  LET asize == Adjusted(n)
      fit == find_fit(h, asize)
      extended == extend_heap(h, IF asize > Chunk THEN asize ELSE Chunk)
  IN  IF n = 0 THEN Result(h, NULL)
      ELSE IF fit # NULL
           THEN Result(place([h EXCEPT !.next = fit], fit, asize), fit)
      ELSE IF extended.ptr = NULL THEN extended
      ELSE Result(place(extended.heap, extended.ptr, asize), extended.ptr)

mm_free(h, bp) ==
  IF bp = NULL THEN h
  ELSE coalesce(WithTags(h, bp, Size(h, bp), FALSE), bp).heap

(***************************************************************************)
(* memcpy and memset, in whole doublewords.                                *)
(***************************************************************************)
Doublewords(n) == (n + (DSIZE - 1)) \div DSIZE

CopiedFrom(w, to, from, count) ==
  [a \in Addr |-> IF to < a /\ a <= to + count THEN w[a - to + from] ELSE w[a]]

memcpy(h, to, from, count) ==
  [h EXCEPT !.hdr = CopiedFrom(@, to, from, count),
            !.ftr = CopiedFrom(@, to, from, count)]

FilledWith(w, bp, c, count) ==
  [a \in Addr |-> IF bp < a /\ a <= bp + count THEN Data(c) ELSE w[a]]

memset(h, bp, c, count) ==
  [h EXCEPT !.hdr = FilledWith(@, bp, c, count),
            !.ftr = FilledWith(@, bp, c, count)]

(* Mutants: the old block is not freed; its contents are not copied; they  *)
(* are copied past the end of a smaller new block.                         *)
mm_reallocNoFree(h, bp, n) ==
  LET new == mm_malloc(h, n)
  IN  IF n = 0 THEN Result(mm_free(h, bp), NULL)
      ELSE IF bp = NULL \/ new.ptr = NULL THEN new
      ELSE Result(memcpy(new.heap, new.ptr, bp, Doublewords(n)), new.ptr)

mm_reallocNoCopy(h, bp, n) ==
  LET new == mm_malloc(h, n)
  IN  IF n = 0 THEN Result(mm_free(h, bp), NULL)
      ELSE IF bp = NULL \/ new.ptr = NULL THEN new
      ELSE Result(mm_free(new.heap, bp), new.ptr)

mm_reallocCopiesAll(h, bp, n) ==
  LET new == mm_malloc(h, n)
      copied == memcpy(new.heap, new.ptr, bp, Size(new.heap, bp))
  IN  IF n = 0 THEN Result(mm_free(h, bp), NULL)
      ELSE IF bp = NULL \/ new.ptr = NULL THEN new
      ELSE Result(mm_free(copied, bp), new.ptr)

(***************************************************************************)
(* mm_realloc always moves the block.  It copies the size of the request   *)
(* or of the old block, its tags included, whichever is smaller.           *)
(***************************************************************************)
mm_realloc(h, bp, n) ==
  LET new == mm_malloc(h, n)
      count == IF Doublewords(n) < Size(new.heap, bp) THEN Doublewords(n)
               ELSE Size(new.heap, bp)
  IN  IF n = 0 THEN Result(mm_free(h, bp), NULL)
      ELSE IF bp = NULL \/ new.ptr = NULL THEN new
      ELSE Result(mm_free(memcpy(new.heap, new.ptr, bp, count), bp), new.ptr)

=============================================================================
