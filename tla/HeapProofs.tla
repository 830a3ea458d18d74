----------------------------- MODULE HeapProofs -----------------------------
(***************************************************************************)
(* The malloc package of lab3 is correct for a client that makes any calls *)
(* in any order: for every number of blocks, size of the memory, CHUNKSIZE *)
(* and set of requests.                                                    *)
(*                                                                         *)
(* No property of HeapClient is inductive by itself: the tags keep their   *)
(* places only while the client stays inside its payloads, the client gets *)
(* payloads of its own only while the tags tile the heap, and the contents *)
(* survive a move only if memcpy stays inside the new block.  The          *)
(* invariant Inv joins them.  The proof goes through the routines of mm.c  *)
(* one by one, each with what it does to the blocks in use (Coalesces,     *)
(* Places, Extends, Frees, Allots, Moves), and then through the actions.   *)
(*                                                                         *)
(* The last two parts are about Driver.  Two heaps with the same blocks,   *)
(* tags, break and next-fit pointer are Alike, whatever else their         *)
(* memories hold, and every routine gives alike results on alike heaps: so *)
(* a replay goes the way of the one before it.  The bytes in use are       *)
(* counted, and as the payloads lie apart below the break, they fit.       *)
(***************************************************************************)
EXTENDS Driver, WellFoundedInduction, FiniteSetTheorems, TLAPS

-----------------------------------------------------------------------------
(* Where the next block begins, by the header of b.                        *)
After(hdr, b) == b + hdr[b].size

(* The prologue and the epilogue.                                          *)
Walls(hdr, brk, blocks) ==
  /\ heap_listp \in blocks /\ blocks \subseteq Addr
  /\ brk \in Addr /\ \A b \in blocks : b < brk
  /\ hdr[heap_listp] = Tag(1, TRUE)
  /\ hdr[brk] = Tag(0, TRUE)

(* The block b ends at its footer, where the next one begins.              *)
Tile(hdr, ftr, brk, blocks, b) ==
  /\ ftr[After(hdr, b)] = hdr[b]
  /\ b # heap_listp => hdr[b].size >= 2
  /\ After(hdr, b) \in blocks \union {brk}
  /\ \A c \in blocks : c <= b \/ After(hdr, b) <= c

(* The tags at the blocks are those of a heap: the walk through the        *)
(* headers from the prologue on meets the blocks, all of them and nothing  *)
(* else, and ends at the epilogue.                                         *)
Tiles(hdr, ftr, brk, blocks) ==
  /\ Walls(hdr, brk, blocks)
  /\ \A b \in blocks : Tile(hdr, ftr, brk, blocks, b)
  /\ \A b \in blocks \union {brk} :
       b = heap_listp \/ \E c \in blocks : After(hdr, c) = b

(* A tag is a word.                                                        *)
LEMMA TagType ==
  ASSUME NEW size \in 0 .. MaxHeap, NEW alloc \in BOOLEAN
  PROVE  Tag(size, alloc) \in Word /\ Tag(size, alloc).size = size /\ Tag(size, alloc).alloc = alloc
  BY DEF Tag, Word

(* The memory w2 is w but for the word at a. *)
Stored(w2, w, a, t) ==
  /\ w2 \in [Addr -> Word] /\ w2[a] = t
  /\ \A b \in Addr \ {a} : w2[b] = w[b]

(* ... and but for the word at b. *)
Stored2(w2, w, a, t, b, u) ==
  /\ w2 \in [Addr -> Word] /\ w2[a] = t /\ w2[b] = u
  /\ \A c \in Addr \ {a, b} : w2[c] = w[c]

(* One tag for all from first to end makes one block of them: what         *)
(* coalesce does with two or three blocks, and a new allocated bit with    *)
(* one.                                                                    *)
LEMMA Merge ==
  ASSUME NEW hdr \in [Addr -> Word], NEW ftr \in [Addr -> Word], NEW brk, NEW blocks,
         Tiles(hdr, ftr, brk, blocks),
         NEW first \in blocks \ {heap_listp}, NEW end \in blocks \union {brk}, first < end,
         NEW t \in Word, t.size = end - first,
         NEW hdr2, Stored(hdr2, hdr, first, t),
         NEW ftr2, Stored(ftr2, ftr, end, t),
         NEW blocks2, blocks2 = {c \in blocks : c <= first \/ end <= c}
  PROVE  Tiles(hdr2, ftr2, brk, blocks2)
<1>a. Walls(hdr, brk, blocks)
  BY DEF Tiles
<1>b. blocks \subseteq Addr /\ brk \in Addr /\ brk \notin blocks
  <2>1. blocks \subseteq Addr /\ brk \in Addr /\ \A b \in blocks : b < brk
    BY <1>a DEF Walls
  <2>2. Addr \subseteq Int
    BY DEF Addr
  <2> QED BY <2>1, <2>2
<1>c. blocks \subseteq Int /\ brk \in Int /\ first \in Int /\ end \in Int
  BY <1>b, MaxHeapAssumption DEF Addr
<1>d. \A b \in blocks : hdr[b].size \in Int
  BY <1>b, MaxHeapAssumption DEF Word
<1>0. /\ blocks \subseteq Int /\ brk \in Addr /\ brk \in Int
      /\ first \in Addr /\ end \in Addr /\ brk \notin blocks
      /\ first \in Int /\ end \in Int /\ heap_listp = 1 /\ \A b \in blocks : hdr[b].size \in Int
      /\ blocks \subseteq Addr
  BY <1>b, <1>c, <1>d DEF heap_listp
<1>t. /\ Walls(hdr, brk, blocks)
      /\ \A b \in blocks : Tile(hdr, ftr, brk, blocks, b)
      /\ \A b \in blocks \union {brk} :
             b = heap_listp \/ \E c \in blocks : After(hdr, c) = b
  BY DEF Tiles
<1>1. /\ \A b \in Addr \ {first} : hdr2[b] = hdr[b]
      /\ \A b \in Addr \ {end} : ftr2[b] = ftr[b]
      /\ hdr2[first] = t /\ ftr2[end] = t
  BY <1>0 DEF Stored
<1>2. After(hdr2, first) = end
  BY <1>1, <1>0 DEF After
<1>3. \A b \in blocks \ {first} : After(hdr2, b) = After(hdr, b)
  BY <1>0, <1>1 DEF After
<1>4. \A b \in blocks : After(hdr, b) \in Int /\ b < After(hdr, b)
  BY <1>0, <1>t DEF Tile, Walls, After, Tag
<1>5. first \in blocks2 /\ heap_listp \in blocks2 /\ end \in blocks2 \union {brk}
  BY <1>0, <1>t DEF Walls, Addr
<1>6. Walls(hdr2, brk, blocks2)
  BY <1>0, <1>1, <1>5, <1>t DEF Walls
<1>7. ASSUME NEW b \in blocks2, b # first
      PROVE  After(hdr, b) <= first \/ end < After(hdr, b)
  <2>0. b \in blocks /\ b \in Int /\ (b < first \/ end <= b)
    BY <1>0, <1>7
  <2>1. CASE b < first
    BY <1>0, <1>4, <1>t, <2>0, <2>1 DEF Tile
  <2>2. CASE end <= b
    BY <1>0, <1>4, <2>0, <2>2
  <2> QED BY <2>0, <2>1, <2>2
<1>8. ASSUME NEW b \in blocks2 PROVE Tile(hdr2, ftr2, brk, blocks2, b)
  <2>1. CASE b = first
    <3>0. After(hdr, first) <= end
      BY <1>0, <1>t, <1>4 DEF Tile, Walls
    <3>1. hdr2[b].size >= 2
      BY <1>0, <1>1, <1>t, <3>0, <2>1 DEF Tile, After
    <3> QED BY <1>0, <1>1, <1>2, <1>5, <2>1, <3>1 DEF Tile
  <2>2. CASE b # first
    <3>1. After(hdr2, b) = After(hdr, b) /\ hdr2[b] = hdr[b]
      BY <1>0, <1>1, <1>3, <2>2
    <3>2. After(hdr, b) # end /\ After(hdr, b) \in blocks2 \union {brk}
      BY <1>0, <1>4, <1>7, <1>t, <2>2 DEF Tile, Walls
    <3>3. ftr2[After(hdr, b)] = ftr[After(hdr, b)]
      BY <1>0, <1>1, <3>2
    <3> QED BY <1>t, <3>1, <3>2, <3>3 DEF Tile
  <2> QED BY <2>1, <2>2
<1>9. ASSUME NEW b \in blocks2 \union {brk}, b # heap_listp
      PROVE  \E c \in blocks2 : After(hdr2, c) = b
  <2>1. CASE b = end
    BY <1>2, <1>5, <2>1
  <2>2. CASE b # end
    <3>1. PICK c \in blocks : After(hdr, c) = b
      BY <1>9, <1>t
    <3>2. c \in blocks2 /\ c # first
      <4>1. CASE b <= first
        BY <1>0, <1>4, <3>1, <4>1
      <4>2. CASE end < b
        <5>1. end \in blocks
          BY <1>0, <1>t, <1>9, <4>2 DEF Walls
        <5> QED BY <1>0, <1>4, <1>t, <3>1, <4>2, <5>1 DEF Tile
      <4> QED BY <1>0, <1>9, <2>2, <4>1, <4>2, <1>t DEF Walls
    <3> QED BY <1>3, <3>1, <3>2
  <2> QED BY <2>1, <2>2
<1> QED BY <1>6, <1>8, <1>9 DEF Tiles

(* What the proofs use of the tags of a heap.                              *)
LEMMA TileTypes ==
  ASSUME NEW hdr \in [Addr -> Word], NEW ftr, NEW brk, NEW blocks,
         Tiles(hdr, ftr, brk, blocks)
  PROVE  /\ blocks \subseteq Addr /\ blocks \subseteq Int /\ heap_listp \in blocks
         /\ brk \in Addr /\ brk \in Int /\ brk \notin blocks
         /\ \A b \in blocks : /\ hdr[b] \in Word /\ hdr[b].size \in Nat
                              /\ hdr[b].alloc \in BOOLEAN
                              /\ b < brk /\ b < After(hdr, b) /\ After(hdr, b) <= brk
                              /\ After(hdr, b) = b + hdr[b].size
                              /\ After(hdr, b) \in blocks \union {brk}
                              /\ After(hdr, b) \in Addr
<1>1. Walls(hdr, brk, blocks) /\ \A b \in blocks : Tile(hdr, ftr, brk, blocks, b)
  BY DEF Tiles
<1>2. blocks \subseteq Addr /\ heap_listp \in blocks /\ brk \in Addr /\ \A b \in blocks : b < brk
  BY <1>1 DEF Walls
<1>3. Addr \subseteq Int
  BY DEF Addr
<1>4. brk \notin blocks
  BY <1>2, <1>3
<1>5. ASSUME NEW b \in blocks
      PROVE /\ hdr[b] \in Word /\ hdr[b].size \in Nat /\ hdr[b].alloc \in BOOLEAN
            /\ b < After(hdr, b) /\ After(hdr, b) <= brk
            /\ After(hdr, b) = b + hdr[b].size
            /\ After(hdr, b) \in blocks \union {brk}
  <2>1. hdr[b] \in Word /\ hdr[b].size \in Nat /\ hdr[b].alloc \in BOOLEAN
    BY <1>2, MaxHeapAssumption DEF Word
  <2>2. hdr[b].size >= 1
    BY <1>1, <2>1 DEF Walls, Tile, Tag
  <2>3. After(hdr, b) \in blocks \union {brk}
    BY <1>1 DEF Tile
  <2> QED BY <1>2, <1>3, <2>1, <2>2, <2>3 DEF After
<1> QED BY <1>2, <1>3, <1>4, <1>5

(* No tag lies within a block. *)
LEMMA Interior ==
  ASSUME NEW hdr \in [Addr -> Word], NEW ftr, NEW brk, NEW blocks,
         Tiles(hdr, ftr, brk, blocks),
         NEW b \in blocks, NEW a \in b + 1 .. After(hdr, b) - 1
  PROVE  a \in Addr /\ a \notin blocks /\ a # brk
<1>1. \A c \in blocks : c <= b \/ After(hdr, b) <= c
  BY DEF Tiles, Tile
<1>2. b \in Addr /\ brk \in Addr
  BY TileTypes
<1> QED BY <1>1, <1>2, TileTypes, MaxHeapAssumption DEF Addr

(* Two tags where one was make two blocks, as place does.                  *)
LEMMA Split ==
  ASSUME NEW hdr \in [Addr -> Word], NEW ftr \in [Addr -> Word], NEW brk, NEW blocks,
         Tiles(hdr, ftr, brk, blocks),
         NEW bp \in blocks \ {heap_listp}, NEW end, end = After(hdr, bp),
         NEW mid \in Int, bp + 2 <= mid, mid + 2 <= end,
         NEW t \in Word, t.size = mid - bp, NEW u \in Word, u.size = end - mid,
         NEW hdr2, Stored2(hdr2, hdr, bp, t, mid, u),
         NEW ftr2, Stored2(ftr2, ftr, mid, t, end, u),
         NEW blocks2, blocks2 = blocks \union {mid}
  PROVE  Tiles(hdr2, ftr2, brk, blocks2) /\ mid \in Addr \ blocks
<1>1. /\ Walls(hdr, brk, blocks)
      /\ \A b \in blocks : Tile(hdr, ftr, brk, blocks, b)
      /\ \A b \in blocks \union {brk} :
             b = heap_listp \/ \E c \in blocks : After(hdr, c) = b
  BY DEF Tiles
<1>2. mid \in bp + 1 .. After(hdr, bp) - 1 /\ bp \in Int /\ end \in Int /\ bp \in Addr /\ end \in Addr
      /\ end \in blocks \union {brk} /\ bp < mid /\ mid < end
  BY TileTypes
<1>3. mid \in Addr /\ mid \notin blocks /\ mid # brk
  BY <1>2, Interior
<1>4. /\ hdr2[bp] = t /\ hdr2[mid] = u /\ ftr2[mid] = t /\ ftr2[end] = u
      /\ \A b \in Addr \ {bp, mid} : hdr2[b] = hdr[b]
      /\ \A b \in Addr \ {mid, end} : ftr2[b] = ftr[b]
  BY <1>2, <1>3 DEF Stored2
<1>5. After(hdr2, bp) = mid /\ After(hdr2, mid) = end
  BY <1>2, <1>4 DEF After
<1>6. \A b \in blocks \ {bp} : hdr2[b] = hdr[b] /\ After(hdr2, b) = After(hdr, b)
  BY <1>3, <1>4, TileTypes DEF After
<1>7. Walls(hdr2, brk, blocks2)
  <2>1. mid < brk
    BY <1>2, TileTypes
  <2>2. hdr2[heap_listp] = hdr[heap_listp] /\ hdr2[brk] = hdr[brk]
    BY <1>3, <1>4, TileTypes
  <2> QED BY <1>1, <1>3, <2>1, <2>2 DEF Walls
<1>8. ASSUME NEW b \in blocks2 PROVE Tile(hdr2, ftr2, brk, blocks2, b)
  <2>0. \A c \in blocks2 : c \in Int /\ (c <= bp \/ c = mid \/ end <= c)
    BY <1>1, <1>2, TileTypes DEF Tile
  <2>1. CASE b = bp
    <3>1. hdr2[b].size >= 2
      BY <1>2, <1>4, <2>1
    <3>2. \A c \in blocks2 : c <= b \/ mid <= c
      BY <1>2, <2>0, <2>1
    <3> QED BY <1>4, <1>5, <2>1, <3>1, <3>2 DEF Tile
  <2>2. CASE b = mid
    <3>1. hdr2[b].size >= 2
      BY <1>2, <1>4, <2>2
    <3>2. \A c \in blocks2 : c <= b \/ end <= c
      BY <1>2, <2>0, <2>2
    <3> QED BY <1>2, <1>4, <1>5, <2>2, <3>1, <3>2 DEF Tile
  <2>3. CASE b \in blocks \ {bp}
    <3>1. hdr2[b] = hdr[b] /\ After(hdr2, b) = After(hdr, b)
      BY <1>6, <2>3
    <3>2. After(hdr, b) # end /\ After(hdr, b) # mid
      BY <1>1, <1>2, <1>3, <2>3, TileTypes DEF Tile
    <3>3. ftr2[After(hdr, b)] = ftr[After(hdr, b)]
      BY <1>4, <3>2, <2>3, TileTypes
    <3>4. mid <= b \/ After(hdr, b) <= mid
      BY <1>1, <1>2, <2>3, TileTypes DEF Tile
    <3> QED BY <1>1, <2>3, <3>1, <3>3, <3>4 DEF Tile
  <2> QED BY <2>1, <2>2, <2>3
<1>9. ASSUME NEW b \in blocks2 \union {brk}, b # heap_listp
      PROVE  \E c \in blocks2 : After(hdr2, c) = b
  <2>1. CASE b = mid
    BY <1>5, <2>1
  <2>2. CASE b = end
    BY <1>5, <2>2
  <2>3. CASE b \notin {mid, end}
    <3>1. PICK c \in blocks : After(hdr, c) = b
      BY <1>1, <1>9, <2>3
    <3> QED BY <1>6, <2>3, <3>1
  <2> QED BY <2>1, <2>2, <2>3
<1> QED BY <1>3, <1>7, <1>8, <1>9 DEF Tiles

(* A block from the old epilogue to a new one, as extend_heap does.        *)
LEMMA Extend ==
  ASSUME NEW hdr \in [Addr -> Word], NEW ftr \in [Addr -> Word], NEW brk, NEW blocks,
         Tiles(hdr, ftr, brk, blocks),
         NEW end \in Addr, brk + 2 <= end,
         NEW t \in Word, t.size = end - brk,
         NEW hdr2, Stored2(hdr2, hdr, brk, t, end, Tag(0, TRUE)),
         NEW ftr2, Stored(ftr2, ftr, end, t),
         NEW blocks2, blocks2 = blocks \union {brk}
  PROVE  Tiles(hdr2, ftr2, end, blocks2)
<1>1. /\ Walls(hdr, brk, blocks)
      /\ \A b \in blocks : Tile(hdr, ftr, brk, blocks, b)
      /\ \A b \in blocks \union {brk} :
             b = heap_listp \/ \E c \in blocks : After(hdr, c) = b
  BY DEF Tiles
<1>2. /\ end \in Int /\ brk \in Int /\ brk \in Addr
      /\ \A b \in blocks :
           b < brk /\ b < end /\ b # brk /\ b # end /\ b \in Addr
  BY TileTypes DEF Addr
<1>a. brk # end /\ t.size = end - brk
  BY <1>2
<1>3. /\ hdr2[brk] = t /\ hdr2[end] = Tag(0, TRUE) /\ ftr2[end] = t
      /\ \A b \in Addr \ {brk, end} : hdr2[b] = hdr[b]
      /\ \A b \in Addr \ {end} : ftr2[b] = ftr[b]
  BY <1>2, <1>a DEF Stored, Stored2
<1>4. After(hdr2, brk) = end
  BY <1>2, <1>3, <1>a DEF After
<1>5. \A b \in blocks : hdr2[b] = hdr[b] /\ After(hdr2, b) = After(hdr, b)
  BY <1>2, <1>3, TileTypes DEF After
<1>6. Walls(hdr2, end, blocks2)
  <2>1. blocks2 \subseteq Addr /\ \A b \in blocks2 : b < end
    BY <1>2
  <2>2. heap_listp \in blocks2 /\ hdr2[heap_listp] = Tag(1, TRUE)
    BY <1>1, <1>5 DEF Walls
  <2> QED BY <1>3, <2>1, <2>2 DEF Walls
<1>7. ASSUME NEW b \in blocks2 PROVE Tile(hdr2, ftr2, end, blocks2, b)
  <2>1. CASE b = brk
    <3>1. hdr2[b].size >= 2
      BY <1>2, <1>3, <1>a, <2>1
    <3>2. \A c \in blocks2 : c <= b
      BY <1>2, <2>1, TileTypes
    <3> QED BY <1>3, <1>4, <2>1, <3>1, <3>2 DEF Tile
  <2>2. CASE b \in blocks
    <3>1. After(hdr, b) <= brk /\ After(hdr, b) \in Addr /\ After(hdr, b) \in Int
      BY <2>2, TileTypes DEF Addr
    <3>2. ftr2[After(hdr, b)] = ftr[After(hdr, b)]
      BY <1>2, <1>3, <3>1
    <3> QED BY <1>1, <1>5, <2>2, <3>1, <3>2 DEF Tile
  <2> QED BY <2>1, <2>2
<1>8. ASSUME NEW b \in blocks2 \union {end}, b # heap_listp
      PROVE  \E c \in blocks2 : After(hdr2, c) = b
  <2>1. CASE b = end
    BY <1>4, <2>1
  <2>2. CASE b \in blocks \union {brk}
    BY <1>1, <1>5, <1>8, <2>2
  <2> QED BY <2>1, <2>2
<1> QED BY <1>6, <1>7, <1>8 DEF Tiles

(* No two neighbours are free.                                             *)
Joined(h) ==
  \A b \in h.blocks : h.hdr[b].alloc \/ h.hdr[After(h.hdr, b)].alloc

(* The heap between two calls, but for free neighbours.                    *)
Sound(h) ==
  /\ h \in HeapType
  /\ Tiles(h.hdr, h.ftr, h.brk, h.blocks)
  /\ h.next \in h.blocks

(* The blocks in use.                                                      *)
Live(h) == {b \in h.blocks \ {heap_listp} : h.hdr[b].alloc}

(* The block b of h is there in h2, with its header and its contents.      *)
Kept(h, h2, b) ==
  /\ b \in h2.blocks /\ h2.hdr[b] = h.hdr[b]
  /\ \A a \in b + 1 .. After(h.hdr, b) - 1 :
       h2.hdr[a] = h.hdr[a] /\ h2.ftr[a] = h.ftr[a]

(* The fields of a heap have their types.                                  *)
LEMMA HeapFields ==
  ASSUME NEW h \in HeapType
  PROVE  /\ h.hdr \in [Addr -> Word] /\ h.ftr \in [Addr -> Word]
         /\ h.brk \in 0 .. MaxHeap /\ h.next \in Addr /\ h.blocks \in SUBSET Addr
  BY DEF HeapType

(* h2 is h with new tags for a block at b. The lemmas conclude with such   *)
(* names because the provers do not find an instance of a fact with EXCEPT *)
(* in it.                                                                  *)
IsTagged(h2, h, b, size, alloc) ==
  /\ Tag(size, alloc) \in Word
  /\ h2 \in HeapType
  /\ Stored(h2.hdr, h.hdr, b, Tag(size, alloc))
  /\ Stored(h2.ftr, h.ftr, b + size, Tag(size, alloc))
  /\ h2.brk = h.brk /\ h2.next = h.next /\ h2.blocks = h.blocks

(* WithTags writes a header and a footer and nothing else.                 *)
LEMMA WithTagsFields ==
  ASSUME NEW h \in HeapType, NEW b \in Addr, NEW size \in Nat, b + size \in Addr,
         NEW alloc \in BOOLEAN
  PROVE  IsTagged(WithTags(h, b, size, alloc), h, b, size, alloc)
<1>1. size \in 0 .. MaxHeap
  BY MaxHeapAssumption DEF Addr
<1>2. Tag(size, alloc) \in Word
  BY <1>1, TagType
<1> QED BY <1>2 DEF WithTags, HeapType, Stored, IsTagged

(* What coalesce makes of h when the free blocks from first on become one  *)
(* and gone are the blocks that are swallowed.                             *)
JoinedAt(h, first, size, gone) ==
  [WithTags(h, first, size, FALSE) EXCEPT
     !.next = IF first < @ /\ @ < first + size THEN first ELSE @,
     !.blocks = @ \ gone]

(* j is h with one free block from first to end.                           *)
IsJoin(j, h, first, end, gone) ==
  /\ j \in HeapType
  /\ Tag(end - first, FALSE) \in Word
  /\ Stored(j.hdr, h.hdr, first, Tag(end - first, FALSE))
  /\ Stored(j.ftr, h.ftr, end, Tag(end - first, FALSE))
  /\ j.brk = h.brk /\ j.blocks = h.blocks \ gone
  /\ j.next = IF first < h.next /\ h.next < end THEN first ELSE h.next

(* What coalesce writes when it joins.                                     *)
LEMMA JoinedFields ==
  ASSUME NEW h \in HeapType, NEW first \in Addr, NEW end \in Addr, first <= end,
         NEW gone
  PROVE  IsJoin(JoinedAt(h, first, end - first, gone), h, first, end, gone)
<1> DEFINE size == end - first
<1>0. size \in Nat /\ first + size = end /\ size = end - first
  BY MaxHeapAssumption DEF Addr
<1> HIDE DEF size
<1> DEFINE g == WithTags(h, first, size, FALSE)
           next2 == IF first < g.next /\ g.next < first + size THEN first ELSE g.next
           left == g.blocks \ gone
           j == [g EXCEPT !.next = next2, !.blocks = left]
<1>1. /\ Tag(size, FALSE) \in Word /\ g \in HeapType
      /\ Stored(g.hdr, h.hdr, first, Tag(size, FALSE))
      /\ Stored(g.ftr, h.ftr, end, Tag(size, FALSE))
      /\ g.brk = h.brk /\ g.next = h.next /\ g.blocks = h.blocks
  BY <1>0, WithTagsFields DEF IsTagged
<1> HIDE DEF g
<1>2. next2 \in Addr /\ left \in SUBSET Addr
  BY <1>1, HeapFields
<1> HIDE DEF next2, left
<1>3. j \in HeapType
  BY <1>1, <1>2 DEF HeapType
<1>4. /\ j.hdr = g.hdr /\ j.ftr = g.ftr /\ j.brk = g.brk /\ j.next = next2
      /\ j.blocks = left
  BY <1>1 DEF HeapType
<1>5. j = JoinedAt(h, first, size, gone)
  BY DEF g, next2, left, JoinedAt
<1> HIDE DEF j
<1>6. IsJoin(j, h, first, end, gone)
  BY <1>0, <1>1, <1>3, <1>4 DEF next2, left, IsJoin
<1> QED BY <1>0, <1>5, <1>6

(* The join keeps the blocks in use and the tags at other blocks.          *)
JoinEffects(j, h, first, end) ==
  /\ Sound(j) /\ Live(j) = Live(h)
  /\ \A b \in Live(h) : Kept(h, j, b)
  /\ j.brk = h.brk /\ j.blocks \subseteq h.blocks
  /\ first \in j.blocks /\ end \in j.blocks \union {j.brk}
  /\ ~j.hdr[first].alloc /\ After(j.hdr, first) = end
  /\ \A b \in (j.blocks \union {j.brk}) \ {first} : j.hdr[b] = h.hdr[b]

(* Joining free blocks, whose tags between first and end are forgotten,    *)
(* leaves a sound heap, with the next-fit pointer at a block.              *)
LEMMA JoinEffect ==
  ASSUME NEW h, Sound(h),
         NEW first \in h.blocks \ {heap_listp}, NEW end \in h.blocks \union {h.brk},
         first < end,
         NEW gone, gone = {c \in h.blocks : first < c /\ c < end},
         \A c \in gone \union {first} : ~h.hdr[c].alloc,
         NEW j, IsJoin(j, h, first, end, gone)
  PROVE  JoinEffects(j, h, first, end)
<1>1. /\ h \in HeapType /\ Tiles(h.hdr, h.ftr, h.brk, h.blocks) /\ h.next \in h.blocks
      /\ h.hdr \in [Addr -> Word] /\ h.ftr \in [Addr -> Word]
  BY HeapFields DEF Sound
<1>2. /\ h.blocks \subseteq Addr /\ h.blocks \subseteq Int /\ heap_listp \in h.blocks
      /\ h.brk \in Addr /\ h.brk \in Int /\ h.brk \notin h.blocks
      /\ \A b \in h.blocks : b < h.brk
  BY <1>1, TileTypes
<1>3. first \in Int /\ end \in Int /\ first \in Addr /\ end \in Addr
  BY <1>2
<1>b. /\ j \in HeapType /\ j.brk = h.brk /\ j.blocks = h.blocks \ gone
      /\ j.next = IF first < h.next /\ h.next < end THEN first ELSE h.next
  BY DEF IsJoin
<1>4. j.blocks = {c \in h.blocks : c <= first \/ end <= c}
  BY <1>2, <1>3, <1>b
<1>5. Tag(end - first, FALSE).size = end - first /\ Tag(end - first, FALSE).alloc = FALSE
  BY DEF Tag
<1> DEFINE t == Tag(end - first, FALSE)
<1>a. /\ t \in Word /\ t.size = end - first /\ t.alloc = FALSE
      /\ Stored(j.hdr, h.hdr, first, t) /\ Stored(j.ftr, h.ftr, end, t)
  BY <1>5 DEF IsJoin
<1> HIDE DEF t
<1>6. Tiles(j.hdr, j.ftr, h.brk, j.blocks)
  BY <1>1, <1>4, <1>a, Merge
<1>7. j.next \in j.blocks
  BY <1>1, <1>2, <1>3, <1>4, <1>b
<1>8. Sound(j)
  BY <1>6, <1>7, <1>b DEF Sound
<1>9. /\ j.hdr[first] = t
      /\ \A b \in Addr \ {first} : j.hdr[b] = h.hdr[b]
      /\ \A b \in Addr \ {end} : j.ftr[b] = h.ftr[b]
  BY <1>a DEF Stored
<1>10. Live(j) = Live(h)
  BY <1>2, <1>a, <1>b, <1>9 DEF Live
<1>11. ASSUME NEW b \in Live(h) PROVE Kept(h, j, b)
  <2>1. b \in h.blocks /\ b \in j.blocks /\ b # first
    BY <1>10, <1>11 DEF Live
  <2>2. j.hdr[b] = h.hdr[b]
    BY <1>2, <1>9, <2>1
  <2>3. ASSUME NEW a \in b + 1 .. After(h.hdr, b) - 1
        PROVE  j.hdr[a] = h.hdr[a] /\ j.ftr[a] = h.ftr[a]
    <3>1. a \in Addr /\ a \notin h.blocks /\ a # h.brk
      BY <1>1, <2>1, Interior
    <3> QED BY <1>9, <3>1
  <2> QED BY <2>1, <2>2, <2>3 DEF Kept
<1>12. After(j.hdr, first) = end
  BY <1>3, <1>a, <1>9 DEF After
<1>13. first \in j.blocks /\ end \in j.blocks \union {j.brk}
  BY <1>2, <1>3, <1>4, <1>b
<1> QED BY <1>2, <1>a, <1>b, <1>8, <1>9, <1>10, <1>11, <1>12, <1>13 DEF JoinEffects

(* p is a free block, at least as large as bp was, in a heap without free  *)
(* neighbours, and the blocks in use are as they were.                     *)
Coalesces(h2, p, h, bp) ==
  /\ Sound(h2) /\ Joined(h2)
  /\ Live(h2) = Live(h) /\ \A b \in Live(h) : Kept(h, h2, b)
  /\ p \in h2.blocks \ {heap_listp} /\ ~h2.hdr[p].alloc
  /\ h.hdr[bp].size <= h2.hdr[p].size
  /\ h2.brk = h.brk

(* coalesce finds the neighbours by the tags, and leaves no two free ones  *)
(* if there were none but at bp.                                           *)
LEMMA CoalesceEffect ==
  ASSUME NEW h, Sound(h), NEW bp \in h.blocks \ {heap_listp}, ~h.hdr[bp].alloc,
         \A b \in h.blocks : \/ b = bp \/ After(h.hdr, b) = bp
                             \/ h.hdr[b].alloc \/ h.hdr[After(h.hdr, b)].alloc
  PROVE  LET r == coalesce(h, bp)
         IN  Coalesces(r.heap, r.ptr, h, bp)
<1>1. /\ h \in HeapType /\ Tiles(h.hdr, h.ftr, h.brk, h.blocks) /\ h.next \in h.blocks
      /\ h.hdr \in [Addr -> Word] /\ h.ftr \in [Addr -> Word]
  BY HeapFields DEF Sound
<1>2. /\ h.blocks \subseteq Addr /\ h.blocks \subseteq Int /\ heap_listp \in h.blocks
      /\ h.brk \in Addr /\ h.brk \in Int /\ h.brk \notin h.blocks
      /\ \A b \in h.blocks : /\ b < h.brk /\ b < After(h.hdr, b)
                             /\ h.hdr[b].size \in Nat /\ h.hdr[b].alloc \in BOOLEAN
                             /\ After(h.hdr, b) = b + h.hdr[b].size
                             /\ After(h.hdr, b) \in h.blocks \union {h.brk}
                             /\ After(h.hdr, b) \in Addr /\ After(h.hdr, b) \in Int
  BY <1>1, TileTypes
<1>3. /\ \A b, c \in h.blocks : c <= b \/ After(h.hdr, b) <= c
      /\ \A b \in h.blocks : h.ftr[After(h.hdr, b)] = h.hdr[b]
      /\ h.hdr[heap_listp].alloc /\ h.hdr[h.brk].alloc
  BY <1>1 DEF Tiles, Tile, Walls, Tag
<1>4. PICK p \in h.blocks : After(h.hdr, p) = bp
  BY <1>1 DEF Tiles
<1> DEFINE after == After(h.hdr, bp)
           joinPrev == ~h.ftr[bp].alloc
           joinNext == ~h.hdr[after].alloc
           first == IF joinPrev THEN p ELSE bp
           end == IF joinNext THEN After(h.hdr, after) ELSE after
           gone == (IF joinPrev THEN {bp} ELSE {}) \union (IF joinNext THEN {after} ELSE {})
<1>5. h.ftr[bp] = h.hdr[p] /\ bp - h.hdr[p].size = p /\ p < bp
  BY <1>2, <1>3, <1>4
<1>6. joinNext => after \in h.blocks /\ after < After(h.hdr, after)
  BY <1>2, <1>3
<1>7. /\ first \in h.blocks \ {heap_listp} /\ end \in h.blocks \union {h.brk} /\ first < end
      /\ first <= bp /\ after <= end /\ bp < after
      /\ first \in Int /\ end \in Int /\ first \in Addr /\ end \in Addr
  BY <1>2, <1>3, <1>4, <1>5, <1>6
<1>8. gone = {c \in h.blocks : first < c /\ c < end}
  <2>1. ASSUME NEW c \in h.blocks, first < c, c < end PROVE c \in gone
    <3>1. c <= p \/ bp <= c
      BY <1>3, <1>4
    <3>2. c <= bp \/ after <= c
      BY <1>3
    <3>3. joinNext => c <= after \/ end <= c
      BY <1>3, <1>6
    <3> QED BY <1>2, <1>4, <1>5, <1>7, <2>1, <3>1, <3>2, <3>3
  <2>2. ASSUME NEW c \in gone PROVE c \in h.blocks /\ first < c /\ c < end
    BY <1>2, <1>5, <1>6, <1>7, <2>2
  <2> QED BY <2>1, <2>2
<1>9. \A c \in gone \union {first} : ~h.hdr[c].alloc
  BY <1>5
<1>10. CASE ~joinPrev /\ ~joinNext
  <2>1. coalesce(h, bp) = Result(h, bp)
    BY <1>10 DEF coalesce, Allocated, NextBlock, Size, After
  <2>2. coalesce(h, bp).heap = h /\ coalesce(h, bp).ptr = bp
    BY <2>1 DEF Result
  <2>3. Joined(h)
    BY <1>2, <1>3, <1>4, <1>5, <1>10 DEF Joined
  <2>4. \A b \in Live(h) : Kept(h, h, b)
    BY DEF Live, Kept
  <2> QED BY <1>2, <2>2, <2>3, <2>4 DEF Coalesces
<1>11. CASE joinPrev \/ joinNext
  <2> DEFINE j == coalesce(h, bp).heap
  <2>1. coalesce(h, bp).ptr = first /\ j = JoinedAt(h, first, end - first, gone)
    <3>1. h.hdr[bp].size + (IF joinPrev THEN h.hdr[first].size ELSE 0)
            + (IF joinNext THEN h.hdr[after].size ELSE 0) = end - first
      BY <1>2, <1>4, <1>5, <1>6, <1>7
    <3>2. (IF joinPrev THEN PrevBlock(h, bp) ELSE bp) = first
      BY <1>5 DEF PrevBlock
    <3> HIDE DEF end, first
    <3> QED BY <1>11, <3>1, <3>2
             DEF coalesce, JoinedAt, Result, Allocated, NextBlock, Size, After
  <2>2. IsJoin(j, h, first, end, gone)
    <3> HIDE DEF first, end, gone, j
    <3> QED BY <1>1, <1>7, <2>1, JoinedFields
  <2>3. JoinEffects(j, h, first, end)
    <3> HIDE DEF first, end, gone, j
    <3> QED BY <1>7, <1>8, <1>9, <2>2, JoinEffect
  <2>4. /\ Sound(j) /\ Live(j) = Live(h)
        /\ \A b \in Live(h) : Kept(h, j, b)
        /\ j.brk = h.brk /\ j.blocks \subseteq h.blocks
        /\ first \in j.blocks /\ end \in j.blocks \union {j.brk}
        /\ ~j.hdr[first].alloc /\ After(j.hdr, first) = end
        /\ \A b \in (j.blocks \union {j.brk}) \ {first} : j.hdr[b] = h.hdr[b]
    BY <2>3 DEF JoinEffects
  <2>5. ASSUME NEW b \in j.blocks
        PROVE  j.hdr[b].alloc \/ j.hdr[After(j.hdr, b)].alloc
    <3>1. CASE b = first
      <4>1. h.hdr[end].alloc
        BY <1>2, <1>3, <1>6
      <4>2. j.hdr[end] = h.hdr[end]
        BY <1>7, <2>4
      <4> QED BY <2>4, <3>1, <4>1, <4>2
    <3>2. CASE b # first
      <4>1. b \in h.blocks /\ j.hdr[b] = h.hdr[b] /\ After(j.hdr, b) = After(h.hdr, b)
        BY <2>4, <2>5, <3>2 DEF After
      <4>2. After(h.hdr, b) \in j.blocks \union {j.brk}
        BY <2>4, <2>5, <4>1 DEF Sound, Tiles, Tile
      <4>3. CASE After(h.hdr, b) = first
        <5>1. h.hdr[b].alloc
          BY <1>2, <1>3, <1>4, <1>5, <1>9, <4>1, <4>3
        <5> QED BY <4>1, <5>1
      <4>4. CASE After(h.hdr, b) # first
        <5>1. j.hdr[After(h.hdr, b)] = h.hdr[After(h.hdr, b)]
          BY <2>4, <4>2, <4>4
        <5>2. bp = first \/ bp \notin j.blocks \union {j.brk}
          <6>1. j.blocks = h.blocks \ gone /\ j.brk = h.brk
            BY <2>2 DEF IsJoin
          <6>2. bp = first \/ bp \in gone
            OBVIOUS
          <6> QED BY <1>2, <6>1, <6>2
        <5>3. b # bp /\ After(h.hdr, b) # bp
          BY <2>5, <3>2, <4>2, <4>4, <5>2
        <5> QED BY <4>1, <5>1, <5>3
      <4> QED BY <4>3, <4>4
    <3> QED BY <3>1, <3>2
  <2>6. h.hdr[bp].size <= j.hdr[first].size
    <3>1. first + j.hdr[first].size = end
      BY <2>4 DEF After
    <3>2. j.hdr[first].size \in Nat
      BY <1>7, <2>4, MaxHeapAssumption DEF Sound, HeapType, Word
    <3> HIDE DEF j
    <3> QED BY <1>2, <1>7, <3>1, <3>2
  <2>7. Joined(j)
    BY <2>5 DEF Joined
  <2> QED BY <1>7, <2>1, <2>4, <2>6, <2>7 DEF Coalesces
<1> QED BY <1>10, <1>11

(* What the proofs use of a sound heap.                                    *)
LEMMA SoundTypes ==
  ASSUME NEW h, Sound(h)
  PROVE  /\ h \in HeapType /\ Tiles(h.hdr, h.ftr, h.brk, h.blocks) /\ h.next \in h.blocks
         /\ h.hdr \in [Addr -> Word] /\ h.ftr \in [Addr -> Word]
         /\ h.blocks \subseteq Addr /\ h.blocks \subseteq Int /\ heap_listp \in h.blocks
         /\ h.brk \in Addr /\ h.brk \in Int /\ h.brk \notin h.blocks
         /\ \A b \in h.blocks : /\ b < h.brk /\ b < After(h.hdr, b)
                                /\ h.hdr[b] \in Word
                                /\ h.hdr[b].size \in Nat /\ h.hdr[b].alloc \in BOOLEAN
                                /\ After(h.hdr, b) = b + h.hdr[b].size
                                /\ After(h.hdr, b) <= h.brk
                                /\ After(h.hdr, b) \in h.blocks \union {h.brk}
                                /\ After(h.hdr, b) \in Addr /\ After(h.hdr, b) \in Int
         /\ \A b, c \in h.blocks : c <= b \/ After(h.hdr, b) <= c
         /\ \A b \in h.blocks : h.ftr[After(h.hdr, b)] = h.hdr[b]
         /\ \A b \in h.blocks \ {heap_listp} : h.hdr[b].size >= 2
         /\ h.hdr[heap_listp].alloc /\ h.hdr[h.brk].alloc
<1>1. /\ h \in HeapType /\ Tiles(h.hdr, h.ftr, h.brk, h.blocks) /\ h.next \in h.blocks
      /\ h.hdr \in [Addr -> Word] /\ h.ftr \in [Addr -> Word]
  BY HeapFields DEF Sound
<1>2. /\ h.blocks \subseteq Addr /\ h.blocks \subseteq Int /\ heap_listp \in h.blocks
      /\ h.brk \in Addr /\ h.brk \in Int /\ h.brk \notin h.blocks
      /\ \A b \in h.blocks : /\ b < h.brk /\ b < After(h.hdr, b)
                             /\ h.hdr[b] \in Word
                             /\ h.hdr[b].size \in Nat /\ h.hdr[b].alloc \in BOOLEAN
                             /\ After(h.hdr, b) = b + h.hdr[b].size
                             /\ After(h.hdr, b) <= h.brk
                             /\ After(h.hdr, b) \in h.blocks \union {h.brk}
                             /\ After(h.hdr, b) \in Addr /\ After(h.hdr, b) \in Int
  BY <1>1, TileTypes
<1>3. /\ \A b, c \in h.blocks : c <= b \/ After(h.hdr, b) <= c
      /\ \A b \in h.blocks : h.ftr[After(h.hdr, b)] = h.hdr[b]
      /\ \A b \in h.blocks \ {heap_listp} : h.hdr[b].size >= 2
      /\ h.hdr[heap_listp].alloc /\ h.hdr[h.brk].alloc
  BY <1>1 DEF Tiles, Tile, Walls, Tag
<1> QED BY <1>1, <1>2, <1>3

(* Words that are not written to at tags of blocks are kept. *)
LEMMA KeptBlock ==
  ASSUME NEW h, Sound(h), NEW h2, NEW b \in h.blocks, b \in h2.blocks,
         h2.hdr[b] = h.hdr[b],
         \A a \in Addr \ (h.blocks \union {h.brk}) :
            b < a /\ a < After(h.hdr, b) => h2.hdr[a] = h.hdr[a] /\ h2.ftr[a] = h.ftr[a]
  PROVE  Kept(h, h2, b)
<1>1. ASSUME NEW a \in b + 1 .. After(h.hdr, b) - 1
      PROVE  h2.hdr[a] = h.hdr[a] /\ h2.ftr[a] = h.ftr[a]
  <2>1. a \in Addr /\ a \notin h.blocks /\ a # h.brk
    BY SoundTypes, Interior
  <2>2. b < a /\ a < After(h.hdr, b)
    BY SoundTypes
  <2> QED BY <2>1, <2>2
<1> QED BY <1>1 DEF Kept

(* h2 is h but for the allocated bit of bp.                                *)
Retagged(h2, h, bp, alloc) ==
  /\ Sound(h2) /\ h2.blocks = h.blocks /\ h2.brk = h.brk /\ h2.next = h.next
  /\ h2.hdr[bp].size = h.hdr[bp].size /\ h2.hdr[bp].alloc = alloc
  /\ \A b \in (h.blocks \union {h.brk}) \ {bp} : h2.hdr[b] = h.hdr[b]
  /\ \A b \in h.blocks : After(h2.hdr, b) = After(h.hdr, b)
  /\ \A b \in h.blocks \ {bp} : Kept(h, h2, b)

(* A new allocated bit leaves a sound heap.                                *)
LEMMA RetagEffect ==
  ASSUME NEW h, Sound(h), NEW bp \in h.blocks \ {heap_listp}, NEW alloc \in BOOLEAN
  PROVE  Retagged(WithTags(h, bp, Size(h, bp), alloc), h, bp, alloc)
<1> DEFINE size == h.hdr[bp].size
           t == Tag(size, alloc)
           end == After(h.hdr, bp)
           h2 == WithTags(h, bp, size, alloc)
<1>1. /\ bp \in Addr /\ bp \in Int /\ size \in Nat /\ bp + size = end /\ end \in Addr
      /\ end \in Int /\ end \in h.blocks \union {h.brk} /\ bp < end /\ size = end - bp
      /\ h \in HeapType
  BY SoundTypes
<1>a. h2 = WithTags(h, bp, Size(h, bp), alloc)
  BY DEF Size
<1> HIDE DEF size, h2
<1>2. IsTagged(h2, h, bp, size, alloc)
  BY <1>1, WithTagsFields DEF h2
<1>3. t.size = size /\ t.alloc = alloc
  BY DEF Tag
<1> HIDE DEF t
<1>4. /\ t \in Word /\ h2 \in HeapType /\ Stored(h2.hdr, h.hdr, bp, t) /\ Stored(h2.ftr, h.ftr, end, t)
      /\ h2.brk = h.brk /\ h2.next = h.next /\ h2.blocks = h.blocks
  BY <1>1, <1>2 DEF IsTagged, t
<1> HIDE DEF end
<1>5. h.blocks = {c \in h.blocks : c <= bp \/ end <= c}
  BY <1>1, SoundTypes DEF end
<1>6. Tiles(h2.hdr, h2.ftr, h.brk, h.blocks)
  <2>1. /\ h.hdr \in [Addr -> Word] /\ h.ftr \in [Addr -> Word]
        /\ Tiles(h.hdr, h.ftr, h.brk, h.blocks)
    BY SoundTypes
  <2>2. t.size = end - bp
    BY <1>1, <1>3
  <2> QED BY <1>1, <1>4, <1>5, <2>1, <2>2, Merge
<1>7. Sound(h2)
  BY <1>4, <1>6, SoundTypes DEF Sound
<1>8. /\ h2.hdr[bp] = t /\ \A b \in Addr \ {bp} : h2.hdr[b] = h.hdr[b]
      /\ \A b \in Addr \ {end} : h2.ftr[b] = h.ftr[b]
  BY <1>4 DEF Stored
<1>9. \A b \in (h.blocks \union {h.brk}) \ {bp} : h2.hdr[b] = h.hdr[b]
  BY <1>8, SoundTypes
<1>10. \A b \in h.blocks : After(h2.hdr, b) = After(h.hdr, b)
  BY <1>3, <1>8, <1>9 DEF After, size
<1>11. \A b \in h.blocks \ {bp} : Kept(h, h2, b)
  <2> SUFFICES ASSUME NEW b \in h.blocks \ {bp} PROVE Kept(h, h2, b)
    OBVIOUS
  <2>1. \A a \in Addr \ (h.blocks \union {h.brk}) : h2.hdr[a] = h.hdr[a] /\ h2.ftr[a] = h.ftr[a]
    BY <1>1, <1>8
  <2> QED BY <1>4, <1>9, <2>1, KeptBlock
<1> QED BY <1>a, <1>3, <1>4, <1>7, <1>8, <1>9, <1>10, <1>11 DEF Retagged, size

-----------------------------------------------------------------------------
(* The heap between two calls.                                             *)
Good(h) == Sound(h) /\ Joined(h)

(* The block bp of h has come into use, with this size at least.           *)
Places(h2, h, bp, asize) ==
  /\ Good(h2) /\ h2.brk = h.brk
  /\ bp \in h2.blocks /\ asize <= h2.hdr[bp].size
  /\ Live(h2) = Live(h) \union {bp}
  /\ \A b \in Live(h) : Kept(h, h2, b)

(* place, whether it splits the block or not, takes a free block into use  *)
(* and no other block out of use.                                          *)
LEMMA PlaceEffect ==
  ASSUME NEW h, Good(h), NEW bp \in h.blocks \ {heap_listp}, ~h.hdr[bp].alloc,
         NEW asize \in Nat, 2 <= asize, asize <= h.hdr[bp].size
  PROVE  Places(place(h, bp, asize), h, bp, asize)
<1> DEFINE size == h.hdr[bp].size
           end == After(h.hdr, bp)
           h2 == place(h, bp, asize)
<1>1. Sound(h) /\ Joined(h)
  BY DEF Good
<1>2. /\ bp \in Addr /\ bp \in Int /\ size \in Nat /\ bp + size = end /\ end \in Addr
      /\ end \in Int /\ end \in h.blocks \union {h.brk} /\ bp < end
      /\ h.brk \in Addr /\ h.brk \notin h.blocks /\ h.blocks \subseteq Addr /\ heap_listp \in h.blocks
      /\ h.blocks \subseteq Int
  BY <1>1, SoundTypes
<1>3. h.hdr[end].alloc
  BY <1>1, SoundTypes DEF Joined
<1>4. CASE size - asize >= 2
  <2> DEFINE mid == bp + asize
             rest == size - asize
             h1 == WithTags(h, bp, asize, TRUE)
             g == WithTags(h1, mid, rest, FALSE)
             t == Tag(asize, TRUE)
             u == Tag(rest, FALSE)
  <2>1. h2 = [g EXCEPT !.blocks = @ \union {mid}]
    BY <1>4 DEF place, Size
  <2>2. /\ mid \in Int /\ bp + 2 <= mid /\ mid + 2 <= end /\ rest \in Nat
        /\ mid \in bp + 1 .. end - 1 /\ mid + rest = end /\ mid # bp /\ mid # end
    BY <1>2, <1>4
  <2>3. mid \in Addr /\ mid \notin h.blocks /\ mid # h.brk
    BY <1>1, <2>2, SoundTypes, Interior
  <2>t. t.size = asize /\ t.alloc = TRUE /\ u.size = rest /\ u.alloc = FALSE
    BY DEF Tag
  <2> HIDE DEF h1, g, mid, rest, h2
  <2>4. IsTagged(h1, h, bp, asize, TRUE)
    BY <1>1, <1>2, <2>3, SoundTypes, WithTagsFields DEF h1, mid
  <2>5. IsTagged(g, h1, mid, rest, FALSE)
    <3>1. h1 \in HeapType
      BY <2>4 DEF IsTagged
    <3> QED BY <1>2, <2>2, <2>3, <3>1, WithTagsFields DEF g
  <2> HIDE DEF t, u
  <2>6. /\ t \in Word /\ u \in Word
        /\ Stored(h1.hdr, h.hdr, bp, t) /\ Stored(h1.ftr, h.ftr, mid, t)
        /\ Stored(g.hdr, h1.hdr, mid, u) /\ Stored(g.ftr, h1.ftr, end, u)
        /\ g \in HeapType
        /\ g.brk = h.brk /\ g.next = h.next /\ g.blocks = h.blocks
    BY <2>2, <2>4, <2>5 DEF IsTagged, t, u, mid
  <2>7. Stored2(g.hdr, h.hdr, bp, t, mid, u) /\ Stored2(g.ftr, h.ftr, mid, t, end, u)
    BY <1>2, <2>2, <2>3, <2>6 DEF Stored, Stored2
  <2>8. /\ h2 \in HeapType /\ h2.hdr = g.hdr /\ h2.ftr = g.ftr /\ h2.brk = h.brk
        /\ h2.next = h.next /\ h2.blocks = h.blocks \union {mid}
    <3> DEFINE more == g.blocks \union {mid}
    <3>1. h2 = [g EXCEPT !.blocks = more] /\ more \in SUBSET Addr /\ more = h.blocks \union {mid}
      BY <1>2, <2>1, <2>3, <2>6
    <3> HIDE DEF more
    <3>2. /\ h2 \in HeapType /\ h2.hdr = g.hdr /\ h2.ftr = g.ftr /\ h2.brk = g.brk
          /\ h2.next = g.next /\ h2.blocks = more
      BY <2>6, <3>1 DEF HeapType
    <3> QED BY <2>6, <3>1, <3>2
  <2>9. Tiles(h2.hdr, h2.ftr, h.brk, h2.blocks)
    <3>1. /\ h.hdr \in [Addr -> Word] /\ h.ftr \in [Addr -> Word]
          /\ Tiles(h.hdr, h.ftr, h.brk, h.blocks)
      BY <1>1, SoundTypes
    <3>2. t.size = mid - bp /\ u.size = end - mid
      BY <1>2, <2>2, <2>t DEF mid
    <3>3. Stored2(h2.hdr, h.hdr, bp, t, mid, u) /\ Stored2(h2.ftr, h.ftr, mid, t, end, u)
      BY <2>7, <2>8
    <3>4. end = After(h.hdr, bp)
      OBVIOUS
    <3> HIDE DEF end
    <3> QED BY <2>2, <2>6, <2>8, <3>1, <3>2, <3>3, <3>4, Split
  <2>10. Sound(h2)
    BY <1>1, <2>8, <2>9 DEF Sound
  <2>11. /\ h2.hdr[bp] = t /\ h2.hdr[mid] = u
         /\ \A b \in Addr \ {bp, mid} : h2.hdr[b] = h.hdr[b]
         /\ \A b \in Addr \ {mid, end} : h2.ftr[b] = h.ftr[b]
    BY <2>7, <2>8 DEF Stored2
  <2>12. After(h2.hdr, bp) = mid /\ After(h2.hdr, mid) = end
    BY <1>2, <2>2, <2>t, <2>11 DEF After, mid
  <2>13. \A b \in (h.blocks \union {h.brk}) \ {bp} :
           h2.hdr[b] = h.hdr[b] /\ After(h2.hdr, b) = After(h.hdr, b)
    BY <1>2, <2>3, <2>11 DEF After
  <2>14. Joined(h2)
    <3> SUFFICES ASSUME NEW b \in h2.blocks PROVE h2.hdr[b].alloc \/ h2.hdr[After(h2.hdr, b)].alloc
      BY DEF Joined
    <3>1. CASE b = bp
      BY <2>t, <2>11, <3>1
    <3>2. CASE b = mid
      BY <1>2, <1>3, <2>12, <2>13, <3>2
    <3>3. CASE b \in h.blocks \ {bp}
      <4>1. h.hdr[b].alloc \/ h.hdr[After(h.hdr, b)].alloc
        BY <1>1, <3>3 DEF Joined
      <4>2. After(h.hdr, b) \in h.blocks \union {h.brk}
        BY <1>1, <3>3, SoundTypes
      <4> QED BY <2>13, <3>3, <4>1, <4>2
    <3> QED BY <2>8, <3>1, <3>2, <3>3
  <2>15. Live(h2) = Live(h) \union {bp}
    <3>1. h2.hdr[bp].alloc /\ ~h2.hdr[mid].alloc
      BY <2>t, <2>11
    <3> QED BY <1>2, <2>3, <2>8, <2>13, <3>1 DEF Live
  <2>16. ASSUME NEW b \in Live(h) PROVE Kept(h, h2, b)
    <3>1. b \in h.blocks /\ b # bp
      BY DEF Live
    <3>2. mid <= b \/ After(h.hdr, b) <= mid
      BY <1>1, <1>2, <2>2, <3>1, SoundTypes
    <3>3. \A a \in Addr \ (h.blocks \union {h.brk}) :
            b < a /\ a < After(h.hdr, b) => h2.hdr[a] = h.hdr[a] /\ h2.ftr[a] = h.ftr[a]
      <4> SUFFICES ASSUME NEW a \in Addr, a \notin h.blocks \union {h.brk},
                          b < a, a < After(h.hdr, b)
                   PROVE  h2.hdr[a] = h.hdr[a] /\ h2.ftr[a] = h.ftr[a]
        OBVIOUS
      <4>1. a # bp /\ a # end
        BY <1>2
      <4>2. a # mid
        <5>1. b \in Int /\ After(h.hdr, b) \in Int /\ a \in Int
          BY <1>1, <3>1, SoundTypes DEF Addr
        <5> QED BY <2>2, <3>2, <5>1
      <4> QED BY <2>11, <4>1, <4>2
    <3> QED BY <1>1, <2>8, <2>13, <3>1, <3>3, KeptBlock
  <2>17. asize <= h2.hdr[bp].size
    BY <2>t, <2>11
  <2> QED BY <2>8, <2>10, <2>14, <2>15, <2>16, <2>17 DEF Places, Good, h2
<1>5. CASE ~(size - asize >= 2)
  <2>1. h2 = WithTags(h, bp, Size(h, bp), TRUE)
    BY <1>2, <1>5 DEF place, Size
  <2>2. Retagged(h2, h, bp, TRUE)
    BY <1>1, <2>1, RetagEffect
  <2> HIDE DEF h2
  <2>3. Joined(h2)
    BY <1>1, <1>2, <2>2, SoundTypes DEF Joined, Retagged
  <2>4. Live(h2) = Live(h) \union {bp}
    BY <1>2, <2>2 DEF Live, Retagged
  <2>5. \A b \in Live(h) : Kept(h, h2, b)
    BY <2>2 DEF Live, Retagged
  <2>6. bp \in h2.blocks /\ asize <= h2.hdr[bp].size
    BY <2>2 DEF Retagged
  <2>7. Places(h2, h, bp, asize)
    BY <2>2, <2>3, <2>4, <2>5, <2>6 DEF Places, Good, Retagged
  <2> QED BY <2>7 DEF h2
<1> QED BY <1>4, <1>5

(* A nonempty set of natural numbers has a least element. *)
LEMMA LeastElement ==
  ASSUME NEW S, S \subseteq Nat, S # {}
  PROVE  \E x \in S : \A y \in S : x <= y
<1> DEFINE R == OpToRel(<, Nat)
<1>1. IsWellFoundedOn(R, Nat)
  BY NatLessThanWellFounded
<1>2. PICK x \in S : \A y \in S : ~ (<<y, x>> \in R)
  <2> HIDE DEF R
  <2> QED BY <1>1, WFMin, Zenon
<1>3. \A y \in S : x <= y
  <2> SUFFICES ASSUME NEW y \in S PROVE x <= y
    OBVIOUS
  <2>1. ~ (<<y, x>> \in R)
    BY <1>2
  <2>2. x \in Nat /\ y \in Nat
    OBVIOUS
  <2>3. ~ (y < x)
    BY <2>1, <2>2 DEF OpToRel
  <2> QED BY <2>2, <2>3
<1> QED BY <1>3

(* The block p is free and large enough. *)
Fits(h, p, asize) ==
  p \in h.blocks \ {heap_listp} /\ ~h.hdr[p].alloc /\ asize <= h.hdr[p].size

(* The search returns NULL or a free block that is large enough. *)
LEMMA FindFitEffect ==
  ASSUME NEW h, Sound(h), NEW asize
  PROVE  find_fit(h, asize) = NULL \/ Fits(h, find_fit(h, asize), asize)
<1> DEFINE fits == Fitting(h, asize)
           ahead == {b \in fits : h.next <= b}
           S == IF ahead = {} THEN fits ELSE ahead
<1>1. CASE fits = {}
  BY <1>1 DEF find_fit
<1>2. CASE fits # {}
  <2>1. h.blocks \subseteq Nat /\ h.hdr[heap_listp].alloc
    BY SoundTypes DEF Addr
  <2>2. S \subseteq fits /\ fits \subseteq h.blocks /\ S # {}
    BY <1>2 DEF Fitting
  <2>3. find_fit(h, asize) = Lowest(S)
    BY <1>2 DEF find_fit
  <2>4. \A b \in fits : Fits(h, b, asize)
    BY <2>1 DEF Fitting, Fits, Allocated, Size
  <2> HIDE DEF fits, S
  <2>5. \E x \in S : \A y \in S : x <= y
    BY <2>1, <2>2, LeastElement
  <2>6. Lowest(S) \in S
    BY <2>5 DEF Lowest
  <2> QED BY <2>2, <2>3, <2>4, <2>6
<1> QED BY <1>1, <1>2

(* p is a free block of at least this size, and the blocks in use of h are *)
(* those of h2.                                                            *)
Extends(h2, p, h, size) ==
  /\ Good(h2)
  /\ Live(h2) = Live(h) /\ \A b \in Live(h) : Kept(h, h2, b)
  /\ Fits(h2, p, size)
  /\ h.brk <= h2.brk

(* extend_heap returns NULL and leaves the heap alone, or a free block     *)
(* that is large enough, joined with the one before the old epilogue.      *)
LEMMA ExtendEffect ==
  ASSUME NEW h, Good(h), NEW size \in Nat, 2 <= size
  PROVE  LET r == extend_heap(h, size)
         IN  r = Result(h, NULL) \/ Extends(r.heap, r.ptr, h, size)
<1> DEFINE bp == h.brk
           end == bp + size
           t == Tag(size, FALSE)
           w == WithTags(h, bp, size, FALSE)
           g == [w EXCEPT !.hdr[end] = Tag(0, TRUE),
                          !.brk = end, !.blocks = @ \union {bp}]
           r == extend_heap(h, size)
<1>0. Sound(h) /\ Joined(h)
  BY DEF Good
<1>1. CASE end > MaxHeap
  BY <1>1 DEF extend_heap
<1>2. CASE ~(end > MaxHeap)
  <2>1. r = coalesce(g, bp)
    BY <1>2 DEF extend_heap
  <2>2. /\ bp \in Addr /\ bp \in Int /\ bp \notin h.blocks /\ heap_listp \in h.blocks
        /\ \A b \in h.blocks : b < bp
        /\ h \in HeapType /\ h.blocks \subseteq Addr /\ h.blocks \subseteq Int
        /\ h.next \in h.blocks
    BY <1>0, SoundTypes
  <2>3. end \in Addr /\ end \in Int /\ bp + 2 <= end /\ size = end - bp
    BY <1>2, <2>2, MaxHeapAssumption DEF Addr
  <2> HIDE DEF w, bp
  <2>4. IsTagged(w, h, bp, size, FALSE)
    BY <2>2, <2>3, WithTagsFields DEF w
  <2>5. /\ t \in Word /\ w \in HeapType
        /\ Stored(w.hdr, h.hdr, bp, t) /\ Stored(w.ftr, h.ftr, end, t)
        /\ w.brk = bp /\ w.next = h.next /\ w.blocks = h.blocks
    BY <2>4 DEF IsTagged, bp
  <2>6. t.size = size /\ t.alloc = FALSE
    BY DEF Tag
  <2>z. Tag(0, TRUE) \in Word
    BY MaxHeapAssumption DEF Tag, Word
  <2> HIDE DEF t, g, end
  <2>7. /\ g \in HeapType /\ g.hdr = [w.hdr EXCEPT ![end] = Tag(0, TRUE)]
        /\ g.ftr = w.ftr /\ g.brk = end /\ g.next = h.next
        /\ g.blocks = h.blocks \union {bp}
    <3> DEFINE z == Tag(0, TRUE)
               hd == [w.hdr EXCEPT ![end] = z]
               more == w.blocks \union {bp}
    <3>0. w.hdr \in [Addr -> Word] /\ z \in Word
      BY <2>5, <2>z, HeapFields
    <3>1. hd \in [Addr -> Word] /\ more \in SUBSET Addr /\ end \in 0 .. MaxHeap
      <4> HIDE DEF z
      <4> QED BY <2>2, <2>3, <2>5, <3>0 DEF Addr
    <3>2. g = [w EXCEPT !.hdr = hd, !.brk = end, !.blocks = more]
      <4>1. w = [hdr |-> w.hdr, ftr |-> w.ftr, brk |-> w.brk, next |-> w.next, blocks |-> w.blocks]
        BY <2>5 DEF HeapType
      <4> QED BY <4>1 DEF g
    <3> HIDE DEF hd, more
    <3>3. /\ g \in HeapType /\ g.hdr = hd /\ g.ftr = w.ftr /\ g.brk = end
          /\ g.next = w.next /\ g.blocks = more
      BY <2>5, <3>1, <3>2 DEF HeapType
    <3> QED BY <2>5, <3>3 DEF hd, more
  <2>8. Stored2(g.hdr, h.hdr, bp, t, end, Tag(0, TRUE)) /\ Stored(g.ftr, h.ftr, end, t)
    <3>1. bp # end
      BY <2>2, <2>3
    <3> HIDE DEF bp
    <3>2. w.hdr \in [Addr -> Word] /\ g.hdr \in [Addr -> Word]
      BY <2>5, <2>7, HeapFields
    <3>3. /\ w.hdr[bp] = t /\ w.ftr[end] = t /\ g.ftr \in [Addr -> Word]
          /\ \A b \in Addr \ {bp} : w.hdr[b] = h.hdr[b]
          /\ \A b \in Addr \ {end} : g.ftr[b] = h.ftr[b]
      BY <2>5, <2>7 DEF Stored
    <3> DEFINE z == Tag(0, TRUE)
    <3>4. g.hdr[end] = z /\ \A b \in Addr \ {end} : g.hdr[b] = w.hdr[b]
      BY <2>3, <2>7, <3>2
    <3> HIDE DEF z
    <3>5. Stored2(g.hdr, h.hdr, bp, t, end, z)
      BY <2>2, <2>3, <3>1, <3>2, <3>3, <3>4 DEF Stored2
    <3>6. Stored(g.ftr, h.ftr, end, t)
      BY <2>7, <3>3 DEF Stored
    <3> QED BY <3>5, <3>6 DEF z
  <2>9. Tiles(g.hdr, g.ftr, end, g.blocks)
    <3>1. /\ h.hdr \in [Addr -> Word] /\ h.ftr \in [Addr -> Word]
          /\ Tiles(h.hdr, h.ftr, bp, h.blocks)
      BY <1>0, SoundTypes DEF bp
    <3>z. end \in Addr /\ bp + 2 <= end /\ t \in Word /\ g.blocks = h.blocks \union {bp}
      BY <2>3, <2>5, <2>7
    <3>2. t.size = end - bp
      BY <2>3, <2>6
    <3> QED BY <2>8, <3>1, <3>2, <3>z, Extend
  <2>10. Sound(g)
    BY <2>2, <2>7, <2>9 DEF Sound
  <2>11. /\ g.hdr[bp] = t /\ g.hdr[end] = Tag(0, TRUE)
         /\ \A b \in Addr \ {bp, end} : g.hdr[b] = h.hdr[b]
         /\ \A b \in Addr \ {end} : g.ftr[b] = h.ftr[b]
    BY <2>8 DEF Stored, Stored2
  <2>12. \A b \in h.blocks : g.hdr[b] = h.hdr[b] /\ After(g.hdr, b) = After(h.hdr, b)
    BY <2>2, <2>3, <2>11 DEF After
  <2>13. \A b \in g.blocks : \/ b = bp \/ After(g.hdr, b) = bp
                             \/ g.hdr[b].alloc \/ g.hdr[After(g.hdr, b)].alloc
    <3> SUFFICES ASSUME NEW b \in h.blocks, After(h.hdr, b) # bp
                 PROVE  g.hdr[b].alloc \/ g.hdr[After(g.hdr, b)].alloc
      BY <2>7, <2>12
    <3>1. h.hdr[b].alloc \/ h.hdr[After(h.hdr, b)].alloc
      BY <1>0 DEF Joined
    <3>2. After(h.hdr, b) \in h.blocks
      BY <1>0, SoundTypes DEF bp
    <3> QED BY <2>12, <3>1, <3>2
  <2>14. bp \in g.blocks \ {heap_listp} /\ ~g.hdr[bp].alloc
    BY <2>2, <2>6, <2>7, <2>11
  <2> HIDE DEF r
  <2>15. Coalesces(r.heap, r.ptr, g, bp)
    BY <2>1, <2>10, <2>13, <2>14, CoalesceEffect
  <2>16. Live(g) = Live(h)
    BY <2>7, <2>12, <2>14 DEF Live
  <2>17. ASSUME NEW b \in Live(h) PROVE Kept(h, g, b)
    <3>1. b \in h.blocks
      BY DEF Live
    <3>2. \A a \in Addr \ (h.blocks \union {h.brk}) :
            b < a /\ a < After(h.hdr, b) => g.hdr[a] = h.hdr[a] /\ g.ftr[a] = h.ftr[a]
      <4> SUFFICES ASSUME NEW a \in Addr, a < After(h.hdr, b), a # bp
                   PROVE  g.hdr[a] = h.hdr[a] /\ g.ftr[a] = h.ftr[a]
        BY DEF bp
      <4>1. After(h.hdr, b) <= bp /\ After(h.hdr, b) \in Int /\ a \in Int
        BY <1>0, <3>1, SoundTypes DEF bp, Addr
      <4>2. a # end
        BY <2>2, <2>3, <4>1
      <4> QED BY <2>11, <4>2
    <3> QED BY <1>0, <2>7, <2>12, <3>1, <3>2, KeptBlock
  <2>18. ASSUME NEW b \in Live(h) PROVE Kept(h, r.heap, b)
    <3>1. Kept(h, g, b) /\ Kept(g, r.heap, b)
      BY <2>15, <2>16, <2>17 DEF Coalesces
    <3>2. After(g.hdr, b) = After(h.hdr, b)
      BY <2>12 DEF Live
    <3> QED BY <3>1, <3>2 DEF Kept
  <2>19. size <= r.heap.hdr[r.ptr].size /\ h.brk <= r.heap.brk
    <3>1. g.hdr[bp].size <= r.heap.hdr[r.ptr].size /\ r.heap.brk = end
      BY <2>7, <2>15 DEF Coalesces
    <3>2. bp <= end
      BY <2>2, <2>3
    <3> QED BY <2>6, <2>11, <3>1, <3>2 DEF bp
  <2>20. Extends(r.heap, r.ptr, h, size)
    BY <2>15, <2>16, <2>18, <2>19 DEF Extends, Coalesces, Good, Fits
  <2> QED BY <2>20 DEF r
<1> QED BY <1>1, <1>2

(* mm_init makes an empty heap of whatever the memory held. *)
Empties(h2) == Good(h2) /\ Live(h2) = {}

(* mm_init does what its comment says from any contents of the memory,     *)
(* those of the last trace included.                                       *)
LEMMA InitEffect ==
  ASSUME NEW h \in HeapType
  PROVE  Empties(mm_init(h))
<1> DEFINE a == Tag(0, FALSE)
           t == Tag(1, TRUE)
           z == Tag(0, TRUE)
           ft == [[h.ftr EXCEPT ![1] = a] EXCEPT ![2] = t]
           hd == [[h.hdr EXCEPT ![1] = t] EXCEPT ![2] = z]
           g == [h EXCEPT !.ftr[1] = Tag(0, FALSE),
                          !.hdr[1] = Tag(1, TRUE), !.ftr[2] = Tag(1, TRUE),
                          !.hdr[2] = Tag(0, TRUE),
                          !.brk = 2, !.next = heap_listp, !.blocks = {heap_listp}]
<1>1. /\ h.hdr \in [Addr -> Word] /\ h.ftr \in [Addr -> Word]
      /\ h = [hdr |-> h.hdr, ftr |-> h.ftr, brk |-> h.brk, next |-> h.next, blocks |-> h.blocks]
  <2>1. h = [hdr |-> h.hdr, ftr |-> h.ftr, brk |-> h.brk, next |-> h.next, blocks |-> h.blocks]
    BY DEF HeapType
  <2> QED BY <2>1, HeapFields
<1>2. a \in Word /\ t \in Word /\ z \in Word /\ 1 \in Addr /\ 2 \in Addr /\ 2 \in 0 .. MaxHeap
  BY ChunkAssumption, MaxHeapAssumption DEF Tag, Word, Addr
<1>3. t.size = 1 /\ t.alloc = TRUE /\ t = Tag(1, TRUE) /\ z = Tag(0, TRUE)
  BY DEF Tag
<1>4. g = [hdr |-> hd, ftr |-> ft, brk |-> 2, next |-> heap_listp, blocks |-> {heap_listp}]
  <2> DEFINE ft1 == [h.ftr EXCEPT ![1] = a]
             hd1 == [h.hdr EXCEPT ![1] = t]
             g1 == [h EXCEPT !.ftr[1] = a]
             g2 == [g1 EXCEPT !.hdr[1] = t]
             g3 == [g2 EXCEPT !.ftr[2] = t]
             g4 == [g3 EXCEPT !.hdr[2] = z]
  <2>1. g = [g4 EXCEPT !.brk = 2, !.next = heap_listp, !.blocks = {heap_listp}]
    OBVIOUS
  <2> HIDE DEF a, t, z, g
  <2>2. g1 = [hdr |-> h.hdr, ftr |-> ft1, brk |-> h.brk, next |-> h.next, blocks |-> h.blocks]
    BY <1>1
  <2> HIDE DEF g1
  <2>3. g2 = [hdr |-> hd1, ftr |-> ft1, brk |-> h.brk, next |-> h.next, blocks |-> h.blocks]
    BY <2>2
  <2> HIDE DEF g2
  <2>4. g3 = [hdr |-> hd1, ftr |-> ft, brk |-> h.brk, next |-> h.next, blocks |-> h.blocks]
    <3> HIDE DEF ft1, hd1
    <3> QED BY <2>3 DEF ft1
  <2> HIDE DEF g3
  <2>5. g4 = [hdr |-> hd, ftr |-> ft, brk |-> h.brk, next |-> h.next, blocks |-> h.blocks]
    <3> HIDE DEF ft, hd1
    <3> QED BY <2>4 DEF hd1
  <2> HIDE DEF g4, hd, ft
  <2> QED BY <2>1, <2>5
<1>5. mm_init(h) = extend_heap(g, Chunk).heap
  BY DEF mm_init
<1> HIDE DEF a, t, z, g
<1>6. /\ hd \in [Addr -> Word] /\ ft \in [Addr -> Word]
      /\ hd[1] = t /\ hd[2] = z /\ ft[2] = t
  <2> DEFINE hd1 == [h.hdr EXCEPT ![1] = t]
             ft1 == [h.ftr EXCEPT ![1] = a]
  <2>1. hd1 \in [Addr -> Word] /\ hd1[1] = t /\ ft1 \in [Addr -> Word]
    BY <1>1, <1>2
  <2> HIDE DEF hd1, ft1
  <2>2. [hd1 EXCEPT ![2] = z] \in [Addr -> Word] /\ [ft1 EXCEPT ![2] = t] \in [Addr -> Word]
    BY <1>2, <2>1
  <2>3. [hd1 EXCEPT ![2] = z][1] = t /\ [hd1 EXCEPT ![2] = z][2] = z /\ [ft1 EXCEPT ![2] = t][2] = t
    BY <1>2, <2>1
  <2> QED BY <2>2, <2>3 DEF hd1, ft1
<1> HIDE DEF hd, ft
<1>7. /\ g.hdr = hd /\ g.ftr = ft /\ g.brk = 2 /\ g.next = 1 /\ g.blocks = {1} /\ g \in HeapType
  <2>1. 1 \in Addr /\ 2 \in 0 .. MaxHeap /\ {1} \in SUBSET Addr
    BY <1>2
  <2> QED BY <1>4, <1>6, <2>1 DEF HeapType, heap_listp
<1>8. After(hd, 1) = 2
  <2>1. hd[1].size = 1
    BY <1>3, <1>6
  <2> HIDE DEF t
  <2>2. 1 + hd[1].size = 2
    BY <2>1
  <2> QED BY <2>2 DEF After
<1>9. Tiles(hd, ft, 2, {1})
  <2>1. Walls(hd, 2, {1})
    BY <1>2, <1>3, <1>6 DEF Walls, heap_listp
  <2>2. Tile(hd, ft, 2, {1}, 1)
    BY <1>6, <1>8 DEF Tile, heap_listp
  <2>3. \A b \in {1} \union {2} : b = heap_listp \/ \E c \in {1} : After(hd, c) = b
    BY <1>8 DEF heap_listp
  <2> QED BY <2>1, <2>2, <2>3 DEF Tiles
<1>10. Sound(g)
  BY <1>7, <1>9 DEF Sound
<1>11. Joined(g) /\ Live(g) = {}
  BY <1>3, <1>6, <1>7 DEF Joined, Live, heap_listp
<1>12. Good(g)
  BY <1>10, <1>11 DEF Good
<1> DEFINE r == extend_heap(g, Chunk)
<1>13. r = Result(g, NULL) \/ Extends(r.heap, r.ptr, g, Chunk)
  BY <1>12, ChunkAssumption, ExtendEffect
<1> HIDE DEF r
<1>14. Good(r.heap) /\ Live(r.heap) = {}
  BY <1>11, <1>12, <1>13 DEF Extends, Result
<1> QED BY <1>5, <1>14 DEF Empties, r

(* mm_free takes the block out of use and touches no other. *)
Frees(h2, h, bp) ==
  /\ Good(h2)
  /\ Live(h2) = Live(h) \ {bp}
  /\ \A b \in Live(h) \ {bp} : Kept(h, h2, b)
  /\ h2.brk = h.brk

(* mm_free of a block in use.                                              *)
LEMMA FreeEffect ==
  ASSUME NEW h, Good(h), NEW bp \in Live(h)
  PROVE  Frees(mm_free(h, bp), h, bp)
<1> DEFINE g == WithTags(h, bp, Size(h, bp), FALSE)
           r == coalesce(g, bp)
<1>1. Sound(h) /\ Joined(h) /\ bp \in h.blocks \ {heap_listp} /\ h.hdr[bp].alloc
  BY DEF Good, Live
<1>2. bp # NULL /\ bp \in Int /\ h.brk \notin h.blocks
  BY <1>1, SoundTypes DEF NULL, Addr
<1>3. mm_free(h, bp) = r.heap
  BY <1>2 DEF mm_free
<1>4. Retagged(g, h, bp, FALSE)
  BY <1>1, RetagEffect
<1> HIDE DEF g
<1>5. /\ Sound(g) /\ g.blocks = h.blocks /\ g.brk = h.brk /\ g.hdr[bp].alloc = FALSE
      /\ \A b \in (h.blocks \union {h.brk}) \ {bp} : g.hdr[b] = h.hdr[b]
      /\ \A b \in h.blocks : After(g.hdr, b) = After(h.hdr, b)
      /\ \A b \in h.blocks \ {bp} : Kept(h, g, b)
  BY <1>4 DEF Retagged
<1>6. \A b \in g.blocks : \/ b = bp \/ After(g.hdr, b) = bp
                          \/ g.hdr[b].alloc \/ g.hdr[After(g.hdr, b)].alloc
  <2> SUFFICES ASSUME NEW b \in h.blocks, b # bp, After(h.hdr, b) # bp
               PROVE  g.hdr[b].alloc \/ g.hdr[After(h.hdr, b)].alloc
    BY <1>5
  <2>1. h.hdr[b].alloc \/ h.hdr[After(h.hdr, b)].alloc
    BY <1>1 DEF Joined
  <2>2. After(h.hdr, b) \in h.blocks \union {h.brk}
    BY <1>1, SoundTypes
  <2> QED BY <1>5, <2>1, <2>2
<1> HIDE DEF r
<1>7. Coalesces(r.heap, r.ptr, g, bp)
  BY <1>1, <1>5, <1>6, CoalesceEffect DEF r
<1>8. Live(g) = Live(h) \ {bp}
  BY <1>5 DEF Live
<1>9. ASSUME NEW b \in Live(h) \ {bp} PROVE Kept(h, r.heap, b)
  <2>1. Kept(h, g, b) /\ Kept(g, r.heap, b) /\ After(g.hdr, b) = After(h.hdr, b)
    BY <1>5, <1>7, <1>8 DEF Coalesces, Live
  <2> QED BY <2>1 DEF Kept
<1>10. Frees(r.heap, h, bp)
  BY <1>5, <1>7, <1>8, <1>9 DEF Frees, Coalesces, Good
<1> QED BY <1>3, <1>10

(* A block for n bytes has come into use, and it was not in use before. *)
Allots(h2, p, h, n) ==
  /\ Good(h2)
  /\ p \in h2.blocks \ {heap_listp} /\ p \notin Live(h)
  /\ Live(h2) = Live(h) \union {p}
  /\ \A b \in Live(h) : Kept(h, h2, b)
  /\ Adjusted(n) <= h2.hdr[p].size
  /\ h.brk <= h2.brk

(* mm_malloc returns NULL and leaves the heap alone, or hands out a block  *)
(* that was in nobody's use.                                               *)
LEMMA MallocEffect ==
  ASSUME NEW h, Good(h), NEW n \in Nat
  PROVE  LET r == mm_malloc(h, n)
         IN  r = Result(h, NULL) \/ (r.ptr # NULL /\ n # 0 /\ Allots(r.heap, r.ptr, h, n))
<1> DEFINE asize == Adjusted(n)
           size == IF asize > Chunk THEN asize ELSE Chunk
           fit == find_fit(h, asize)
           extended == extend_heap(h, size)
           r == mm_malloc(h, n)
<1>1. asize \in Nat /\ 2 <= asize /\ size \in Nat /\ asize <= size
  <2>1. asize \in Nat /\ 2 <= asize
    BY DEF Adjusted, DSIZE
  <2> HIDE DEF asize
  <2> QED BY <2>1, ChunkAssumption
<1>2. Sound(h) /\ Joined(h)
  BY DEF Good
<1>3. CASE n = 0
  BY <1>3 DEF mm_malloc
<1>4. CASE n # 0 /\ fit # NULL
  <2> DEFINE g == [h EXCEPT !.next = fit]
             p == place(g, fit, asize)
  <2>1. r = Result(p, fit)
    BY <1>4 DEF mm_malloc
  <2>2. Fits(h, fit, asize)
    BY <1>2, <1>4, FindFitEffect
  <2> HIDE DEF fit
  <2>3. fit \in h.blocks \ {heap_listp} /\ ~h.hdr[fit].alloc /\ asize <= h.hdr[fit].size /\ fit \in Addr
    BY <1>2, <2>2, SoundTypes DEF Fits
  <2>4. /\ g \in HeapType /\ g.hdr = h.hdr /\ g.ftr = h.ftr /\ g.brk = h.brk
        /\ g.blocks = h.blocks /\ g.next = fit
    <3>1. h \in HeapType
      BY <1>2 DEF Sound
    <3> QED BY <2>3, <3>1 DEF HeapType
  <2> HIDE DEF g
  <2>5. Good(g) /\ Live(g) = Live(h)
    BY <1>2, <2>3, <2>4 DEF Good, Sound, Joined, Live
  <2> HIDE DEF asize
  <2>6. Places(p, g, fit, asize)
    BY <1>1, <2>3, <2>4, <2>5, PlaceEffect
  <2> HIDE DEF p
  <2>7. \A b \in Live(h) : Kept(h, p, b)
    BY <2>4, <2>5, <2>6 DEF Places, Kept
  <2>b. h.brk <= p.brk
    BY <1>2, <2>4, <2>6, SoundTypes DEF Places
  <2>8. Allots(p, fit, h, n)
    BY <2>3, <2>4, <2>5, <2>6, <2>7, <2>b DEF Allots, Places, Live, asize
  <2> QED BY <1>4, <2>1, <2>8 DEF Result
<1>5. CASE n # 0 /\ fit = NULL /\ extended = Result(h, NULL)
  <2>1. r = extended
    BY <1>5 DEF mm_malloc, Result
  <2> QED BY <1>5, <2>1
<1>6. CASE n # 0 /\ fit = NULL /\ Extends(extended.heap, extended.ptr, h, size)
  <2> DEFINE g == extended.heap
             q == extended.ptr
             p == place(g, q, asize)
  <2>1. /\ Good(g) /\ Live(g) = Live(h) /\ \A b \in Live(h) : Kept(h, g, b)
        /\ q \in g.blocks \ {heap_listp} /\ ~g.hdr[q].alloc /\ size <= g.hdr[q].size
        /\ h.brk <= g.brk
    <3> HIDE DEF extended, size
    <3> QED BY <1>6 DEF Extends, Fits
  <2>2. Sound(g) /\ g.hdr[q].size \in Nat /\ q # NULL
    <3>1. Sound(g)
      BY <2>1 DEF Good
    <3> HIDE DEF g, q
    <3> QED BY <2>1, <3>1, SoundTypes DEF NULL, Addr
  <2>3. r = Result(p, q)
    BY <1>6, <2>2 DEF mm_malloc
  <2> HIDE DEF g, q, r, asize, size, p
  <2>4. asize <= g.hdr[q].size
    BY <1>1, <2>1, <2>2
  <2>5. Places(p, g, q, asize)
    BY <1>1, <2>1, <2>4, PlaceEffect DEF p
  <2>6. ASSUME NEW b \in Live(h) PROVE Kept(h, p, b)
    <3>1. Kept(h, g, b) /\ Kept(g, p, b)
      BY <2>1, <2>5 DEF Places
    <3>2. After(g.hdr, b) = After(h.hdr, b)
      BY <3>1 DEF Kept, After
    <3> QED BY <3>1, <3>2 DEF Kept
  <2>7. Allots(p, q, h, n)
    <3>1. q \notin Live(h)
      BY <2>1 DEF Live
    <3> QED BY <2>1, <2>5, <2>6, <3>1 DEF Allots, Places, asize
  <2>8. r.heap = p /\ r.ptr = q
    BY <2>3 DEF Result
  <2>9. r.ptr # NULL /\ Allots(r.heap, r.ptr, h, n)
    BY <2>2, <2>7, <2>8
  <2> QED BY <1>6, <2>9 DEF r
<1>7. extended = Result(h, NULL) \/ Extends(extended.heap, extended.ptr, h, size)
  <2>1. 2 <= size
    <3> HIDE DEF asize
    <3> QED BY <1>1, ChunkAssumption
  <2> HIDE DEF size
  <2> QED BY <1>1, <2>1, ExtendEffect
<1> QED BY <1>3, <1>4, <1>5, <1>6, <1>7

-----------------------------------------------------------------------------
(* The block of a request has room for it besides the doubleword of tags.  *)
LEMMA RoomForRequest ==
  ASSUME NEW n \in Nat, n # 0
  PROVE  /\ Doublewords(n) \in Nat /\ Adjusted(n) \in Nat
         /\ 1 <= Doublewords(n) /\ Doublewords(n) + 1 <= Adjusted(n)
         /\ n <= DSIZE * Doublewords(n)
  BY DEF Doublewords, Adjusted, DSIZE

(* h2 is h but for words inside the block bp, and so still a sound heap.   *)
Outside(h2, h, bp) ==
  /\ h2 \in HeapType
  /\ h2.brk = h.brk /\ h2.next = h.next /\ h2.blocks = h.blocks
  /\ \A a \in Addr : a <= bp \/ After(h.hdr, bp) <= a =>
                       h2.hdr[a] = h.hdr[a] /\ h2.ftr[a] = h.ftr[a]

(* The blocks of h2 are those of h, and no other block than bp has been    *)
(* written to.                                                             *)
Writes(h2, h, bp) ==
  /\ Good(h2) /\ Live(h2) = Live(h) /\ h2.brk = h.brk /\ h2.blocks = h.blocks
  /\ \A b \in h.blocks : h2.hdr[b] = h.hdr[b]
  /\ \A b \in Live(h) \ {bp} : Kept(h, h2, b)

(* Writing between the tags of a block in use damages nothing.             *)
LEMMA WriteEffect ==
  ASSUME NEW h, Good(h), NEW bp \in Live(h), NEW h2, Outside(h2, h, bp)
  PROVE  Writes(h2, h, bp)
<1>1. Sound(h) /\ Joined(h) /\ bp \in h.blocks
  BY DEF Good, Live
<1>2. /\ h2 \in HeapType /\ h2.brk = h.brk /\ h2.next = h.next /\ h2.blocks = h.blocks
      /\ \A a \in Addr : a <= bp \/ After(h.hdr, bp) <= a =>
                           h2.hdr[a] = h.hdr[a] /\ h2.ftr[a] = h.ftr[a]
  BY DEF Outside
<1>3. \A b \in h.blocks \union {h.brk} : h2.hdr[b] = h.hdr[b] /\ h2.ftr[b] = h.ftr[b]
  BY <1>1, <1>2, SoundTypes
<1>4. \A b \in h.blocks : After(h2.hdr, b) = After(h.hdr, b)
  BY <1>3 DEF After
<1>5. Tiles(h2.hdr, h2.ftr, h2.brk, h2.blocks)
  <2>0. Tiles(h.hdr, h.ftr, h.brk, h.blocks)
    BY <1>1, SoundTypes
  <2>1. Walls(h2.hdr, h2.brk, h2.blocks)
    BY <1>2, <1>3, <2>0 DEF Tiles, Walls
  <2>2. ASSUME NEW b \in h.blocks PROVE Tile(h2.hdr, h2.ftr, h2.brk, h2.blocks, b)
    <3>1. Tile(h.hdr, h.ftr, h.brk, h.blocks, b)
      BY <2>0 DEF Tiles
    <3> QED BY <1>2, <1>3, <1>4, <3>1 DEF Tile
  <2>3. \A b \in h2.blocks \union {h2.brk} :
          b = heap_listp \/ \E c \in h2.blocks : After(h2.hdr, c) = b
    BY <1>2, <1>4, <2>0 DEF Tiles
  <2> QED BY <1>2, <2>1, <2>2, <2>3 DEF Tiles
<1>6. Sound(h2)
  BY <1>1, <1>2, <1>5 DEF Sound
<1>7. Joined(h2)
  <2> SUFFICES ASSUME NEW b \in h.blocks PROVE h2.hdr[b].alloc \/ h2.hdr[After(h2.hdr, b)].alloc
    BY <1>2 DEF Joined
  <2>1. h.hdr[b].alloc \/ h.hdr[After(h.hdr, b)].alloc
    BY <1>1 DEF Joined
  <2>2. After(h.hdr, b) \in h.blocks \union {h.brk}
    BY <1>1, SoundTypes
  <2> QED BY <1>3, <1>4, <2>1, <2>2
<1>8. Live(h2) = Live(h)
  BY <1>2, <1>3 DEF Live
<1>9. ASSUME NEW b \in Live(h) \ {bp} PROVE Kept(h, h2, b)
  <2>1. b \in h.blocks /\ b # bp
    BY DEF Live
  <2>2. \A a \in Addr \ (h.blocks \union {h.brk}) :
          b < a /\ a < After(h.hdr, b) => h2.hdr[a] = h.hdr[a] /\ h2.ftr[a] = h.ftr[a]
    <3> SUFFICES ASSUME NEW a \in Addr, b < a, a < After(h.hdr, b)
                 PROVE  a <= bp \/ After(h.hdr, bp) <= a
      BY <1>2
    <3>1. After(h.hdr, b) <= bp \/ After(h.hdr, bp) <= b
      <4>1. /\ b <= bp \/ After(h.hdr, bp) <= b
            /\ bp <= b \/ After(h.hdr, b) <= bp
        BY <1>1, <2>1, SoundTypes
      <4>2. b \in Int /\ bp \in Int
        BY <1>1, <2>1, SoundTypes
      <4> QED BY <2>1, <4>1, <4>2
    <3>2. /\ After(h.hdr, b) \in Int /\ After(h.hdr, bp) \in Int
          /\ b \in Int /\ bp \in Int /\ a \in Int
      BY <1>1, <2>1, SoundTypes DEF Addr
    <3> QED BY <3>1, <3>2
  <2> QED BY <1>1, <1>2, <1>3, <2>1, <2>2, KeptBlock
<1> QED BY <1>2, <1>3, <1>6, <1>7, <1>8, <1>9 DEF Writes, Good

(* The client fills its block without leaving it.                          *)
Fills(h2, h, bp, c, count) ==
  /\ Writes(h2, h, bp)
  /\ \A k \in 1 .. count : h2.hdr[bp + k] = Data(c) /\ h2.ftr[bp + k] = Data(c)

(* memset of at most the room of a block.                                  *)
LEMMA MemsetEffect ==
  ASSUME NEW h, Good(h), NEW bp \in Live(h), NEW c \in Patterns,
         NEW count \in Nat, count + 1 <= h.hdr[bp].size
  PROVE  Fills(memset(h, bp, c, count), h, bp, c, count)
<1> DEFINE hd == FilledWith(h.hdr, bp, c, count)
           ft == FilledWith(h.ftr, bp, c, count)
           h2 == memset(h, bp, c, count)
<1>1. Sound(h) /\ bp \in h.blocks
  BY DEF Good, Live
<1>2. /\ h \in HeapType /\ h.hdr \in [Addr -> Word] /\ h.ftr \in [Addr -> Word]
      /\ bp \in Int /\ h.hdr[bp].size \in Nat /\ bp \in Addr
      /\ After(h.hdr, bp) = bp + h.hdr[bp].size /\ After(h.hdr, bp) \in Addr
  BY <1>1, SoundTypes
<1>3. Data(c) \in Word
  BY MaxHeapAssumption DEF Data, Word
<1>4. /\ hd \in [Addr -> Word] /\ ft \in [Addr -> Word]
      /\ \A a \in Addr : /\ hd[a] = IF bp < a /\ a <= bp + count THEN Data(c) ELSE h.hdr[a]
                         /\ ft[a] = IF bp < a /\ a <= bp + count THEN Data(c) ELSE h.ftr[a]
  BY <1>2, <1>3 DEF FilledWith
<1>5. h2 = [h EXCEPT !.hdr = hd, !.ftr = ft]
  BY DEF memset
<1> HIDE DEF hd, ft, h2
<1>6. /\ h2 \in HeapType /\ h2.hdr = hd /\ h2.ftr = ft
      /\ h2.brk = h.brk /\ h2.next = h.next /\ h2.blocks = h.blocks
  BY <1>2, <1>4, <1>5 DEF HeapType
<1>7. Outside(h2, h, bp)
  <2> SUFFICES ASSUME NEW a \in Addr, a <= bp \/ After(h.hdr, bp) <= a
               PROVE  h2.hdr[a] = h.hdr[a] /\ h2.ftr[a] = h.ftr[a]
    BY <1>6 DEF Outside
  <2>1. a \in Int
    BY DEF Addr
  <2>2. ~(bp < a /\ a <= bp + count)
    BY <1>2, <2>1
  <2> QED BY <1>4, <1>6, <2>2
<1>8. ASSUME NEW k \in 1 .. count PROVE h2.hdr[bp + k] = Data(c) /\ h2.ftr[bp + k] = Data(c)
  <2>1. bp + k \in Addr /\ bp < bp + k /\ bp + k <= bp + count
    BY <1>2, MaxHeapAssumption DEF Addr
  <2> QED BY <1>4, <1>6, <2>1
<1>9. Writes(h2, h, bp)
  BY <1>7, WriteEffect
<1>10. Fills(h2, h, bp, c, count)
  BY <1>8, <1>9 DEF Fills
<1> QED BY <1>10 DEF h2

(* memcpy copies into a block without leaving it. *)
Copies(h2, h, to, from, count) ==
  /\ Writes(h2, h, to)
  /\ \A k \in 1 .. count : h2.hdr[to + k] = h.hdr[from + k] /\ h2.ftr[to + k] = h.ftr[from + k]

(* memcpy into at most the room of a block. It may read the next header    *)
(* after the old block, never past the memory.                             *)
LEMMA MemcpyEffect ==
  ASSUME NEW h, Good(h), NEW to \in Live(h), NEW from \in Live(h),
         NEW count \in Nat, count + 1 <= h.hdr[to].size, count <= h.hdr[from].size
  PROVE  Copies(memcpy(h, to, from, count), h, to, from, count)
<1> DEFINE hd == CopiedFrom(h.hdr, to, from, count)
           ft == CopiedFrom(h.ftr, to, from, count)
           h2 == memcpy(h, to, from, count)
<1>1. Sound(h) /\ to \in h.blocks /\ from \in h.blocks
  BY DEF Good, Live
<1>2. /\ h \in HeapType /\ h.hdr \in [Addr -> Word] /\ h.ftr \in [Addr -> Word]
      /\ to \in Int /\ h.hdr[to].size \in Nat /\ to \in Addr
      /\ After(h.hdr, to) = to + h.hdr[to].size /\ After(h.hdr, to) \in Addr
  BY <1>1, SoundTypes
<1>f. /\ from \in Int /\ h.hdr[from].size \in Nat /\ from \in Addr
      /\ After(h.hdr, from) = from + h.hdr[from].size /\ After(h.hdr, from) \in Addr
  BY <1>1, SoundTypes
<1>3. \A a \in Addr : to < a /\ a <= to + count => a - to + from \in Addr
  <2>1. from + count <= MaxHeap /\ from >= 1 /\ from \in Int
    <3>1. from + count <= After(h.hdr, from)
      BY <1>f
    <3>2. After(h.hdr, from) \in Int /\ After(h.hdr, from) <= MaxHeap
      BY <1>f, MaxHeapAssumption DEF Addr
    <3>3. from \in Int /\ from >= 1
      BY <1>f DEF Addr
    <3> QED BY <3>1, <3>2, <3>3, MaxHeapAssumption
  <2>2. to \in Int
    BY <1>2
  <2> QED BY <2>1, <2>2, MaxHeapAssumption DEF Addr
<1>4. /\ hd \in [Addr -> Word] /\ ft \in [Addr -> Word]
      /\ \A a \in Addr :
           /\ hd[a] = IF to < a /\ a <= to + count THEN h.hdr[a - to + from] ELSE h.hdr[a]
           /\ ft[a] = IF to < a /\ a <= to + count THEN h.ftr[a - to + from] ELSE h.ftr[a]
  <2> DEFINE C(w) == CopiedFrom(w, to, from, count)
  <2>1. ASSUME NEW w \in [Addr -> Word]
        PROVE  /\ C(w) \in [Addr -> Word]
               /\ \A a \in Addr : C(w)[a] = IF to < a /\ a <= to + count
                                           THEN w[a - to + from] ELSE w[a]
    <3>1. ASSUME NEW a \in Addr
          PROVE  (IF to < a /\ a <= to + count THEN w[a - to + from] ELSE w[a]) \in Word
      BY <1>3
    <3> QED BY <3>1 DEF CopiedFrom
  <2>2. hd = C(h.hdr) /\ ft = C(h.ftr)
    OBVIOUS
  <2> HIDE DEF C, hd, ft
  <2> QED BY <1>2, <2>1, <2>2
<1>5. h2 = [h EXCEPT !.hdr = hd, !.ftr = ft]
  BY DEF memcpy
<1> HIDE DEF hd, ft, h2
<1>6. /\ h2 \in HeapType /\ h2.hdr = hd /\ h2.ftr = ft
      /\ h2.brk = h.brk /\ h2.next = h.next /\ h2.blocks = h.blocks
  BY <1>2, <1>4, <1>5 DEF HeapType
<1>7. Outside(h2, h, to)
  <2> SUFFICES ASSUME NEW a \in Addr, a <= to \/ After(h.hdr, to) <= a
               PROVE  h2.hdr[a] = h.hdr[a] /\ h2.ftr[a] = h.ftr[a]
    BY <1>6 DEF Outside
  <2>1. a \in Int
    BY DEF Addr
  <2>2. ~(to < a /\ a <= to + count)
    BY <1>2, <2>1
  <2> QED BY <1>4, <1>6, <2>2
<1>8. ASSUME NEW k \in 1 .. count
      PROVE  h2.hdr[to + k] = h.hdr[from + k] /\ h2.ftr[to + k] = h.ftr[from + k]
  <2>0. k \in Int /\ 1 <= k /\ k <= count /\ to \in Int /\ from \in Int
    BY <1>2, <1>f
  <2>a. to + k <= MaxHeap /\ 1 <= to
    BY <1>2, <2>0, MaxHeapAssumption DEF Addr
  <2>1. /\ to + k \in Addr /\ to < to + k /\ to + k <= to + count
        /\ (to + k) - to + from = from + k
    BY <2>0, <2>a, MaxHeapAssumption DEF Addr
  <2>2. /\ hd[to + k] = h.hdr[(to + k) - to + from]
        /\ ft[to + k] = h.ftr[(to + k) - to + from]
    BY <1>4, <2>1
  <2> QED BY <1>6, <2>1, <2>2
<1>9. Writes(h2, h, to)
  BY <1>7, WriteEffect
<1>10. Copies(h2, h, to, from, count)
  BY <1>8, <1>9 DEF Copies
<1> QED BY <1>10 DEF h2

(* The block bp has moved to p, where a block for n bytes is in use that   *)
(* was not in use before, with as much of the contents as there were.      *)
Moves(h2, p, h, bp, n) ==
  /\ Good(h2)
  /\ p \in h2.blocks \ {heap_listp} /\ p \notin Live(h)
  /\ Live(h2) = (Live(h) \ {bp}) \union {p}
  /\ \A b \in Live(h) \ {bp} : Kept(h, h2, b)
  /\ Adjusted(n) <= h2.hdr[p].size
  /\ h.brk <= h2.brk
  /\ \A k \in 1 .. Doublewords(n) :
       k < h.hdr[bp].size => /\ h2.hdr[p + k] = h.hdr[bp + k]
                             /\ h2.ftr[p + k] = h.ftr[bp + k]

(* mm_realloc of a block in use returns NULL and leaves the heap alone, or *)
(* moves the block: the contents survive the search, the split and the     *)
(* joins in between.                                                       *)
LEMMA ReallocEffect ==
  ASSUME NEW h, Good(h), NEW bp \in Live(h), NEW n \in Nat, n # 0
  PROVE  LET r == mm_realloc(h, bp, n)
         IN  r = Result(h, NULL) \/ (r.ptr # NULL /\ Moves(r.heap, r.ptr, h, bp, n))
<1> DEFINE new == mm_malloc(h, n)
           g == new.heap
           p == new.ptr
           oldsize == g.hdr[bp].size
           count == IF Doublewords(n) < oldsize THEN Doublewords(n) ELSE oldsize
           c == memcpy(g, p, bp, count)
           f == mm_free(c, bp)
           r == mm_realloc(h, bp, n)
<1>1. Sound(h) /\ bp \in h.blocks /\ bp # NULL
  <2>1. Sound(h) /\ bp \in h.blocks
    BY DEF Good, Live
  <2> QED BY <2>1, SoundTypes DEF NULL, Addr
<1>2. new = Result(h, NULL) \/ (p # NULL /\ Allots(g, p, h, n))
  BY MallocEffect
<1>3. CASE new = Result(h, NULL)
  BY <1>3 DEF mm_realloc, Result
<1>4. CASE p # NULL /\ Allots(g, p, h, n)
  <2>1. r = Result(f, p)
    BY <1>1, <1>4 DEF mm_realloc, Size
  <2> HIDE DEF new, r, f, c, count, oldsize
  <2>2. /\ Good(g) /\ p \in g.blocks \ {heap_listp} /\ p \notin Live(h)
        /\ Live(g) = Live(h) \union {p} /\ \A b \in Live(h) : Kept(h, g, b)
        /\ Adjusted(n) <= g.hdr[p].size /\ h.brk <= g.brk
    BY <1>4 DEF Allots
  <2> HIDE DEF g, p
  <2>3. Sound(g) /\ p \in Live(g) /\ bp \in Live(g) /\ bp # p
    BY <2>2 DEF Good
  <2>4. /\ g.hdr[bp] = h.hdr[bp] /\ oldsize = g.hdr[bp].size /\ oldsize \in Nat
        /\ g.hdr[p].size \in Nat /\ bp \in g.blocks /\ bp \in Int /\ p \in Int
    <3>1. bp \in g.blocks /\ g.hdr[bp] = h.hdr[bp]
      BY <2>2 DEF Kept
    <3> QED BY <2>2, <2>3, <3>1, SoundTypes DEF oldsize
  <2>5. /\ count \in Nat /\ count + 1 <= g.hdr[p].size /\ count <= g.hdr[bp].size
        /\ count <= Doublewords(n) /\ (count = Doublewords(n) \/ count = oldsize)
        /\ Doublewords(n) \in Nat
    <3>1. Doublewords(n) \in Nat /\ Doublewords(n) + 1 <= g.hdr[p].size
      BY <2>2, <2>4, RoomForRequest
    <3> QED BY <2>4, <3>1 DEF count
  <2>6. Copies(c, g, p, bp, count)
    BY <2>2, <2>3, <2>5, MemcpyEffect DEF c
  <2>7. /\ Good(c) /\ Live(c) = Live(g) /\ c.brk = g.brk /\ c.blocks = g.blocks
        /\ \A b \in g.blocks : c.hdr[b] = g.hdr[b]
        /\ \A b \in Live(g) \ {p} : Kept(g, c, b)
        /\ \A k \in 1 .. count : c.hdr[p + k] = g.hdr[bp + k] /\ c.ftr[p + k] = g.ftr[bp + k]
    BY <2>6 DEF Copies, Writes
  <2>8. Frees(f, c, bp)
    BY <2>3, <2>7, FreeEffect DEF f
  <2>9. /\ Good(f) /\ Live(f) = Live(c) \ {bp} /\ f.brk = c.brk
        /\ \A b \in Live(c) \ {bp} : Kept(c, f, b)
    BY <2>8 DEF Frees
  <2>10. /\ p \in f.blocks \ {heap_listp} /\ Live(f) = (Live(h) \ {bp}) \union {p}
         /\ Kept(c, f, p) /\ f.hdr[p] = g.hdr[p]
    <3>1. p \in Live(c) \ {bp}
      BY <2>3, <2>7
    <3>2. Kept(c, f, p)
      BY <2>9, <3>1
    <3>3. Live(f) = (Live(h) \ {bp}) \union {p}
      BY <2>2, <2>3, <2>7, <2>9
    <3> QED BY <2>2, <2>7, <3>2, <3>3 DEF Kept
  <2>11. ASSUME NEW b \in Live(h) \ {bp} PROVE Kept(h, f, b)
    <3>1. Kept(h, g, b) /\ Kept(g, c, b) /\ Kept(c, f, b)
      BY <2>2, <2>7, <2>9
    <3>2. After(g.hdr, b) = After(h.hdr, b) /\ After(c.hdr, b) = After(h.hdr, b)
      BY <3>1 DEF Kept, After
    <3> QED BY <3>1, <3>2 DEF Kept
  <2>12. ASSUME NEW k \in 1 .. Doublewords(n), k < h.hdr[bp].size
         PROVE  f.hdr[p + k] = h.hdr[bp + k] /\ f.ftr[p + k] = h.ftr[bp + k]
    <3>1. k \in 1 .. count /\ k + 1 <= g.hdr[p].size
      BY <2>4, <2>5, <2>12, RoomForRequest, <2>2
    <3>2. bp + k \in bp + 1 .. After(h.hdr, bp) - 1
      BY <1>1, <2>4, <2>12, SoundTypes
    <3>3. g.hdr[bp + k] = h.hdr[bp + k] /\ g.ftr[bp + k] = h.ftr[bp + k]
      BY <2>2, <3>2 DEF Kept
    <3>4. p + k \in p + 1 .. After(c.hdr, p) - 1
      <4>1. After(c.hdr, p) = p + g.hdr[p].size
        BY <2>2, <2>7 DEF After
      <4> QED BY <2>4, <3>1, <4>1
    <3>5. f.hdr[p + k] = c.hdr[p + k] /\ f.ftr[p + k] = c.ftr[p + k]
      BY <2>10, <3>4 DEF Kept
    <3>6. c.hdr[p + k] = g.hdr[bp + k] /\ c.ftr[p + k] = g.ftr[bp + k]
      BY <2>7, <3>1
    <3> QED BY <3>3, <3>5, <3>6
  <2>13. Adjusted(n) <= f.hdr[p].size /\ h.brk <= f.brk
    BY <2>2, <2>7, <2>9, <2>10
  <2>14. Moves(f, p, h, bp, n)
    BY <2>2, <2>9, <2>10, <2>11, <2>12, <2>13 DEF Moves
  <2>15. r.ptr # NULL /\ Moves(r.heap, r.ptr, h, bp, n)
    <3>1. r.heap = f /\ r.ptr = p
      BY <2>1 DEF Result
    <3> QED BY <1>4, <2>14, <3>1 DEF p
  <2> QED BY <2>15 DEF r
<1> QED BY <1>2, <1>3, <1>4

(* Without a block mm_realloc is mm_malloc, and for nothing it is mm_free. *)
LEMMA ReallocOfNull ==
  ASSUME NEW h, NEW n \in Nat, n # 0
  PROVE  mm_realloc(h, NULL, n) = mm_malloc(h, n)
  BY DEF mm_realloc

(* For nothing mm_realloc is mm_free.                                      *)
LEMMA ReallocToNothing ==
  ASSUME NEW h, NEW bp
  PROVE  mm_realloc(h, bp, 0) = Result(mm_free(h, bp), NULL)
  BY DEF mm_realloc

-----------------------------------------------------------------------------
(* Removing the record with a given lower end from a list in which the     *)
(* lower ends differ leaves the others.                                    *)
LEMMA RemoveRange ==
  ASSUME NEW S, NEW rs \in Seq(S), NEW lo,
         NEW k \in 1 .. Len(rs), rs[k].lo = lo,
         \A l \in 1 .. Len(rs) : rs[l].lo = lo => l = k
  PROVE  remove_range(rs, lo) = SubSeq(rs, 1, k - 1) \o SubSeq(rs, k + 1, Len(rs))
<1>1. {l \in 1 .. Len(rs) : rs[l].lo = lo} = {k}
  OBVIOUS
<1>2. Min({k}) = k
  BY DEF Min
<1>3. remove_range(rs, lo) =
        IF \E l \in 1 .. Len(rs) : rs[l].lo = lo
        THEN RemoveAt(rs, LET I == {l \in 1 .. Len(rs) : rs[l].lo = lo}
                          IN IF I # {} THEN Min(I) ELSE 0)
        ELSE rs
  BY DEF remove_range, RemoveFirstMatch, SelectInSeq
<1>4. remove_range(rs, lo) = RemoveAt(rs, k)
  BY <1>1, <1>2, <1>3
<1> QED BY <1>4 DEF RemoveAt

-----------------------------------------------------------------------------
(* The low byte of the index i fills the payload of b.                     *)
Pattern(h, b, i) ==
  \A k \in 1 .. Doublewords(b.size) :
    h.hdr[b.ptr + k] = Data(LowByte[i]) /\ h.ftr[b.ptr + k] = Data(LowByte[i])

(* The index i holds the block b, which is in use and has room.            *)
Owns(h, b, i) ==
  /\ b.ptr \in Live(h) /\ b.size \in Nat /\ b.size # 0
  /\ Doublewords(b.size) + 1 <= h.hdr[b.ptr].size
  /\ Pattern(h, b, i)

(* Every index holds a block of its own or nothing.                        *)
Owned(h, hd) ==
  /\ \A i \in Indices : hd[i] # Free => Owns(h, hd[i], i)
  /\ \A i, j \in Indices :
       hd[i] # Free /\ hd[j] # Free /\ hd[i].ptr = hd[j].ptr => i = j

(* Where the held blocks are.                                              *)
Ptrs(hd) == {hd[i].ptr : i \in {j \in Indices : hd[j] # Free}}

(* The range list has one record for each held block.                      *)
Recorded(rs, hd) ==
  /\ rs \in Seq([lo : Nat, hi : Nat])
  /\ \A k \in 1 .. Len(rs) : \E i \in Indices : hd[i] # Free /\ rs[k] = BlockExtent(hd[i])
  /\ \A i \in Indices : hd[i] # Free => \E k \in 1 .. Len(rs) : rs[k] = BlockExtent(hd[i])
  /\ \A k, l \in 1 .. Len(rs) : rs[k].lo = rs[l].lo => k = l

(* The heap and what the client knows of it agree.                         *)
Agree(h, hd, rs) ==
  /\ hd \in [Indices -> Block]
  /\ Good(h) /\ Owned(h, hd) /\ Live(h) = Ptrs(hd) /\ Recorded(rs, hd)

(* What the client owns is left alone by a step that keeps its blocks. *)
LEMMA OwnedKept ==
  ASSUME NEW h, Good(h), NEW h2, Good(h2), NEW hd, Owned(h, hd),
         \A i \in Indices : hd[i] # Free => hd[i].ptr \in Live(h2) /\ Kept(h, h2, hd[i].ptr)
  PROVE  Owned(h2, hd)
<1>1. Sound(h)
  BY DEF Good
<1>2. ASSUME NEW i \in Indices, hd[i] # Free PROVE Owns(h2, hd[i], i)
  <2> DEFINE b == hd[i]
             p == b.ptr
             d == Doublewords(b.size)
  <2>1. /\ p \in Live(h) /\ b.size \in Nat /\ b.size # 0 /\ d + 1 <= h.hdr[p].size
        /\ \A k \in 1 .. d : h.hdr[p + k] = Data(LowByte[i]) /\ h.ftr[p + k] = Data(LowByte[i])
    BY <1>2 DEF Owned, Owns, Pattern
  <2>2. /\ p \in Live(h2) /\ h2.hdr[p] = h.hdr[p]
        /\ \A a \in p + 1 .. After(h.hdr, p) - 1 : h2.hdr[a] = h.hdr[a] /\ h2.ftr[a] = h.ftr[a]
    BY <1>2 DEF Kept
  <2>3. /\ p \in Int /\ h.hdr[p].size \in Nat /\ After(h.hdr, p) = p + h.hdr[p].size
    BY <1>1, <2>1, SoundTypes DEF Live
  <2>d. d \in Nat
    BY <2>1, RoomForRequest
  <2> HIDE DEF d, p
  <2>4. ASSUME NEW k \in 1 .. d PROVE h2.hdr[p + k] = Data(LowByte[i]) /\ h2.ftr[p + k] = Data(LowByte[i])
    <3>1. p + k \in p + 1 .. After(h.hdr, p) - 1
      BY <2>1, <2>3, <2>d
    <3> QED BY <2>1, <2>2, <3>1
  <2> QED BY <2>1, <2>2, <2>4 DEF Owns, Pattern, d, p
<1> QED BY <1>2 DEF Owned

(* The extent e lies in the interior of the block at p. *)
ExtentIn(h, e, p) ==
  /\ e \in [lo : Nat, hi : Nat]
  /\ e.lo = DSIZE * p /\ DSIZE <= e.lo /\ e.lo <= e.hi
  /\ e.hi < DSIZE * After(h.hdr, p)

(* The payload of a request lies in the interior of a block that has room  *)
(* for it.                                                                 *)
LEMMA ExtentInBlock ==
  ASSUME NEW h, Sound(h), NEW p \in h.blocks, NEW n \in Nat, n # 0,
         Doublewords(n) + 1 <= h.hdr[p].size
  PROVE  ExtentIn(h, Extent(DSIZE * p, n), p)
<1>1. /\ p \in Int /\ p >= 1 /\ h.hdr[p].size \in Nat /\ After(h.hdr, p) = p + h.hdr[p].size
  BY SoundTypes DEF Addr
<1>2. Doublewords(n) \in Nat /\ n <= 8 * Doublewords(n)
  BY RoomForRequest DEF DSIZE
<1> DEFINE s == h.hdr[p].size
           d == Doublewords(n)
<1>3. s \in Nat /\ d \in Nat /\ d + 1 <= s /\ n <= 8 * d
  BY <1>1, <1>2
<1> HIDE DEF s, d
<1>4. 8 * p + n - 1 < 8 * (p + s) /\ 8 * p \in Nat /\ 8 <= 8 * p /\ 8 * p + n - 1 \in Nat
      /\ 8 * p <= 8 * p + n - 1
  BY <1>1, <1>3
<1>5. Extent(DSIZE * p, n) = [lo |-> 8 * p, hi |-> 8 * p + n - 1]
  BY DEF Extent, DSIZE
<1> QED BY <1>1, <1>4, <1>5 DEF DSIZE, s, ExtentIn

(* Payloads in different blocks do not overlap. *)
LEMMA ExtentsApart ==
  ASSUME NEW h, Sound(h), NEW p \in h.blocks, NEW q \in h.blocks, p # q,
         NEW e, ExtentIn(h, e, p), NEW f, ExtentIn(h, f, q)
  PROVE  e.hi < f.lo \/ f.hi < e.lo
<1>1. p \in Int /\ q \in Int /\ After(h.hdr, p) \in Int /\ After(h.hdr, q) \in Int
  BY SoundTypes
<1>2. After(h.hdr, p) <= q \/ After(h.hdr, q) <= p
  <2>1. p <= q \/ After(h.hdr, q) <= p
    BY SoundTypes
  <2>2. q <= p \/ After(h.hdr, p) <= q
    BY SoundTypes
  <2> QED BY <1>1, <2>1, <2>2
<1>3. /\ e.lo \in Nat /\ e.hi \in Nat /\ e.lo = 8 * p /\ e.hi < 8 * After(h.hdr, p)
      /\ f.lo \in Nat /\ f.hi \in Nat /\ f.lo = 8 * q /\ f.hi < 8 * After(h.hdr, q)
  BY DEF ExtentIn, DSIZE
<1> QED BY <1>1, <1>2, <1>3

(* The record of a new block goes to the front of the list. *)
LEMMA AddRecord ==
  ASSUME NEW rs, NEW hd \in [Indices -> Block], Recorded(rs, hd),
         NEW i \in Indices, hd[i] = Free, NEW b \in Block, b # Free,
         BlockExtent(b) \in [lo : Nat, hi : Nat],
         \A j \in Indices : hd[j] # Free => BlockExtent(hd[j]).lo # BlockExtent(b).lo
  PROVE  Recorded(<<BlockExtent(b)>> \o rs, [hd EXCEPT ![i] = b])
<1> DEFINE e == BlockExtent(b)
           rs2 == <<e>> \o rs
           hd2 == [hd EXCEPT ![i] = b]
<1>1. /\ rs \in Seq([lo : Nat, hi : Nat])
      /\ \A k \in 1 .. Len(rs) : \E j \in Indices : hd[j] # Free /\ rs[k] = BlockExtent(hd[j])
      /\ \A j \in Indices : hd[j] # Free => \E k \in 1 .. Len(rs) : rs[k] = BlockExtent(hd[j])
      /\ \A k, l \in 1 .. Len(rs) : rs[k].lo = rs[l].lo => k = l
  BY DEF Recorded
<1>2. hd2[i] = b /\ \A j \in Indices \ {i} : hd2[j] = hd[j]
  OBVIOUS
<1> HIDE DEF e
<1>3. /\ rs2 \in Seq([lo : Nat, hi : Nat]) /\ Len(rs2) = Len(rs) + 1 /\ Len(rs) \in Nat
      /\ rs2[1] = e /\ \A k \in 1 .. Len(rs) : rs2[k + 1] = rs[k]
  <2>1. e \in [lo : Nat, hi : Nat]
    BY DEF e
  <2> QED BY <1>1, <2>1
<1> HIDE DEF rs2, hd2
<1>4. \A k \in 1 .. Len(rs2) : k = 1 \/ (k - 1 \in 1 .. Len(rs) /\ rs2[k] = rs[k - 1])
  <2> SUFFICES ASSUME NEW k \in 1 .. Len(rs2), k # 1
               PROVE  k - 1 \in 1 .. Len(rs) /\ rs2[k] = rs[k - 1]
    OBVIOUS
  <2>1. k - 1 \in 1 .. Len(rs) /\ (k - 1) + 1 = k
    BY <1>3
  <2>2. rs2[(k - 1) + 1] = rs[k - 1]
    BY <1>3, <2>1
  <2> QED BY <2>1, <2>2
<1>5. ASSUME NEW k \in 1 .. Len(rs2)
      PROVE  \E j \in Indices : hd2[j] # Free /\ rs2[k] = BlockExtent(hd2[j])
  <2>1. CASE k = 1
    BY <1>2, <1>3, <2>1 DEF e
  <2>2. CASE k # 1
    <3>1. PICK j \in Indices : hd[j] # Free /\ rs[k - 1] = BlockExtent(hd[j])
      BY <1>1, <1>4, <2>2
    <3> QED BY <1>2, <1>4, <2>2, <3>1
  <2> QED BY <2>1, <2>2
<1>6. ASSUME NEW j \in Indices, hd2[j] # Free
      PROVE  \E k \in 1 .. Len(rs2) : rs2[k] = BlockExtent(hd2[j])
  <2>1. CASE j = i
    <3>1. 1 \in 1 .. Len(rs2)
      BY <1>3
    <3> QED BY <1>2, <1>3, <2>1, <3>1 DEF e
  <2>2. CASE j # i
    <3>1. PICK k \in 1 .. Len(rs) : rs[k] = BlockExtent(hd[j])
      BY <1>1, <1>2, <1>6, <2>2
    <3>2. k + 1 \in 1 .. Len(rs2)
      BY <1>3
    <3> QED BY <1>2, <1>3, <2>2, <3>1, <3>2
  <2> QED BY <2>1, <2>2
<1>7. ASSUME NEW k \in 1 .. Len(rs), rs[k].lo = e.lo PROVE FALSE
  <2>1. PICK j \in Indices : hd[j] # Free /\ rs[k] = BlockExtent(hd[j])
    BY <1>1
  <2> QED BY <1>7, <2>1 DEF e
<1>8. ASSUME NEW k \in 1 .. Len(rs2), NEW l \in 1 .. Len(rs2), rs2[k].lo = rs2[l].lo
      PROVE  k = l
  <2>1. CASE k = 1 /\ l # 1
    BY <1>3, <1>4, <1>7, <1>8, <2>1
  <2>2. CASE k # 1 /\ l = 1
    BY <1>3, <1>4, <1>7, <1>8, <2>2
  <2>3. CASE k # 1 /\ l # 1
    <3>1. /\ k - 1 \in 1 .. Len(rs) /\ rs2[k] = rs[k - 1]
          /\ l - 1 \in 1 .. Len(rs) /\ rs2[l] = rs[l - 1]
      BY <1>4, <2>3
    <3>2. rs[k - 1].lo = rs[l - 1].lo
      BY <1>8, <3>1
    <3>3. k - 1 = l - 1
      BY <1>1, <3>1, <3>2
    <3> QED BY <1>3, <3>3
  <2> QED BY <2>1, <2>2, <2>3
<1>9. Recorded(rs2, hd2)
  BY <1>3, <1>5, <1>6, <1>8 DEF Recorded
<1> QED BY <1>9 DEF rs2, hd2, e

(* The record of a block that is given back is taken out of the list. *)
LEMMA DropRecord ==
  ASSUME NEW rs, NEW hd \in [Indices -> Block], Recorded(rs, hd),
         NEW i \in Indices, hd[i] # Free,
         \A j \in Indices : hd[j] # Free /\ BlockExtent(hd[j]).lo = BlockExtent(hd[i]).lo => j = i
  PROVE  Recorded(remove_range(rs, BlockExtent(hd[i]).lo), [hd EXCEPT ![i] = Free])
<1> DEFINE lo == BlockExtent(hd[i]).lo
           rs2 == remove_range(rs, lo)
           hd2 == [hd EXCEPT ![i] = Free]
<1>1. /\ rs \in Seq([lo : Nat, hi : Nat])
      /\ \A k \in 1 .. Len(rs) : \E j \in Indices : hd[j] # Free /\ rs[k] = BlockExtent(hd[j])
      /\ \A j \in Indices : hd[j] # Free => \E k \in 1 .. Len(rs) : rs[k] = BlockExtent(hd[j])
      /\ \A k, l \in 1 .. Len(rs) : rs[k].lo = rs[l].lo => k = l
  BY DEF Recorded
<1>2. hd2[i] = Free /\ \A j \in Indices \ {i} : hd2[j] = hd[j]
  OBVIOUS
<1>3. PICK at \in 1 .. Len(rs) : rs[at] = BlockExtent(hd[i])
  BY <1>1
<1>4. rs2 = SubSeq(rs, 1, at - 1) \o SubSeq(rs, at + 1, Len(rs))
  <2>1. rs[at].lo = lo
    BY <1>3
  <2> DEFINE R == [lo : Nat, hi : Nat]
  <2> HIDE DEF lo
  <2>2. \A l \in 1 .. Len(rs) : rs[l].lo = lo => l = at
    BY <1>1, <2>1
  <2>3. rs \in Seq(R)
    BY <1>1
  <2> HIDE DEF R
  <2> QED BY <2>1, <2>2, <2>3, RemoveRange
<1> HIDE DEF rs2, hd2
<1>5. /\ rs2 \in Seq([lo : Nat, hi : Nat]) /\ Len(rs) \in Nat /\ Len(rs2) = Len(rs) - 1
      /\ \A k \in 1 .. Len(rs) - 1 : rs2[k] = IF k < at THEN rs[k] ELSE rs[k + 1]
  <2> DEFINE R == [lo : Nat, hi : Nat]
             a == SubSeq(rs, 1, at - 1)
             c == SubSeq(rs, at + 1, Len(rs))
  <2>0. rs \in Seq(R)
    BY <1>1
  <2> HIDE DEF R
  <2>1. /\ a \in Seq(R) /\ Len(a) = at - 1
        /\ \A k \in 1 .. at - 1 : a[k] = rs[k]
    BY <2>0
  <2>2. /\ c \in Seq(R) /\ Len(c) = Len(rs) - at
        /\ \A k \in 1 .. Len(rs) - at : c[k] = rs[k + at]
    BY <2>0
  <2>3. Len(rs) \in Nat /\ at \in 1 .. Len(rs)
    BY <1>1
  <2> HIDE DEF a, c
  <2>4. /\ a \o c \in Seq(R) /\ Len(a \o c) = Len(rs) - 1
    <3>0. a \in Seq(R) /\ c \in Seq(R)
      BY <2>1, <2>2
    <3>1. a \o c \in Seq(R)
      BY <3>0
    <3>2. Len(a \o c) = Len(a) + Len(c)
      BY <3>0
    <3> QED BY <2>1, <2>2, <2>3, <3>1, <3>2
  <2>5. ASSUME NEW k \in 1 .. Len(rs) - 1
        PROVE  (a \o c)[k] = IF k < at THEN rs[k] ELSE rs[k + 1]
    <3>1. CASE k < at
      BY <2>1, <2>2, <2>3, <3>1
    <3>2. CASE ~(k < at)
      <4>1. (a \o c)[k] = c[k - (at - 1)]
        BY <2>1, <2>2, <2>3, <3>2
      <4>2. k - (at - 1) \in 1 .. Len(rs) - at /\ k - (at - 1) + at = k + 1
        BY <2>3, <3>2
      <4> QED BY <2>2, <3>2, <4>1, <4>2
    <3> QED BY <3>1, <3>2
  <2> QED BY <1>4, <2>3, <2>4, <2>5 DEF a, c, R
<1> DEFINE Old(k) == IF k < at THEN k ELSE k + 1
<1>6. \A k \in 1 .. Len(rs2) : Old(k) \in 1 .. Len(rs) /\ Old(k) # at /\ rs2[k] = rs[Old(k)]
  BY <1>5
<1>7. \A l \in 1 .. Len(rs) : l # at => \E k \in 1 .. Len(rs2) : Old(k) = l
  <2> SUFFICES ASSUME NEW l \in 1 .. Len(rs), l # at
               PROVE  \E k \in 1 .. Len(rs2) : Old(k) = l
    OBVIOUS
  <2>1. CASE l < at
    <3>1. l \in 1 .. Len(rs2) /\ Old(l) = l
      BY <1>5, <2>1
    <3> QED BY <3>1
  <2>2. CASE l > at
    <3>1. l - 1 \in 1 .. Len(rs2) /\ Old(l - 1) = l
      BY <1>5, <2>2
    <3> QED BY <3>1
  <2> QED BY <2>1, <2>2
<1>8. \A k, l \in 1 .. Len(rs2) : Old(k) = Old(l) => k = l
  BY <1>5
<1> HIDE DEF Old
<1>9. ASSUME NEW k \in 1 .. Len(rs2)
      PROVE  \E j \in Indices : hd2[j] # Free /\ rs2[k] = BlockExtent(hd2[j])
  <2>1. PICK j \in Indices : hd[j] # Free /\ rs[Old(k)] = BlockExtent(hd[j])
    BY <1>1, <1>6
  <2>2. j # i
    <3>1. rs[Old(k)].lo # rs[at].lo
      BY <1>1, <1>6
    <3> QED BY <1>3, <2>1, <3>1
  <2> QED BY <1>2, <1>6, <2>1, <2>2
<1>10. ASSUME NEW j \in Indices, hd2[j] # Free
       PROVE  \E k \in 1 .. Len(rs2) : rs2[k] = BlockExtent(hd2[j])
  <2>1. j # i /\ hd2[j] = hd[j]
    BY <1>2, <1>10
  <2>2. PICK l \in 1 .. Len(rs) : rs[l] = BlockExtent(hd[j])
    BY <1>1, <1>10, <2>1
  <2>3. l # at
    BY <1>3, <1>10, <2>1, <2>2
  <2>4. PICK k \in 1 .. Len(rs2) : Old(k) = l
    BY <1>7, <2>3
  <2> QED BY <1>6, <2>1, <2>2, <2>4
<1>11. ASSUME NEW k \in 1 .. Len(rs2), NEW l \in 1 .. Len(rs2), rs2[k].lo = rs2[l].lo
       PROVE  k = l
  <2>1. rs[Old(k)].lo = rs[Old(l)].lo
    BY <1>6, <1>11
  <2>2. Old(k) = Old(l)
    BY <1>1, <1>6, <2>1
  <2> QED BY <1>8, <2>2
<1>12. Recorded(rs2, hd2)
  BY <1>5, <1>9, <1>10, <1>11 DEF Recorded
<1> QED BY <1>12 DEF rs2, hd2

(* A record that is not there leaves the list as it is. *)
LEMMA DropNothing ==
  ASSUME NEW rs, NEW lo, \A k \in DOMAIN rs : rs[k].lo # lo, rs \in Seq([lo : Nat, hi : Nat])
  PROVE  remove_range(rs, lo) = rs
<1>1. DOMAIN rs = 1 .. Len(rs)
  OBVIOUS
<1> QED BY <1>1 DEF remove_range, RemoveFirstMatch

(* Where the payload of a held block is. *)
LEMMA OwnedExtent ==
  ASSUME NEW h, Good(h), NEW hd, Owned(h, hd), NEW i \in Indices, hd[i] # Free
  PROVE  ExtentIn(h, BlockExtent(hd[i]), hd[i].ptr) /\ hd[i].ptr \in h.blocks
<1>1. /\ hd[i].ptr \in Live(h) /\ hd[i].size \in Nat /\ hd[i].size # 0
      /\ Doublewords(hd[i].size) + 1 <= h.hdr[hd[i].ptr].size
  BY DEF Owned, Owns
<1>2. Sound(h) /\ hd[i].ptr \in h.blocks
  BY <1>1 DEF Good, Live
<1> QED BY <1>1, <1>2, ExtentInBlock DEF BlockExtent

(* The driver accepts the new block b of the index i and fills it. *)
Accepted(h, hd, rs, b, i) ==
  /\ ~Refused(rs, BlockExtent(b), mem_heapsize(h))
  /\ Agree(Filled(h, b, i), [hd EXCEPT ![i] = b], <<BlockExtent(b)>> \o rs)

(* A block that no index holds is inside the heap and overlaps no recorded *)
(* payload, so add_range takes it, and the client fills it without         *)
(* touching another.                                                       *)
LEMMA NewBlock ==
  ASSUME NEW h, Good(h), NEW hd \in [Indices -> Block], Owned(h, hd),
         NEW rs, Recorded(rs, hd), NEW i \in Indices, hd[i] = Free,
         NEW p \in Live(h), p \notin Ptrs(hd), Live(h) = Ptrs(hd) \union {p},
         NEW n \in Nat, n # 0, Adjusted(n) <= h.hdr[p].size
  PROVE  Accepted(h, hd, rs, [ptr |-> p, size |-> n], i)
<1> DEFINE b == [ptr |-> p, size |-> n]
           e == BlockExtent(b)
           d == Doublewords(n)
           h2 == memset(h, p, LowByte[i], d)
           hd2 == [hd EXCEPT ![i] = b]
<1>1. Sound(h) /\ p \in h.blocks
  BY DEF Good, Live
<1>2. /\ p \in Addr /\ p # NULL /\ p \in Int /\ h.hdr[p].size \in Nat
      /\ After(h.hdr, p) <= h.brk /\ After(h.hdr, p) \in Int /\ h.brk \in Int
  BY <1>1, SoundTypes DEF NULL, Addr
<1>3. d \in Nat /\ d + 1 <= h.hdr[p].size
  BY <1>2, RoomForRequest
<1>4. b \in Block /\ b # Free /\ b.ptr = p /\ b.size = n
  BY <1>2 DEF Block, Free
<1>5. ExtentIn(h, e, p)
  BY <1>1, <1>3, ExtentInBlock DEF BlockExtent
<1>6. Fills(h2, h, p, LowByte[i], d)
  BY <1>3, LowByteAssumption, MemsetEffect
<1>7. Filled(h, b, i) = h2
  BY <1>4 DEF Filled
<1> HIDE DEF b, e, d, h2
<1>8. /\ e \in [lo : Nat, hi : Nat] /\ e.lo \in Nat /\ e.hi \in Nat
      /\ e.lo = 8 * p /\ e.lo <= e.hi /\ e.hi < 8 * After(h.hdr, p)
  BY <1>5 DEF ExtentIn, DSIZE
<1>9. ASSUME NEW j \in Indices, hd[j] # Free
      PROVE  /\ BlockExtent(hd[j]).lo # e.lo
             /\ ~Overlaps(e, BlockExtent(hd[j]))
             /\ hd[j].ptr # p /\ hd[j].ptr \in Live(h)
  <2> DEFINE f == BlockExtent(hd[j])
  <2>1. ExtentIn(h, f, hd[j].ptr) /\ hd[j].ptr \in h.blocks
    BY <1>9, OwnedExtent
  <2>2. hd[j].ptr # p /\ hd[j].ptr \in Live(h)
    BY <1>9 DEF Ptrs
  <2> HIDE DEF f
  <2>3. e.hi < f.lo \/ f.hi < e.lo
    BY <1>1, <1>5, <2>1, <2>2, ExtentsApart
  <2>4. f.lo \in Nat /\ f.hi \in Nat /\ f.lo <= f.hi
    BY <2>1 DEF ExtentIn
  <2>5. ~Overlaps(e, f) /\ f.lo # e.lo
    BY <1>8, <2>3, <2>4 DEF Overlaps
  <2> QED BY <2>2, <2>5 DEF f
<1>10. ~Refused(rs, e, mem_heapsize(h))
  <2>1. ~OutsideHeap(e, mem_heapsize(h))
    <3>1. mem_heapsize(h) \in Int /\ 8 * After(h.hdr, p) <= mem_heapsize(h)
      BY <1>2 DEF mem_heapsize, DSIZE
    <3> QED BY <1>2, <1>8, <3>1 DEF OutsideHeap
  <2>2. ASSUME NEW k \in DOMAIN rs PROVE ~Overlaps(e, rs[k])
    <3>1. k \in 1 .. Len(rs)
      BY DEF Recorded
    <3>2. PICK j \in Indices : hd[j] # Free /\ rs[k] = BlockExtent(hd[j])
      BY <3>1 DEF Recorded
    <3> QED BY <1>9, <3>2
  <2> QED BY <2>1, <2>2 DEF Refused
<1>11. /\ Good(h2) /\ Live(h2) = Live(h) /\ h2.hdr[p] = h.hdr[p]
       /\ \A q \in Live(h) \ {p} : Kept(h, h2, q)
       /\ \A k \in 1 .. d : h2.hdr[p + k] = Data(LowByte[i]) /\ h2.ftr[p + k] = Data(LowByte[i])
  BY <1>1, <1>6 DEF Fills, Writes
<1>12. Owned(h2, hd)
  BY <1>9, <1>11, OwnedKept
<1>13. hd2 \in [Indices -> Block] /\ hd2[i] = b /\ \A j \in Indices \ {i} : hd2[j] = hd[j]
  BY <1>4
<1> HIDE DEF hd2
<1>14. Owned(h2, hd2)
  <2>1. Owns(h2, b, i)
    BY <1>3, <1>4, <1>11 DEF Owns, Pattern, d
  <2>2. ASSUME NEW j \in Indices, hd2[j] # Free PROVE Owns(h2, hd2[j], j)
    BY <1>12, <1>13, <2>1, <2>2 DEF Owned
  <2>3. ASSUME NEW j \in Indices, NEW k \in Indices, hd2[j] # Free, hd2[k] # Free,
               hd2[j].ptr = hd2[k].ptr
        PROVE  j = k
    BY <1>4, <1>9, <1>12, <1>13, <2>3 DEF Owned
  <2> QED BY <2>2, <2>3 DEF Owned
<1>15. Live(h2) = Ptrs(hd2)
  <2>1. Ptrs(hd2) = Ptrs(hd) \union {p}
    BY <1>4, <1>13 DEF Ptrs
  <2> QED BY <1>11, <2>1
<1>16. Recorded(<<e>> \o rs, hd2)
  BY <1>4, <1>8, <1>9, AddRecord DEF e, hd2
<1>17. Agree(h2, hd2, <<e>> \o rs)
  BY <1>11, <1>13, <1>14, <1>15, <1>16 DEF Agree
<1> QED BY <1>7, <1>10, <1>17 DEF Accepted, b, e, hd2

(* Of the blocks of h only p is not held by hd any more, nor recorded. *)
GivenUp(h, hd, rs, p) ==
  /\ hd \in [Indices -> Block] /\ Owned(h, hd) /\ Recorded(rs, hd)
  /\ Ptrs(hd) = Live(h) \ {p} /\ p \in Live(h)

(* remove_range takes the record of a block out, before the block is freed. *)
LEMMA GiveUp ==
  ASSUME NEW h, NEW hd, NEW rs, Agree(h, hd, rs), NEW i \in Indices, hd[i] # Free
  PROVE  GivenUp(h, [hd EXCEPT ![i] = Free], remove_range(rs, BlockExtent(hd[i]).lo),
                 hd[i].ptr)
<1> DEFINE hd2 == [hd EXCEPT ![i] = Free]
<1>1. /\ hd \in [Indices -> Block] /\ Good(h) /\ Owned(h, hd)
      /\ Live(h) = Ptrs(hd) /\ Recorded(rs, hd)
  BY DEF Agree
<1>2. \A j \in Indices : hd[j] # Free => hd[j].ptr \in Live(h) /\ hd[j].ptr \in Int
  <2>1. Sound(h)
    BY <1>1 DEF Good
  <2> QED BY <1>1, <2>1, SoundTypes DEF Owned, Owns, Live
<1>3. \A j \in Indices : hd[j] # Free /\ hd[j].ptr = hd[i].ptr => j = i
  BY <1>1 DEF Owned
<1>4. \A j \in Indices : hd[j] # Free /\ BlockExtent(hd[j]).lo = BlockExtent(hd[i]).lo => j = i
  BY <1>2, <1>3 DEF BlockExtent, Extent, DSIZE
<1>5. Recorded(remove_range(rs, BlockExtent(hd[i]).lo), hd2)
  BY <1>1, <1>4, DropRecord
<1>6. Free \in Block
  BY DEF Free, Block
<1>7. hd2 \in [Indices -> Block] /\ hd2[i] = Free /\ \A j \in Indices \ {i} : hd2[j] = hd[j]
  BY <1>1, <1>6
<1> HIDE DEF hd2
<1>8. Ptrs(hd2) = Live(h) \ {hd[i].ptr}
  BY <1>1, <1>3, <1>7 DEF Ptrs
<1>9. Owned(h, hd2)
  BY <1>1, <1>7 DEF Owned
<1> QED BY <1>2, <1>5, <1>7, <1>8, <1>9 DEF hd2, GivenUp

(* mm_free of a held block, with remove_range.                             *)
LEMMA FreeHeld ==
  ASSUME NEW h, NEW hd, NEW rs, Agree(h, hd, rs), NEW i \in Indices, hd[i] # Free
  PROVE  Agree(mm_free(h, hd[i].ptr), [hd EXCEPT ![i] = Free],
               remove_range(rs, BlockExtent(hd[i]).lo))
<1> DEFINE hd2 == [hd EXCEPT ![i] = Free]
           h2 == mm_free(h, hd[i].ptr)
           rs2 == remove_range(rs, BlockExtent(hd[i]).lo)
<1>1. Good(h)
  BY DEF Agree
<1>2. /\ Recorded(rs2, hd2) /\ hd2 \in [Indices -> Block]
      /\ Ptrs(hd2) = Live(h) \ {hd[i].ptr}
      /\ Owned(h, hd2) /\ hd[i].ptr \in Live(h)
  BY GiveUp DEF GivenUp
<1> HIDE DEF hd2, rs2
<1>3. Frees(h2, h, hd[i].ptr)
  BY <1>1, <1>2, FreeEffect
<1> HIDE DEF h2
<1>4. /\ Good(h2) /\ Live(h2) = Ptrs(hd2)
      /\ \A b \in Ptrs(hd2) : Kept(h, h2, b)
  BY <1>2, <1>3 DEF Frees
<1>5. \A j \in Indices : hd2[j] # Free => hd2[j].ptr \in Live(h2) /\ Kept(h, h2, hd2[j].ptr)
  BY <1>4 DEF Ptrs
<1>6. Owned(h2, hd2)
  BY <1>1, <1>2, <1>4, <1>5, OwnedKept
<1>7. Agree(h2, hd2, rs2)
  BY <1>2, <1>4, <1>6 DEF Agree
<1> QED BY <1>7 DEF h2, hd2, rs2

(* For an index without a block nothing is given back. *)
LEMMA NothingHeld ==
  ASSUME NEW h, NEW hd, NEW rs, Agree(h, hd, rs), NEW i \in Indices, hd[i] = Free
  PROVE  /\ remove_range(rs, BlockExtent(hd[i]).lo) = rs
         /\ mm_free(h, hd[i].ptr) = h
         /\ [hd EXCEPT ![i] = Free] = hd
         /\ hd[i].ptr = NULL /\ hd[i].size = 0
<1>1. hd \in [Indices -> Block] /\ Good(h) /\ Owned(h, hd) /\ Recorded(rs, hd)
  BY DEF Agree
<1>2. hd[i].ptr = NULL /\ hd[i].size = 0
  BY DEF Free
<1>3. mm_free(h, hd[i].ptr) = h
  BY <1>2 DEF mm_free
<1>4. BlockExtent(hd[i]).lo = 0
  BY <1>2 DEF BlockExtent, Extent, DSIZE, NULL
<1>5. rs \in Seq([lo : Nat, hi : Nat]) /\ DOMAIN rs = 1 .. Len(rs)
  BY <1>1 DEF Recorded
<1>6. ASSUME NEW k \in DOMAIN rs PROVE rs[k].lo # 0
  <2>1. PICK j \in Indices : hd[j] # Free /\ rs[k] = BlockExtent(hd[j])
    BY <1>1, <1>5 DEF Recorded
  <2>2. 8 <= rs[k].lo
    BY <1>1, <2>1, OwnedExtent DEF ExtentIn, DSIZE
  <2> QED BY <2>2
<1>7. remove_range(rs, 0) = rs
  BY <1>5, <1>6, DropNothing
<1>8. [hd EXCEPT ![i] = Free] = hd
  BY <1>1
<1> QED BY <1>2, <1>3, <1>4, <1>7, <1>8

(* What mm_malloc returns is accepted. *)
LEMMA AllocNew ==
  ASSUME NEW h, NEW hd, NEW rs, Agree(h, hd, rs), NEW i \in Indices, hd[i] = Free,
         NEW n \in Nat, mm_malloc(h, n).ptr # NULL
  PROVE  LET r == mm_malloc(h, n)
         IN  /\ n # 0 /\ r.ptr \in Addr /\ Good(r.heap)
             /\ Accepted(r.heap, hd, rs, [ptr |-> r.ptr, size |-> n], i)
<1> DEFINE r == mm_malloc(h, n)
           g == r.heap
           p == r.ptr
<1>1. hd \in [Indices -> Block] /\ Good(h) /\ Owned(h, hd) /\ Recorded(rs, hd) /\ Live(h) = Ptrs(hd)
  BY DEF Agree
<1>2. r # Result(h, NULL)
  BY DEF Result
<1>3. n # 0 /\ Allots(g, p, h, n)
  BY <1>1, <1>2, MallocEffect
<1> HIDE DEF g, p, r
<1>4. /\ Good(g) /\ p \in g.blocks \ {heap_listp} /\ p \notin Live(h)
      /\ Live(g) = Live(h) \union {p} /\ \A b \in Live(h) : Kept(h, g, b)
      /\ Adjusted(n) <= g.hdr[p].size
  BY <1>3 DEF Allots
<1>5. \A j \in Indices : hd[j] # Free => hd[j].ptr \in Live(g) /\ Kept(h, g, hd[j].ptr)
  BY <1>1, <1>4 DEF Ptrs
<1>6. Owned(g, hd)
  BY <1>1, <1>4, <1>5, OwnedKept
<1>7. p \in Addr
  <2>1. Sound(g)
    BY <1>4 DEF Good
  <2> QED BY <1>4, <2>1, SoundTypes
<1>8. p \in Live(g) /\ p \notin Ptrs(hd) /\ Live(g) = Ptrs(hd) \union {p}
  BY <1>1, <1>4
<1>9. Accepted(g, hd, rs, [ptr |-> p, size |-> n], i)
  BY <1>1, <1>3, <1>4, <1>6, <1>8, NewBlock
<1> QED BY <1>3, <1>4, <1>7, <1>9 DEF g, p, r

(* What mm_realloc returns is accepted, and holds what the old block held. *)
LEMMA ReallocNew ==
  ASSUME NEW h, NEW hd, NEW rs, Agree(h, hd, rs), NEW i \in Indices, hd[i] # Free,
         NEW n \in Nat, n # 0, mm_realloc(h, hd[i].ptr, n).ptr # NULL
  PROVE  LET r == mm_realloc(h, hd[i].ptr, n)
             b == [ptr |-> r.ptr, size |-> n]
         IN  /\ r.ptr \in Addr
             /\ Accepted(r.heap, [hd EXCEPT ![i] = Free],
                         remove_range(rs, BlockExtent(hd[i]).lo), b, i)
             /\ Holds(r.heap, b, IF n < hd[i].size THEN n ELSE hd[i].size, LowByte[i])
             /\ Good(r.heap)
<1> DEFINE bp == hd[i].ptr
           old == hd[i].size
           r == mm_realloc(h, bp, n)
           g == r.heap
           p == r.ptr
           hd2 == [hd EXCEPT ![i] = Free]
           rs2 == remove_range(rs, BlockExtent(hd[i]).lo)
           kept == IF n < old THEN n ELSE old
           b == [ptr |-> p, size |-> n]
<1>1. Good(h) /\ Owned(h, hd)
  BY DEF Agree
<1>2. /\ Recorded(rs2, hd2) /\ hd2 \in [Indices -> Block]
      /\ Ptrs(hd2) = Live(h) \ {bp}
      /\ Owned(h, hd2) /\ bp \in Live(h)
  BY GiveUp DEF GivenUp
<1>3. hd2[i] = Free
  BY DEF Agree
<1>4. /\ old \in Nat /\ old # 0 /\ Doublewords(old) + 1 <= h.hdr[bp].size
      /\ \A k \in 1 .. Doublewords(old) : h.hdr[bp + k] = Data(LowByte[i]) /\ h.ftr[bp + k] = Data(LowByte[i])
  BY <1>1 DEF Owned, Owns, Pattern
<1> HIDE DEF bp, old, hd2, rs2
<1>5. r # Result(h, NULL)
  BY DEF Result, bp
<1>6. Moves(g, p, h, bp, n)
  BY <1>1, <1>2, <1>5, ReallocEffect
<1> HIDE DEF g, p, r
<1>7. /\ Good(g) /\ p \in g.blocks \ {heap_listp} /\ p \notin Live(h)
      /\ Live(g) = Ptrs(hd2) \union {p} /\ \A q \in Ptrs(hd2) : Kept(h, g, q)
      /\ Adjusted(n) <= g.hdr[p].size
      /\ \A k \in 1 .. Doublewords(n) :
           k < h.hdr[bp].size => /\ g.hdr[p + k] = h.hdr[bp + k]
                                 /\ g.ftr[p + k] = h.ftr[bp + k]
  BY <1>2, <1>6 DEF Moves
<1>8. \A j \in Indices : hd2[j] # Free => hd2[j].ptr \in Live(g) /\ Kept(h, g, hd2[j].ptr)
  BY <1>7 DEF Ptrs
<1>9. Owned(g, hd2)
  BY <1>1, <1>2, <1>7, <1>8, OwnedKept
<1>10. p \in Addr
  <2>1. Sound(g)
    BY <1>7 DEF Good
  <2> QED BY <1>7, <2>1, SoundTypes
<1>11. p \in Live(g) /\ p \notin Ptrs(hd2)
  BY <1>2, <1>7
<1>12. Accepted(g, hd2, rs2, b, i)
  BY <1>2, <1>3, <1>7, <1>9, <1>11, NewBlock
<1>13. Holds(g, b, kept, LowByte[i])
  <2> SUFFICES ASSUME NEW k \in 1 .. Doublewords(kept)
               PROVE  g.hdr[p + k] = Data(LowByte[i]) /\ g.ftr[p + k] = Data(LowByte[i])
    BY DEF Holds
  <2>1. /\ kept \in Nat /\ kept <= n /\ kept <= old /\ kept # 0
    BY <1>4
  <2>2. /\ Doublewords(kept) <= Doublewords(n) /\ Doublewords(kept) <= Doublewords(old)
        /\ Doublewords(kept) \in Nat /\ Doublewords(n) \in Nat /\ Doublewords(old) \in Nat
    <3> HIDE DEF kept
    <3> QED BY <1>4, <2>1 DEF Doublewords, DSIZE
  <2>3. h.hdr[bp].size \in Nat
    <3>1. Sound(h) /\ bp \in h.blocks
      BY <1>1, <1>2 DEF Good, Live
    <3> QED BY <3>1, SoundTypes
  <2> HIDE DEF kept
  <2>4. k \in 1 .. Doublewords(n) /\ k \in 1 .. Doublewords(old) /\ k < h.hdr[bp].size
    BY <1>4, <2>2, <2>3
  <2> QED BY <1>4, <1>7, <2>4
<1> QED BY <1>7, <1>10, <1>12, <1>13 DEF bp, old, r, g, p, hd2, rs2

-----------------------------------------------------------------------------

(* The inductive invariant: the heap and the client agree until a block is *)
(* complained of, and then only of the data of an index whose low byte is  *)
(* negative as a char.                                                     *)
Inv ==
  /\ IF Over THEN /\ Good(heap) /\ held \in [Indices -> Block]
                  /\ ranges \in Seq([lo : Nat, hi : Nat])
             ELSE Agree(heap, held, ranges)
  /\ errors \in Complaint /\ NoErrors

(* What malloc_error may say without a complaint about a block.            *)
LEMMA NoErrorFine ==
  /\ NoError \in Complaint
  /\ errors = NoError => errors \in Complaint /\ NoErrors /\ ~Over
BY DEF NoError, Complaint, Complaints, NoErrors, Over

LEMMA FailedFine ==
  ASSUME NEW i \in Indices, malloc_error("failed", i)
  PROVE  errors' \in Complaint /\ NoErrors' /\ ~Over'
BY DEF malloc_error, Complaint, Complaints, NoErrors, Over

(* In both cases the heap is whole.                                        *)
LEMMA InvHeap ==
  ASSUME Inv
  PROVE  /\ Good(heap) /\ held \in [Indices -> Block]
         /\ ranges \in Seq([lo : Nat, hi : Nat])
         /\ ~Over => Agree(heap, held, ranges)
BY DEF Inv, Agree, Recorded

(* A step after which they agree, and no block is complained of.           *)
LEMMA AgreeInv ==
  ASSUME Agree(heap', held', ranges'),
         errors' = NoError \/ \E i \in Indices : malloc_error("failed", i)
  PROVE  Inv' /\ ~Over'
<1>1. errors' \in Complaint /\ NoErrors' /\ ~Over'
  BY FailedFine, NoErrorFine DEF NoError, Complaint, Complaints, NoErrors, Over
<1> QED BY <1>1 DEF Inv, Agree, Owned, Owns, Pattern, Ptrs, Recorded

(* A request that fails changes nothing but what malloc_error has said.    *)
LEMMA FailedStep ==
  ASSUME Inv, ~Over, NEW i \in Indices, Failed(heap, i)
  PROVE  Inv' /\ UNCHANGED held
<1>1. heap' = heap /\ held' = held /\ ranges' = ranges /\ malloc_error("failed", i)
  BY DEF Failed
<1>2. Agree(heap', held', ranges')
  BY <1>1 DEF Inv
<1> QED BY <1>1, <1>2, AgreeInv

(* The index i has given its block back; it has a new block of n bytes. *)
Gone(i) == held' = [held EXCEPT ![i] = Free]
Given(i, n) ==
  /\ n # 0 /\ ~Over'
  /\ \E p \in Addr : held' = [held EXCEPT ![i] = [ptr |-> p, size |-> n]]

(* The checks of mdriver.c find nothing to complain about, save that the   *)
(* comparison of the data fails for a low byte that is negative.           *)
LEMMA CheckedStep ==
  ASSUME Inv, ~Over, NEW h, Good(h), NEW rest, NEW b, NEW i \in Indices, NEW n \in Nat,
         Accepted(h, held, rest, b, i), Holds(h, b, n, LowByte[i]),
         Checked(h, b, n, i, rest)
  PROVE  /\ Inv'
         /\ \/ held' = [held EXCEPT ![i] = b] /\ ~Over'
            \/ held' = held /\ n # 0
<1>1. /\ ~Refused(rest, BlockExtent(b), mem_heapsize(h))
      /\ Agree(Filled(h, b, i), [held EXCEPT ![i] = b], <<BlockExtent(b)>> \o rest)
  BY DEF Accepted
<1>2. ranges' = <<BlockExtent(b)>> \o rest
  BY <1>1 DEF Checked, add_range
<1>3. CASE ~NotPreserved(h, b, n, i)
  <2>1. /\ heap' = Filled(h, b, i) /\ held' = [held EXCEPT ![i] = b]
        /\ errors' = NoError
    BY <1>1, <1>3 DEF Checked
  <2>2. Agree(heap', held', ranges')
    BY <1>1, <1>2, <2>1
  <2> QED BY <2>1, <2>2, AgreeInv
<1>4. CASE NotPreserved(h, b, n, i)
  <2>1. LowByte[i] \in Negative /\ n # 0
    BY <1>4 DEF NotPreserved
  <2>2. heap' = h /\ held' = held /\ errors' = [what |-> "data", index |-> i]
    BY <1>1, <1>4 DEF Checked, malloc_error
  <2>3. /\ Over' /\ errors' \in Complaint /\ NoErrors'
    BY <2>1, <2>2 DEF Over, Complaint, Complaints, NoErrors
  <2>4. ranges' \in Seq([lo : Nat, hi : Nat]) /\ held' \in [Indices -> Block]
    BY <1>1, <1>2, <2>2, InvHeap DEF Agree, Recorded
  <2>5. Good(heap')
    BY <2>2
  <2> QED BY <2>1, <2>2, <2>3, <2>4, <2>5 DEF Inv
<1> QED BY <1>3, <1>4

(* A call of mm_malloc keeps the invariant.                                *)
LEMMA AllocStep ==
  ASSUME Inv, NEW i \in Indices, NEW n \in Requests, Alloc(i, n)
  PROVE  Inv' /\ (UNCHANGED held \/ Given(i, n))
<1> DEFINE r == mm_malloc(heap, n)
           b == [ptr |-> r.ptr, size |-> n]
<1>1. n \in Nat /\ Agree(heap, held, ranges) /\ held[i] = Free /\ ~Over
  BY RequestsAssumption DEF Inv, Alloc
<1>2. CASE r.ptr = NULL
  <2>1. r = Result(heap, NULL)
    <3>1. Good(heap)
      BY <1>1 DEF Agree
    <3> QED BY <1>1, <1>2, <3>1, MallocEffect
  <2>2. Failed(heap, i)
    BY <1>2, <2>1 DEF Alloc, Result
  <2> QED BY <1>1, <2>2, FailedStep
<1>3. CASE r.ptr # NULL
  <2>1. /\ n # 0 /\ r.ptr \in Addr /\ Accepted(r.heap, held, ranges, b, i)
        /\ Good(r.heap)
    BY <1>1, <1>3, AllocNew
  <2>2. Checked(r.heap, b, 0, i, ranges)
    BY <1>3 DEF Alloc
  <2> HIDE DEF r
  <2>3. Holds(r.heap, b, 0, LowByte[i])
    BY DEF Holds, Doublewords, DSIZE
  <2> HIDE DEF b
  <2>4. Inv' /\ held' = [held EXCEPT ![i] = b] /\ ~Over'
    BY <1>1, <2>1, <2>2, <2>3, CheckedStep
  <2> QED BY <2>1, <2>4 DEF Given, b
<1> QED BY <1>2, <1>3

(* A call of mm_free keeps the invariant.                                  *)
LEMMA ReleaseStep ==
  ASSUME Inv, NEW i \in Indices, Release(i)
  PROVE  Inv' /\ Gone(i)
<1>1. Agree(heap, held, ranges) /\ held[i] # Free
  BY DEF Inv, Release
<1>2. /\ heap' = mm_free(heap, held[i].ptr) /\ held' = [held EXCEPT ![i] = Free]
      /\ ranges' = remove_range(ranges, BlockExtent(held[i]).lo) /\ errors' = NoError
  BY DEF Release
<1>3. Agree(heap', held', ranges')
  BY <1>1, <1>2, FreeHeld
<1> QED BY <1>2, <1>3, AgreeInv DEF Gone

(* A call of mm_realloc keeps the invariant, also for nothing and for an   *)
(* index without a block.                                                  *)
LEMMA ReallocStep ==
  ASSUME Inv, NEW i \in Indices, NEW n \in Requests, Realloc(i, n)
  PROVE  Inv' /\ (UNCHANGED held \/ Gone(i) \/ Given(i, n))
<1> DEFINE r == mm_realloc(heap, held[i].ptr, n)
           b == [ptr |-> r.ptr, size |-> n]
           rest == remove_range(ranges, BlockExtent(held[i]).lo)
           kept == IF n < held[i].size THEN n ELSE held[i].size
<1>1. n \in Nat /\ Agree(heap, held, ranges) /\ ~Over
  BY RequestsAssumption DEF Inv, Realloc
<1>2. CASE n = 0
  <2>1. /\ heap' = mm_free(heap, held[i].ptr) /\ held' = [held EXCEPT ![i] = Free]
        /\ ranges' = rest /\ malloc_error("failed", i)
    <3>1. ReallocNothing(i)
      BY <1>2 DEF Realloc
    <3> QED BY <3>1, ReallocToNothing DEF ReallocNothing, Result
  <2>2. Agree(heap', held', ranges')
    <3>1. CASE held[i] # Free
      BY <1>1, <2>1, <3>1, FreeHeld
    <3>2. CASE held[i] = Free
      <4>1. /\ rest = ranges /\ mm_free(heap, held[i].ptr) = heap
            /\ [held EXCEPT ![i] = Free] = held
        BY <1>1, <3>2, NothingHeld
      <4> HIDE DEF rest
      <4> QED BY <1>1, <2>1, <4>1
    <3> QED BY <3>1, <3>2
  <2> QED BY <2>1, <2>2, AgreeInv DEF Gone
<1>3. CASE n # 0 /\ r.ptr = NULL
  <2>1. r = Result(heap, NULL)
    <3>1. Good(heap)
      BY <1>1 DEF Agree
    <3>2. CASE held[i] # Free
      <4>1. held[i].ptr \in Live(heap)
        BY <1>1, <3>2, GiveUp DEF GivenUp
      <4> QED BY <1>1, <1>3, <3>1, <4>1, ReallocEffect
    <3>3. CASE held[i] = Free
      <4>1. r = mm_malloc(heap, n)
        BY <1>1, <1>3, <3>3, NothingHeld, ReallocOfNull
      <4> QED BY <1>1, <1>3, <3>1, <4>1, MallocEffect
    <3> QED BY <3>2, <3>3
  <2>2. Failed(heap, i)
    BY <1>3, <2>1 DEF Realloc, Result
  <2> QED BY <1>1, <2>2, FailedStep
<1>4. CASE n # 0 /\ r.ptr # NULL
  <2>1. Checked(r.heap, b, kept, i, rest)
    BY <1>4 DEF Realloc
  <2>k. kept \in Nat
    BY <1>1 DEF Agree, Block
  <2>2. CASE held[i] # Free
    <3> DEFINE hd == [held EXCEPT ![i] = Free]
    <3>1. /\ r.ptr \in Addr /\ Accepted(r.heap, hd, rest, b, i)
          /\ Holds(r.heap, b, kept, LowByte[i]) /\ Good(r.heap)
      BY <1>1, <1>4, <2>2, ReallocNew
    <3> HIDE DEF r
    <3>2. [hd EXCEPT ![i] = b] = [held EXCEPT ![i] = b]
      BY <1>1 DEF Agree
    <3>a. Accepted(r.heap, held, rest, b, i)
      BY <3>1, <3>2 DEF Accepted
    <3> HIDE DEF hd, b, rest, kept
    <3>3. Inv' /\ (held' = held \/ (held' = [held EXCEPT ![i] = b] /\ ~Over'))
      BY <1>1, <2>1, <2>k, <3>1, <3>a, CheckedStep
    <3> QED BY <1>4, <3>1, <3>3 DEF Given, b
  <2>3. CASE held[i] = Free
    <3>1. rest = ranges /\ held[i].ptr = NULL /\ held[i].size = 0
      BY <1>1, <2>3, NothingHeld
    <3>2. r = mm_malloc(heap, n)
      BY <1>1, <1>4, <3>1, ReallocOfNull
    <3>3. r.ptr \in Addr /\ Accepted(r.heap, held, ranges, b, i) /\ Good(r.heap)
      BY <1>1, <1>4, <2>3, <3>2, AllocNew
    <3> HIDE DEF r
    <3>4. kept = 0
      BY <1>1, <3>1
    <3>5. Holds(r.heap, b, kept, LowByte[i])
      BY <3>4 DEF Holds, Doublewords, DSIZE
    <3> HIDE DEF b, rest, kept
    <3>6. Checked(r.heap, b, kept, i, ranges)
      BY <2>1, <3>1
    <3>7. Inv' /\ (held' = held \/ (held' = [held EXCEPT ![i] = b] /\ ~Over'))
      BY <1>1, <2>k, <3>3, <3>5, <3>6, CheckedStep
    <3> QED BY <1>4, <3>3, <3>7 DEF Given, b
  <2> QED BY <2>2, <2>3
<1> QED BY <1>2, <1>3, <1>4

(* A heap that mm_init has made, with a client that holds nothing. *)
LEMMA FreshAgree ==
  ASSUME NEW h \in HeapType
  PROVE  Agree(mm_init(h), [i \in Indices |-> Free], clear_ranges)
<1> DEFINE hd == [i \in Indices |-> Free]
           g == mm_init(h)
<1>1. Good(g) /\ Live(g) = {}
  BY InitEffect DEF Empties
<1> HIDE DEF g
<1>2. Free \in Block
  BY DEF Free, Block
<1>3. hd \in [Indices -> Block] /\ \A i \in Indices : hd[i] = Free
  BY <1>2
<1> HIDE DEF hd
<1>4. Owned(g, hd) /\ Ptrs(hd) = {}
  BY <1>3 DEF Owned, Ptrs
<1>5. Recorded(<<>>, hd)
  BY <1>3 DEF Recorded
<1>6. Agree(g, hd, <<>>)
  BY <1>1, <1>3, <1>4, <1>5 DEF Agree
<1> QED BY <1>6 DEF g, hd, clear_ranges

(* The memory before the package is used is a heap's.                      *)
LEMMA MemInitType == mem_init \in HeapType
<1>1. Tag(0, FALSE) \in Word
  BY MaxHeapAssumption DEF Tag, Word
<1>2. Blank \in [Addr -> Word]
  BY <1>1 DEF Blank
<1>3. 1 \in Addr /\ 0 \in 0 .. MaxHeap
  BY ChunkAssumption, MaxHeapAssumption DEF Addr
<1> QED BY <1>2, <1>3 DEF mem_init, HeapType

(* The first mm_init establishes the invariant.                            *)
LEMMA InitInv ==
  Init => Inv
<1> SUFFICES ASSUME Init PROVE Inv
  OBVIOUS
<1>1. Agree(heap, held, ranges) /\ errors = NoError
  BY MemInitType, FreshAgree DEF Init
<1> QED BY <1>1, NoErrorFine DEF Inv

(* Every step of the client keeps it.                                      *)
LEMMA NextInv ==
  Inv /\ [Next]_vars => Inv'
<1> SUFFICES ASSUME Inv, [Next]_vars PROVE Inv'
  OBVIOUS
<1>1. ASSUME NEW i \in Indices, NEW n \in Requests, Alloc(i, n) PROVE Inv'
  BY <1>1, AllocStep
<1>2. ASSUME NEW i \in Indices, NEW n \in Requests, Realloc(i, n) PROVE Inv'
  BY <1>2, ReallocStep
<1>3. ASSUME NEW i \in Indices, Release(i) PROVE Inv'
  BY <1>3, ReleaseStep
<1>4. CASE NextTrace
  <2>1. heap \in HeapType
    BY InvHeap DEF Good, Sound
  <2>2. Agree(heap', held', ranges') /\ errors' = NoError
    BY <1>4, <2>1, FreshAgree DEF NextTrace
  <2> QED BY <2>2, AgreeInv
<1>5. CASE UNCHANGED vars
  BY <1>5 DEF vars, Inv, Over, NoErrors, Agree, Owned, Owns, Pattern, Ptrs, Recorded
<1> QED BY <1>1, <1>2, <1>3, <1>4, <1>5 DEF Next

(* The heap and the client of mm.c always agree, for every number of       *)
(* indices, size of the memory, CHUNKSIZE and set of requests.             *)
THEOREM InvCorrect == Spec => []Inv
  BY InitInv, NextInv, PTL DEF Spec

-----------------------------------------------------------------------------

(* The invariant gives the types,                                          *)
LEMMA InvTypeOK ==
  Inv => TypeOK
BY InvHeap DEF Inv, Good, Sound, TypeOK

(* ... that the walk meets the blocks,                                     *)
LEMMA InvHeapTiled ==
  Inv => HeapTiled
<1> SUFFICES ASSUME Inv PROVE HeapTiled
  OBVIOUS
<1>1. Tiles(heap.hdr, heap.ftr, heap.brk, heap.blocks)
  BY InvHeap DEF Good, Sound
<1> QED BY <1>1 DEF HeapTiled, Tiles, Walls, Tile, After, NextBlock, Size

(* ... that no neighbours are free,                                        *)
LEMMA InvCoalesced ==
  Inv => Coalesced
BY InvHeap DEF Good, Joined, Coalesced, Allocated, NextBlock, Size, After

(* ... that the search starts at a block,                                  *)
LEMMA InvNextFitIsBlock ==
  Inv => NextFitIsBlock
BY InvHeap DEF Good, Sound, NextFitIsBlock

(* An index holds a block or nothing, and NULL is no block. *)
LEMMA HeldOrFree ==
  ASSUME Inv, ~Over, NEW i \in Indices
  PROVE  /\ held[i] = Free => held[i].ptr = NULL /\ held[i].size = 0
         /\ held[i] # Free => /\ held[i].ptr \in Live(heap) /\ held[i].ptr # NULL
                              /\ held[i].size \in Nat /\ held[i].size # 0
<1>1. held[i] = Free => held[i].ptr = NULL /\ held[i].size = 0
  BY DEF Free
<1>2. ASSUME held[i] # Free
      PROVE  /\ held[i].ptr \in Live(heap) /\ held[i].ptr # NULL
             /\ held[i].size \in Nat /\ held[i].size # 0
  <2>1. /\ held[i].ptr \in Live(heap) /\ held[i].size \in Nat /\ held[i].size # 0
    BY <1>2 DEF Inv, Agree, Owned, Owns
  <2>2. Sound(heap) /\ held[i].ptr \in heap.blocks
    BY <2>1 DEF Inv, Agree, Good, Live
  <2>3. held[i].ptr # NULL
    BY <2>2, SoundTypes DEF Addr, NULL
  <2> QED BY <2>1, <2>3
<1> QED BY <1>1, <1>2

(* ... that the blocks in use are the held ones,                           *)
LEMMA InvAllocatedAreHeld ==
  Inv => AllocatedAreHeld
<1> SUFFICES ASSUME Inv, ~Over PROVE AllocatedAreHeld
  BY DEF AllocatedAreHeld
<1>1. Live(heap) = Ptrs(held) /\ Owned(heap, held)
  BY DEF Inv, Agree
<1>s. Sound(heap)
  BY DEF Inv, Agree, Good
<1>2. ASSUME NEW b \in heap.blocks \ {heap_listp}
      PROVE  Allocated(heap, b) <=> \E i \in Indices : held[i].ptr = b
  <2>1. b # NULL /\ heap.hdr[b].alloc \in BOOLEAN
    BY <1>s, SoundTypes DEF Addr, NULL
  <2>2. (b \in Live(heap)) <=> heap.hdr[b].alloc
    BY <2>1 DEF Live
  <2>3. (b \in Ptrs(held)) <=> \E i \in Indices : held[i].ptr = b
    BY <2>1, HeldOrFree DEF Ptrs
  <2> QED BY <1>1, <2>2, <2>3 DEF Allocated
<1>3. ASSUME NEW i \in Indices, NEW j \in Indices, held[i].ptr = held[j].ptr, held[i] # Free
      PROVE  i = j
  BY <1>1, <1>3, HeldOrFree DEF Owned
<1>4. ASSUME NEW i \in Indices, held[i] # Free PROVE held[i].ptr \in heap.blocks \ {heap_listp}
  BY <1>4, HeldOrFree DEF Live
<1> QED BY <1>2, <1>3, <1>4 DEF AllocatedAreHeld

(* ... that their contents are the client's,                               *)
LEMMA InvContentsKept ==
  Inv => ContentsKept
<1> SUFFICES ASSUME Inv, ~Over, NEW i \in Indices, NEW k \in 1 .. Doublewords(held[i].size)
             PROVE  /\ heap.hdr[held[i].ptr + k] = Data(LowByte[i])
                    /\ heap.ftr[held[i].ptr + k] = Data(LowByte[i])
  BY DEF ContentsKept, Holds
<1>1. held[i] # Free
  <2>1. held[i].size # 0
    BY DEF Doublewords, DSIZE
  <2> QED BY <2>1, HeldOrFree
<1> QED BY <1>1 DEF Inv, Agree, Owned, Owns, Pattern

(* ... and that the range list has one record for each: its positions are  *)
(* in bijection with the indices that hold a block.                        *)
LEMMA InvRangesAreHeld ==
  Inv => RangesAreHeld
<1> SUFFICES ASSUME Inv, ~Over PROVE RangesAreHeld
  BY DEF RangesAreHeld
<1> DEFINE live == {i \in Indices : held[i] # Free}
           n == Len(ranges)
<1>1. /\ ranges \in Seq([lo : Nat, hi : Nat])
      /\ \A k \in 1 .. n : \E i \in live : ranges[k] = BlockExtent(held[i])
      /\ \A i \in live : \E k \in 1 .. n : ranges[k] = BlockExtent(held[i])
      /\ \A k, l \in 1 .. n : ranges[k].lo = ranges[l].lo => k = l
  BY DEF Inv, Agree, Recorded
<1>2. n \in Nat /\ DOMAIN ranges = 1 .. n
  BY <1>1
<1>3. ASSUME NEW i \in live, NEW j \in live, BlockExtent(held[i]).lo = BlockExtent(held[j]).lo
      PROVE  i = j
  <2>1. held[i].ptr \in Live(heap) /\ held[j].ptr \in Live(heap) /\ Sound(heap)
    BY HeldOrFree DEF Inv, Agree, Good
  <2>2. held[i].ptr \in Int /\ held[j].ptr \in Int
    BY <2>1, SoundTypes DEF Live
  <2>3. held[i].ptr = held[j].ptr
    BY <1>3, <2>2 DEF BlockExtent, Extent, DSIZE
  <2> QED BY <2>3 DEF Inv, Agree, Owned
<1> HIDE DEF live, n
<1>4. {ranges[k] : k \in 1 .. n} = {BlockExtent(held[i]) : i \in live}
  BY <1>1
<1> DEFINE f == [k \in 1 .. n |-> CHOOSE i \in live : ranges[k] = BlockExtent(held[i])]
<1>5. \A k \in 1 .. n : f[k] \in live /\ ranges[k] = BlockExtent(held[f[k]])
  BY <1>1
<1>6. f \in [1 .. n -> live]
  BY <1>5
<1> HIDE DEF f
<1>7. \A k, l \in 1 .. n : f[k] = f[l] => k = l
  <2> SUFFICES ASSUME NEW k \in 1 .. n, NEW l \in 1 .. n, f[k] = f[l] PROVE k = l
    OBVIOUS
  <2>1. ranges[k] = ranges[l]
    BY <1>5
  <2> QED BY <1>1, <2>1
<1>8. \A i \in live : \E k \in 1 .. n : f[k] = i
  <2> SUFFICES ASSUME NEW i \in live PROVE \E k \in 1 .. n : f[k] = i
    OBVIOUS
  <2>1. PICK k \in 1 .. n : ranges[k] = BlockExtent(held[i])
    BY <1>1
  <2>2. f[k] = i
    BY <1>3, <1>5, <2>1
  <2> QED BY <2>2
<1>9. ExistsBijection(1 .. n, live)
  <2>1. f \in Injection(1 .. n, live)
    BY <1>6, <1>7 DEF Injection, IsInjective
  <2>2. f \in Surjection(1 .. n, live)
    BY <1>6, <1>8 DEF Surjection
  <2> QED BY <2>1, <2>2 DEF ExistsBijection, Bijection
<1>10. IsFiniteSet(1 .. n) /\ Cardinality(1 .. n) = n
  BY <1>2, FS_Interval
<1>11. Cardinality(live) = n
  BY <1>9, <1>10, FS_Bijection
<1> QED BY <1>2, <1>4, <1>11 DEF RangesAreHeld, live, n

(* The state of the client has its type.                                   *)
THEOREM TypeCorrect == Spec => []TypeOK
  BY InvCorrect, InvTypeOK, PTL

(* No write of mm.c or of the client damages a tag: mm_check and           *)
(* checkblock never complain.                                              *)
THEOREM HeapTiledCorrect == Spec => []HeapTiled
  BY InvCorrect, InvHeapTiled, PTL

(* No two neighbouring blocks are free after any call.                     *)
THEOREM CoalescedCorrect == Spec => []Coalesced
  BY InvCorrect, InvCoalesced, PTL

(* find_fit never starts inside a block, however blocks are joined.        *)
THEOREM NextFitCorrect == Spec => []NextFitIsBlock
  BY InvCorrect, InvNextFitIsBlock, PTL

(* No block is lost and none is handed out twice.                          *)
THEOREM AllocatedCorrect == Spec => []AllocatedAreHeld
  BY InvCorrect, InvAllocatedAreHeld, PTL

(* What the client wrote is there until it frees the block.                *)
THEOREM ContentsCorrect == Spec => []ContentsKept
  BY InvCorrect, InvContentsKept, PTL

(* The checks of eval_mm_valid find no block of mm.c outside the heap and  *)
(* none that overlaps another, and they complain of the data of a realloc  *)
(* only for an index whose low byte is negative as a char: of those the    *)
(* comparison in mdriver.c always fails.                                   *)
THEOREM NoErrorsCorrect == Spec => []NoErrors
<1>1. Inv => NoErrors
  BY DEF Inv, NoErrors
<1> QED BY <1>1, InvCorrect, PTL

(* The range list of mdriver.c has one record for each block.              *)
THEOREM RangesCorrect == Spec => []RangesAreHeld
  BY InvCorrect, InvRangesAreHeld, PTL

-----------------------------------------------------------------------------

(* The bytes of a block.                                                   *)
Payload(b) == DSIZE * b.ptr .. DSIZE * b.ptr + b.size - 1

(* Nothing holds no bytes.                                                 *)
LEMMA PayloadOfFree == Payload(Free) = {}
  BY DEF Payload, Free, NULL, DSIZE

(* The payload of a held block is aligned, of the size asked for and       *)
(* within the memory.                                                      *)
LEMMA HeldPayload ==
  ASSUME NEW h, NEW hd, NEW rs, Agree(h, hd, rs), NEW i \in Indices, hd[i] # Free
  PROVE  Payload(hd[i]) \in Promise!Payloads(hd[i].size)
<1> DEFINE p == hd[i].ptr
           n == hd[i].size
           e == BlockExtent(hd[i])
<1>1. Good(h) /\ Owned(h, hd) /\ Sound(h)
  BY DEF Agree, Good
<1>2. ExtentIn(h, e, p) /\ p \in h.blocks
  BY <1>1, OwnedExtent
<1>3. n \in Nat /\ n # 0 /\ e.lo = 8 * p /\ e.hi = 8 * p + n - 1
  BY <1>1 DEF Owned, Owns, BlockExtent, Extent, DSIZE
<1>4. /\ p \in Addr /\ p \in Int /\ After(h.hdr, p) <= h.brk /\ h.brk \in Addr
      /\ After(h.hdr, p) \in Int /\ p < h.brk
  BY <1>1, <1>2, SoundTypes
<1>5. 8 * p + n - 1 < 8 * After(h.hdr, p)
  BY <1>2, <1>3 DEF ExtentIn, DSIZE
<1>6. Payload(hd[i]) = 8 * p .. 8 * p + n - 1
  BY DEF Payload, DSIZE
<1> HIDE DEF p, n, e
<1>7. p \in 1 .. MaxHeap - 1 /\ 8 * p + n <= 8 * MaxHeap
  BY <1>3, <1>4, <1>5, MaxHeapAssumption DEF Addr
<1>8. 8 * p .. 8 * p + n - 1 \in Promise!Payloads(n)
  BY <1>7 DEF Promise!Payloads, Promise!ALIGNMENT
<1> QED BY <1>6, <1>8 DEF n

(* No two indices hold a byte.                                             *)
LEMMA PayloadsApart ==
  ASSUME NEW h, NEW hd, NEW rs, Agree(h, hd, rs), NEW i \in Indices, NEW j \in Indices, i # j
  PROVE  Payload(hd[i]) \intersect Payload(hd[j]) = {}
<1>1. CASE hd[i] = Free \/ hd[j] = Free
  BY <1>1, PayloadOfFree
<1>2. CASE hd[i] # Free /\ hd[j] # Free
  <2> DEFINE e == BlockExtent(hd[i])
             f == BlockExtent(hd[j])
  <2>1. Good(h) /\ Owned(h, hd) /\ Sound(h)
    BY DEF Agree, Good
  <2>2. /\ ExtentIn(h, e, hd[i].ptr) /\ hd[i].ptr \in h.blocks
        /\ ExtentIn(h, f, hd[j].ptr) /\ hd[j].ptr \in h.blocks
    BY <1>2, <2>1, OwnedExtent
  <2>3. hd[i].ptr # hd[j].ptr
    BY <1>2, <2>1 DEF Owned
  <2>4. Payload(hd[i]) = e.lo .. e.hi /\ Payload(hd[j]) = f.lo .. f.hi
    BY DEF Payload, BlockExtent, Extent
  <2> HIDE DEF e, f
  <2>5. e.hi < f.lo \/ f.hi < e.lo
    BY <2>1, <2>2, <2>3, ExtentsApart
  <2>6. e.lo \in Nat /\ e.hi \in Nat /\ f.lo \in Nat /\ f.hi \in Nat
    BY <2>2 DEF ExtentIn
  <2> QED BY <2>4, <2>5, <2>6
<1> QED BY <1>1, <1>2

(* A new block of an index is what the allocator promises. *)
LEMMA GivenPromised ==
  ASSUME Inv, Inv', NEW i \in Indices, NEW n \in Requests, Given(i, n)
  PROVE  Promise!realloc(i, n)
<1>1. PICK p \in Addr : held' = [held EXCEPT ![i] = [ptr |-> p, size |-> n]]
  BY DEF Given
<1>2. held \in [Indices -> Block] /\ n # 0 /\ n \in Nat
  BY InvHeap, RequestsAssumption DEF Given
<1>3. held'[i] = [ptr |-> p, size |-> n] /\ \A j \in Indices \ {i} : held'[j] = held[j]
  BY <1>1, <1>2
<1>4. held'[i].size = n /\ held'[i] # Free
  BY <1>2, <1>3 DEF Free
<1>5. Agree(heap', held', ranges')
  BY DEF Inv, Given
<1>6. Payload(held'[i]) \in Promise!Payloads(n)
  BY <1>4, <1>5, HeldPayload
<1>7. \A j \in Indices \ {i} : Payload(held'[i]) \intersect Payload(held[j]) = {}
  BY <1>3, <1>5, PayloadsApart
<1> DEFINE new == payload'
<1>8. \A j \in Indices : payload[j] = Payload(held[j]) /\ new[j] = Payload(held'[j])
  BY DEF payload, Payload
<1>9. new = [payload EXCEPT ![i] = new[i]]
  BY <1>3 DEF payload, Payload
<1>10. new[i] \intersect UNION {payload[j] : j \in Indices \ {i}} = {}
  BY <1>7, <1>8
<1>11. new[i] \in Promise!Payloads(n)
  BY <1>6, <1>8
<1>12. Promise!Give(i, n)
  BY <1>9, <1>10, <1>11 DEF Promise!Give, Promise!Taken, payload, Payload
<1> QED BY <1>2, <1>12 DEF Promise!realloc

(* A block given back is what the allocator calls free.                    *)
LEMMA GonePromised ==
  ASSUME Inv, NEW i \in Indices, Gone(i)
  PROVE  Promise!free(i)
<1>1. /\ held'[i] = Free /\ \A j \in Indices \ {i} : held'[j] = held[j]
  BY InvHeap DEF Gone
<1>2. payload' = [payload EXCEPT ![i] = {}]
  BY <1>1, PayloadOfFree DEF payload, Payload
<1> QED BY <1>2 DEF Promise!free, payload, Payload

(* The initial states map to those of the allocator.                       *)
LEMMA PromiseInit ==
  Init => Promise!Init
<1> SUFFICES ASSUME Init PROVE Promise!Init
  OBVIOUS
<1>1. \A i \in Indices : held[i] = Free
  BY DEF Init
<1> QED BY <1>1, PayloadOfFree DEF Promise!Init, payload, Payload

(* Every step of the client is one of the allocator or none.               *)
LEMMA PromiseStep ==
  Inv /\ Inv' /\ [Next]_vars => [Promise!Next]_payload
<1> SUFFICES ASSUME Inv, Inv', [Next]_vars PROVE Promise!Next \/ UNCHANGED payload
  OBVIOUS
<1>1. ASSUME NEW i \in Indices, NEW n \in Requests, Alloc(i, n)
      PROVE  Promise!Next \/ UNCHANGED payload
  <2>1. UNCHANGED held \/ Given(i, n)
    BY <1>1, AllocStep
  <2>2. Given(i, n) => Promise!realloc(i, n)
    BY GivenPromised
  <2> QED BY <2>1, <2>2 DEF Promise!Next, payload, Payload
<1>2. ASSUME NEW i \in Indices, NEW n \in Requests, Realloc(i, n)
      PROVE  Promise!Next \/ UNCHANGED payload
  <2>1. UNCHANGED held \/ Gone(i) \/ Given(i, n)
    BY <1>2, ReallocStep
  <2>2. Given(i, n) => Promise!realloc(i, n)
    BY GivenPromised
  <2>3. Gone(i) => Promise!free(i)
    BY GonePromised
  <2> QED BY <2>1, <2>2, <2>3 DEF Promise!Next, payload, Payload
<1>3. ASSUME NEW i \in Indices, Release(i) PROVE Promise!Next \/ UNCHANGED payload
  BY <1>3, ReleaseStep, GonePromised DEF Promise!Next
<1>4. CASE NextTrace
  <2>1. \A i \in Indices : held'[i] = Free
    BY <1>4 DEF NextTrace
  <2>2. Promise!Init'
    BY <2>1, PayloadOfFree DEF Promise!Init, payload, Payload
  <2> QED BY <2>2 DEF Promise!Next
<1>5. CASE UNCHANGED vars
  BY <1>5 DEF vars, payload, Payload
<1> QED BY <1>1, <1>2, <1>3, <1>4, <1>5 DEF Next

(* The malloc package implements the abstract allocator.                   *)
THEOREM PromiseKept == Spec => Promised
  BY InvCorrect, PromiseInit, PromiseStep, PTL DEF Spec, Promised, Promise!Spec

-----------------------------------------------------------------------------
(***************************************************************************)
(* The replays of the driver.  The routines of mm.c look only at the tags  *)
(* of the blocks and at the next-fit pointer; so two heaps that agree on   *)
(* those (Alike) answer every request in the same way, whatever else the   *)
(* memory holds, and stay alike.                                           *)
(***************************************************************************)

(* Where the words are that mm.c looks at: the blocks and the break.       *)
Edges(h) == h.blocks \union {h.brk}

(* What looks alike to mm.c, whatever else the memory holds: the tags at   *)
(* the blocks and the next-fit pointer.                                    *)
Alike(h, g) ==
  /\ h.brk = g.brk /\ h.next = g.next /\ h.blocks = g.blocks
  /\ \A b \in Edges(h) : h.hdr[b] = g.hdr[b]
  /\ \A b \in Edges(h) : b = heap_listp \/ h.ftr[b] = g.ftr[b]

AlikeResults(r, s) == r.ptr = s.ptr /\ Alike(r.heap, s.heap)

(* A heap, without the types of the words.                                 *)
Shaped(h) ==
  /\ h = [hdr |-> h.hdr, ftr |-> h.ftr, brk |-> h.brk, next |-> h.next,
          blocks |-> h.blocks]
  /\ h.hdr = [a \in Addr |-> h.hdr[a]] /\ h.ftr = [a \in Addr |-> h.ftr[a]]
  /\ Edges(h) \subseteq Addr

(* A heap between two calls has this shape.                                *)
LEMMA GoodShaped ==
  ASSUME NEW h, Sound(h)
  PROVE  Shaped(h)
<1>1. h \in HeapType /\ Edges(h) \subseteq Addr
  BY SoundTypes DEF Edges
<1>2. h.hdr \in [Addr -> Word] /\ h.ftr \in [Addr -> Word]
  BY <1>1, HeapFields
<1>3. h = [hdr |-> h.hdr, ftr |-> h.ftr, brk |-> h.brk, next |-> h.next,
           blocks |-> h.blocks]
  BY <1>1 DEF HeapType
<1> QED BY <1>1, <1>2, <1>3 DEF Shaped

(* h2 is h with tags for a block at b, wherever that is.                   *)
TaggedAt(h2, h, b, size, alloc) ==
  /\ Shaped(h2)
  /\ h2.brk = h.brk /\ h2.next = h.next /\ h2.blocks = h.blocks
  /\ \A a \in Addr :
       /\ h2.hdr[a] = IF a = b THEN Tag(size, alloc) ELSE h.hdr[a]
       /\ h2.ftr[a] = IF a = b + size THEN Tag(size, alloc) ELSE h.ftr[a]

(* WithTags does this.                                                     *)
LEMMA WithTagsAt ==
  ASSUME NEW h, Shaped(h), NEW b, NEW size, NEW alloc
  PROVE  TaggedAt(WithTags(h, b, size, alloc), h, b, size, alloc)
<1> DEFINE t == Tag(size, alloc)
           hd == [h.hdr EXCEPT ![b] = t]
           ft == [h.ftr EXCEPT ![b + size] = t]
           h2 == WithTags(h, b, size, alloc)
<1>1. /\ h = [hdr |-> h.hdr, ftr |-> h.ftr, brk |-> h.brk, next |-> h.next,
              blocks |-> h.blocks]
      /\ h.hdr = [a \in Addr |-> h.hdr[a]] /\ h.ftr = [a \in Addr |-> h.ftr[a]]
      /\ Edges(h) \subseteq Addr
  BY DEF Shaped
<1>2. h2 = [hdr |-> hd, ftr |-> ft, brk |-> h.brk, next |-> h.next, blocks |-> h.blocks]
  <2>1. h2 = [h EXCEPT !.hdr = hd, !.ftr = ft]
    BY <1>1 DEF WithTags
  <2> HIDE DEF hd, ft, h2
  <2> QED BY <1>1, <2>1
<1>3. hd = [a \in Addr |-> IF a = b THEN t ELSE h.hdr[a]]
  BY <1>1
<1>4. ft = [a \in Addr |-> IF a = b + size THEN t ELSE h.ftr[a]]
  BY <1>1
<1> HIDE DEF hd, ft, t, h2
<1>5. /\ h2.hdr = hd /\ h2.ftr = ft /\ h2.brk = h.brk /\ h2.next = h.next
      /\ h2.blocks = h.blocks
  BY <1>2
<1>6. \A a \in Addr : /\ hd[a] = IF a = b THEN t ELSE h.hdr[a]
                      /\ ft[a] = IF a = b + size THEN t ELSE h.ftr[a]
  BY <1>3, <1>4
<1>7. hd = [a \in Addr |-> hd[a]] /\ ft = [a \in Addr |-> ft[a]]
  BY <1>3, <1>4
<1>8. Shaped(h2)
  BY <1>1, <1>2, <1>5, <1>7 DEF Shaped, Edges
<1> QED BY <1>5, <1>6, <1>8 DEF TaggedAt, t, h2

(* coalesce looks at the tags of the block, of the one before and of the   *)
(* one after, and writes tags.                                             *)
LEMMA CoalesceAlike ==
  ASSUME NEW h, Shaped(h), NEW g, Shaped(g), Alike(h, g),
         NEW bp \in h.blocks, bp # heap_listp,
         NextBlock(h, bp) \in Edges(h), PrevBlock(h, bp) \in h.blocks
  PROVE  AlikeResults(coalesce(h, bp), coalesce(g, bp))
<1> DEFINE after(x) == NextBlock(x, bp)
           joinPrev(x) == ~x.ftr[bp].alloc
           joinNext(x) == ~Allocated(x, after(x))
           first(x) == IF joinPrev(x) THEN PrevBlock(x, bp) ELSE bp
           size(x) == Size(x, bp) + (IF joinPrev(x) THEN Size(x, first(x)) ELSE 0)
                                  + (IF joinNext(x) THEN Size(x, after(x)) ELSE 0)
           gone(x) == (IF joinPrev(x) THEN {bp} ELSE {})
                        \union (IF joinNext(x) THEN {after(x)} ELSE {})
           joined(x) == WithTags(x, first(x), size(x), FALSE)
           next2(x) == IF first(x) < joined(x).next /\ joined(x).next < first(x) + size(x)
                       THEN first(x) ELSE joined(x).next
           j(x) == [joined(x) EXCEPT !.next = next2(x), !.blocks = joined(x).blocks \ gone(x)]
<1>1. bp \in Edges(h) /\ h.hdr[bp] = g.hdr[bp] /\ h.ftr[bp] = g.ftr[bp]
  BY DEF Alike, Edges
<1>2. after(h) = after(g) /\ PrevBlock(h, bp) = PrevBlock(g, bp)
  BY <1>1 DEF NextBlock, PrevBlock, Size
<1>3. h.hdr[after(h)] = g.hdr[after(g)]
  BY <1>2 DEF Alike
<1>4. joinPrev(h) = joinPrev(g) /\ joinNext(h) = joinNext(g)
  BY <1>1, <1>3 DEF Allocated
<1>5. first(h) = first(g) /\ first(h) \in h.blocks
  BY <1>2, <1>4
<1>6. h.hdr[first(h)] = g.hdr[first(g)]
  BY <1>5 DEF Alike, Edges
<1>7. size(h) = size(g) /\ gone(h) = gone(g)
  BY <1>1, <1>2, <1>3, <1>4, <1>6 DEF Size
<1>8. ASSUME NEW x, ~joinPrev(x) /\ ~joinNext(x) PROVE coalesce(x, bp) = Result(x, bp)
  BY <1>8 DEF coalesce
<1>9. ASSUME NEW x, joinPrev(x) \/ joinNext(x) PROVE coalesce(x, bp) = Result(j(x), first(x))
  BY <1>9 DEF coalesce
<1> HIDE DEF after, joinPrev, joinNext, first, size, gone, joined, j, next2
<1>10. CASE ~joinPrev(h) /\ ~joinNext(h)
  BY <1>4, <1>8, <1>10 DEF AlikeResults, Result
<1>11. CASE joinPrev(h) \/ joinNext(h)
  <2>1. coalesce(h, bp) = Result(j(h), first(h)) /\ coalesce(g, bp) = Result(j(g), first(h))
    BY <1>4, <1>5, <1>9, <1>11
  <2>2. /\ TaggedAt(joined(h), h, first(h), size(h), FALSE)
        /\ TaggedAt(joined(g), g, first(h), size(h), FALSE)
    BY <1>5, <1>7, WithTagsAt DEF joined
  <2>3. joined(h).next = joined(g).next /\ next2(h) = next2(g)
    BY <1>5, <1>7, <2>2 DEF TaggedAt, Alike, next2
  <2>4. ASSUME NEW x, Shaped(joined(x))
        PROVE  /\ j(x).hdr = joined(x).hdr /\ j(x).ftr = joined(x).ftr
               /\ j(x).brk = joined(x).brk /\ j(x).next = next2(x)
               /\ j(x).blocks = joined(x).blocks \ gone(x)
    <3> DEFINE y == joined(x)
               n2 == next2(x)
               b2 == joined(x).blocks \ gone(x)
    <3>1. y = [hdr |-> y.hdr, ftr |-> y.ftr, brk |-> y.brk, next |-> y.next, blocks |-> y.blocks]
      BY <2>4 DEF Shaped
    <3>2. j(x) = [y EXCEPT !.next = n2, !.blocks = b2]
      BY DEF j
    <3> HIDE DEF y, n2, b2
    <3>3. j(x) = [hdr |-> y.hdr, ftr |-> y.ftr, brk |-> y.brk, next |-> n2, blocks |-> b2]
      BY <3>1, <3>2
    <3> QED BY <3>3 DEF y, n2, b2
  <2>5. Shaped(joined(h)) /\ Shaped(joined(g))
    BY <2>2 DEF TaggedAt
  <2>6. /\ j(h).brk = h.brk /\ j(g).brk = g.brk /\ j(h).next = j(g).next
        /\ j(h).blocks = h.blocks \ gone(h) /\ j(g).blocks = g.blocks \ gone(g)
    BY <2>2, <2>3, <2>4, <2>5 DEF TaggedAt
  <2>7. \A a \in Addr :
           /\ j(h).hdr[a] = IF a = first(h) THEN Tag(size(h), FALSE) ELSE h.hdr[a]
           /\ j(g).hdr[a] = IF a = first(h) THEN Tag(size(h), FALSE) ELSE g.hdr[a]
           /\ j(h).ftr[a] = IF a = first(h) + size(h) THEN Tag(size(h), FALSE) ELSE h.ftr[a]
           /\ j(g).ftr[a] = IF a = first(h) + size(h) THEN Tag(size(h), FALSE) ELSE g.ftr[a]
    BY <2>2, <2>4, <2>5 DEF TaggedAt
  <2>8. Edges(j(h)) \subseteq Edges(h) /\ Edges(h) \subseteq Addr
    BY <2>6 DEF Edges, Shaped
  <2>9. Alike(j(h), j(g))
    BY <1>7, <2>6, <2>7, <2>8 DEF Alike
  <2> QED BY <2>1, <2>9 DEF AlikeResults, Result
<1> QED BY <1>10, <1>11

(* extend_heap looks at the break and at the last block.                   *)
LEMMA ExtendAlike ==
  ASSUME NEW h, Shaped(h), NEW g, Shaped(g), Alike(h, g),
         PrevBlock(h, h.brk) \in h.blocks, h.brk # heap_listp,
         NEW size \in Nat, 2 <= size
  PROVE  AlikeResults(extend_heap(h, size), extend_heap(g, size))
<1> DEFINE bp == h.brk
           end == bp + size
           z == Tag(0, TRUE)
           w(x) == WithTags(x, bp, size, FALSE)
           e(x) == [w(x) EXCEPT !.hdr[end] = z, !.brk = end, !.blocks = @ \union {bp}]
<1>1. g.brk = bp
  BY DEF Alike
<1>2. CASE end > MaxHeap
  BY <1>1, <1>2 DEF extend_heap, AlikeResults, Result
<1>3. CASE ~(end > MaxHeap)
  <2>1. extend_heap(h, size) = coalesce(e(h), bp) /\ extend_heap(g, size) = coalesce(e(g), bp)
    BY <1>1, <1>3 DEF extend_heap
  <2>2. /\ bp \in Addr /\ bp \in Int /\ end \in Addr /\ end # bp /\ bp \in Edges(h)
        /\ Edges(h) \subseteq Addr
    <3>1. bp \in Edges(h) /\ Edges(h) \subseteq Addr
      BY DEF Edges, Shaped
    <3>2. bp \in Addr /\ bp \in Int /\ bp >= 1
      BY <3>1 DEF Addr
    <3>3. end \in Int /\ 1 <= end /\ end <= MaxHeap /\ end # bp
      BY <1>3, <3>2, MaxHeapAssumption
    <3> QED BY <3>1, <3>2, <3>3 DEF Addr
  <2> HIDE DEF bp, end, z, w, e
  <2>3. TaggedAt(w(h), h, bp, size, FALSE) /\ TaggedAt(w(g), g, bp, size, FALSE)
    BY WithTagsAt DEF w
  <2> DEFINE Grown(x) ==
               /\ e(x).ftr = w(x).ftr /\ e(x).brk = end /\ e(x).next = w(x).next
               /\ e(x).blocks = w(x).blocks \union {bp}
               /\ \A a \in Addr : e(x).hdr[a] = IF a = end THEN z ELSE w(x).hdr[a]
             Record(x) ==
               /\ e(x) = [hdr |-> e(x).hdr, ftr |-> e(x).ftr, brk |-> e(x).brk,
                          next |-> e(x).next, blocks |-> e(x).blocks]
               /\ e(x).hdr = [a \in Addr |-> e(x).hdr[a]]
  <2>4. ASSUME NEW x, Shaped(w(x)) PROVE Grown(x) /\ Record(x)
    <3> DEFINE y == w(x)
               hd == [y.hdr EXCEPT ![end] = z]
               b2 == y.blocks \union {bp}
    <3>1. /\ y = [hdr |-> y.hdr, ftr |-> y.ftr, brk |-> y.brk, next |-> y.next,
                  blocks |-> y.blocks]
          /\ y.hdr = [a \in Addr |-> y.hdr[a]]
      BY <2>4 DEF Shaped
    <3>2. e(x) = [y EXCEPT !.hdr = hd, !.brk = end, !.blocks = b2]
      BY <3>1 DEF e
    <3>3. hd = [a \in Addr |-> IF a = end THEN z ELSE y.hdr[a]]
      BY <3>1
    <3> HIDE DEF y, hd, b2
    <3>4. e(x) = [hdr |-> hd, ftr |-> y.ftr, brk |-> end, next |-> y.next, blocks |-> b2]
      BY <3>1, <3>2
    <3>5. hd = [a \in Addr |-> hd[a]] /\ \A a \in Addr : hd[a] = IF a = end THEN z ELSE y.hdr[a]
      BY <3>3
    <3> QED BY <3>4, <3>5 DEF y, b2
  <2> HIDE DEF Grown, Record
  <2>5. /\ Shaped(w(h)) /\ Shaped(w(g))
        /\ Grown(h) /\ Record(h) /\ Grown(g) /\ Record(g)
    BY <2>3, <2>4 DEF TaggedAt
  <2>6. /\ e(h).brk = end /\ e(g).brk = end /\ e(h).next = h.next /\ e(g).next = g.next
        /\ e(h).blocks = h.blocks \union {bp} /\ e(g).blocks = g.blocks \union {bp}
        /\ e(h).ftr = w(h).ftr /\ e(g).ftr = w(g).ftr
    BY <2>3, <2>5 DEF TaggedAt, Grown
  <2>e. bp + size = end
    BY DEF end
  <2>7. \A a \in Addr :
          /\ e(h).hdr[a] = IF a = end THEN z ELSE IF a = bp THEN Tag(size, FALSE) ELSE h.hdr[a]
          /\ e(g).hdr[a] = IF a = end THEN z ELSE IF a = bp THEN Tag(size, FALSE) ELSE g.hdr[a]
          /\ e(h).ftr[a] = IF a = end THEN Tag(size, FALSE) ELSE h.ftr[a]
          /\ e(g).ftr[a] = IF a = end THEN Tag(size, FALSE) ELSE g.ftr[a]
    <3> SUFFICES ASSUME NEW a \in Addr
                 PROVE /\ e(h).hdr[a] = IF a = end THEN z ELSE IF a = bp THEN Tag(size, FALSE) ELSE h.hdr[a]
                       /\ e(g).hdr[a] = IF a = end THEN z ELSE IF a = bp THEN Tag(size, FALSE) ELSE g.hdr[a]
                       /\ e(h).ftr[a] = IF a = end THEN Tag(size, FALSE) ELSE h.ftr[a]
                       /\ e(g).ftr[a] = IF a = end THEN Tag(size, FALSE) ELSE g.ftr[a]
      OBVIOUS
    <3>1. /\ w(h).hdr[a] = IF a = bp THEN Tag(size, FALSE) ELSE h.hdr[a]
          /\ w(g).hdr[a] = IF a = bp THEN Tag(size, FALSE) ELSE g.hdr[a]
          /\ w(h).ftr[a] = IF a = end THEN Tag(size, FALSE) ELSE h.ftr[a]
          /\ w(g).ftr[a] = IF a = end THEN Tag(size, FALSE) ELSE g.ftr[a]
      BY <2>3, <2>e DEF TaggedAt
    <3>2. /\ e(h).hdr[a] = IF a = end THEN z ELSE w(h).hdr[a]
          /\ e(g).hdr[a] = IF a = end THEN z ELSE w(g).hdr[a]
      BY <2>5 DEF Grown
    <3> QED BY <2>6, <3>1, <3>2
  <2>8. Edges(e(h)) \subseteq Edges(h) \union {end} /\ Edges(e(h)) \subseteq Addr
    BY <2>2, <2>6 DEF Edges
  <2>9. Alike(e(h), e(g))
    <3>1. ASSUME NEW b \in Edges(e(h))
          PROVE  /\ e(h).hdr[b] = e(g).hdr[b]
                 /\ b = heap_listp \/ e(h).ftr[b] = e(g).ftr[b]
      <4>1. b \in Addr /\ (b = end \/ b \in Edges(h))
        BY <2>8
      <4>2. b # end => h.hdr[b] = g.hdr[b] /\ (b = heap_listp \/ h.ftr[b] = g.ftr[b])
        BY <4>1 DEF Alike
      <4> QED BY <2>7, <4>1, <4>2
    <3>2. e(h).brk = e(g).brk /\ e(h).next = e(g).next /\ e(h).blocks = e(g).blocks
      BY <2>6 DEF Alike
    <3> QED BY <3>1, <3>2 DEF Alike
  <2>10. Shaped(e(h)) /\ Shaped(e(g))
    <3>1. Edges(e(g)) = Edges(e(h))
      BY <2>9 DEF Alike, Edges
    <3>2. /\ w(h).ftr = [a \in Addr |-> w(h).ftr[a]] /\ w(g).ftr = [a \in Addr |-> w(g).ftr[a]]
      BY <2>5 DEF Shaped
    <3>3. e(h).ftr = [a \in Addr |-> e(h).ftr[a]] /\ e(g).ftr = [a \in Addr |-> e(g).ftr[a]]
      BY <2>6, <3>2
    <3> QED BY <2>5, <2>8, <3>1, <3>3 DEF Shaped, Record
  <2>11. NextBlock(e(h), bp) \in Edges(e(h))
    <3>1. e(h).hdr[bp].size = size
      BY <2>2, <2>7 DEF Tag
    <3> QED BY <2>6, <3>1 DEF NextBlock, Size, Edges, end
  <2>12. PrevBlock(e(h), bp) \in e(h).blocks
    <3>1. e(h).ftr[bp] = h.ftr[bp]
      BY <2>2, <2>7
    <3> QED BY <2>6, <3>1 DEF PrevBlock, bp
  <2>13. AlikeResults(coalesce(e(h), bp), coalesce(e(g), bp))
    <3>1. bp \in e(h).blocks /\ bp # heap_listp
      BY <2>6 DEF bp
    <3> QED BY <2>9, <2>10, <2>11, <2>12, <3>1, CoalesceAlike
  <2> QED BY <2>1, <2>13
<1> QED BY <1>2, <1>3

(* The block before the break.                                             *)
LEMMA LastBlock ==
  ASSUME NEW h, Sound(h), NEW b \in Edges(h), b # heap_listp
  PROVE  PrevBlock(h, b) \in h.blocks
<1>1. PICK p \in h.blocks : After(h.hdr, p) = b
  BY SoundTypes DEF Tiles, Edges
<1>2. h.ftr[b] = h.hdr[p] /\ p + h.hdr[p].size = b /\ p \in Int /\ h.hdr[p].size \in Nat
  BY <1>1, SoundTypes
<1>3. b - h.hdr[p].size = p
  BY <1>2
<1> QED BY <1>2, <1>3 DEF PrevBlock

(* mm_init makes heaps that look alike of whatever the memory held.        *)
LEMMA InitAlike ==
  ASSUME NEW h \in HeapType, NEW g \in HeapType
  PROVE  Alike(mm_init(h), mm_init(g))
<1> DEFINE t == Tag(1, TRUE)
           z == Tag(0, TRUE)
           p == Tag(0, FALSE)
           s(x) == [x EXCEPT !.ftr[1] = p, !.hdr[1] = t, !.ftr[2] = t, !.hdr[2] = z,
                             !.brk = 2, !.next = heap_listp, !.blocks = {heap_listp}]
<1>1. mm_init(h) = extend_heap(s(h), Chunk).heap /\ mm_init(g) = extend_heap(s(g), Chunk).heap
  BY DEF mm_init
<1>2. 1 \in Addr /\ 2 \in Addr /\ Chunk \in Nat /\ 2 <= Chunk
  BY ChunkAssumption, MaxHeapAssumption DEF Addr
<1>a. t.size = 1
  BY DEF Tag
<1> HIDE DEF t, z, p
<1>3. ASSUME NEW x \in HeapType
      PROVE  /\ s(x) = [hdr |-> s(x).hdr, ftr |-> s(x).ftr, brk |-> s(x).brk,
                        next |-> s(x).next, blocks |-> s(x).blocks]
             /\ s(x).brk = 2 /\ s(x).next = heap_listp /\ s(x).blocks = {heap_listp}
             /\ s(x).hdr = [a \in Addr |-> s(x).hdr[a]] /\ s(x).ftr = [a \in Addr |-> s(x).ftr[a]]
             /\ s(x).hdr[1] = t /\ s(x).hdr[2] = z /\ s(x).ftr[2] = t
  <2> DEFINE hd == [[x.hdr EXCEPT ![1] = t] EXCEPT ![2] = z]
             ft == [[x.ftr EXCEPT ![1] = p] EXCEPT ![2] = t]
  <2>1. x.hdr \in [Addr -> Word] /\ x.ftr \in [Addr -> Word]
    BY HeapFields
  <2>2. x = [hdr |-> x.hdr, ftr |-> x.ftr, brk |-> x.brk, next |-> x.next, blocks |-> x.blocks]
    BY DEF HeapType
  <2>3. s(x) = [x EXCEPT !.ftr = ft, !.hdr = hd, !.brk = 2, !.next = heap_listp,
                         !.blocks = {heap_listp}]
    BY <2>2
  <2>4. /\ hd[1] = t /\ hd[2] = z /\ ft[2] = t
        /\ hd = [a \in Addr |-> hd[a]] /\ ft = [a \in Addr |-> ft[a]]
    BY <1>2, <2>1
  <2> HIDE DEF s, hd, ft
  <2>5. s(x) = [hdr |-> hd, ftr |-> ft, brk |-> 2, next |-> heap_listp, blocks |-> {heap_listp}]
    BY <2>2, <2>3
  <2> QED BY <2>4, <2>5
<1> HIDE DEF s
<1>4. ASSUME NEW x \in HeapType
      PROVE  /\ s(x).brk = 2 /\ s(x).next = heap_listp /\ s(x).blocks = {heap_listp}
             /\ Edges(s(x)) = {1, 2} /\ Shaped(s(x))
  <2>1. s(x).brk = 2 /\ s(x).next = heap_listp /\ s(x).blocks = {heap_listp}
    BY <1>3
  <2>2. Edges(s(x)) = {1, 2}
    BY <2>1 DEF Edges, heap_listp
  <2> QED BY <1>2, <1>3, <2>1, <2>2 DEF Shaped
<1>5. Alike(s(h), s(g))
  <2>1. /\ s(h).hdr[1] = t /\ s(h).hdr[2] = z /\ s(h).ftr[2] = t
        /\ s(g).hdr[1] = t /\ s(g).hdr[2] = z /\ s(g).ftr[2] = t
    BY <1>3
  <2>2. /\ s(h).brk = s(g).brk /\ s(h).next = s(g).next /\ s(h).blocks = s(g).blocks
        /\ Edges(s(h)) = {1, 2}
    BY <1>4
  <2> QED BY <2>1, <2>2 DEF Alike, heap_listp
<1>6. PrevBlock(s(h), s(h).brk) \in s(h).blocks /\ s(h).brk # heap_listp
  <2>1. s(h).brk = 2 /\ s(h).blocks = {heap_listp}
    BY <1>4
  <2>2. s(h).ftr[2] = t
    BY <1>3
  <2> QED BY <1>a, <2>1, <2>2 DEF PrevBlock, heap_listp
<1>7. AlikeResults(extend_heap(s(h), Chunk), extend_heap(s(g), Chunk))
  BY <1>2, <1>4, <1>5, <1>6, ExtendAlike
<1> QED BY <1>1, <1>7 DEF AlikeResults

(* The search looks at the tags of the blocks.                             *)
LEMMA FindFitAlike ==
  ASSUME NEW h, NEW g, Alike(h, g), NEW asize
  PROVE  find_fit(h, asize) = find_fit(g, asize)
<1>1. h.blocks = g.blocks /\ h.next = g.next /\ \A b \in h.blocks : h.hdr[b] = g.hdr[b]
  BY DEF Alike, Edges
<1>2. Fitting(h, asize) = Fitting(g, asize)
  BY <1>1 DEF Fitting, Allocated, Size
<1> QED BY <1>1, <1>2 DEF find_fit

(* place looks at the size of the block.                                   *)
LEMMA PlaceAlike ==
  ASSUME NEW h, Shaped(h), NEW g, Shaped(g), Alike(h, g),
         NEW bp \in h.blocks, h.hdr[bp].size \in Nat, bp + h.hdr[bp].size \in Addr,
         NEW asize \in Nat
  PROVE  Alike(place(h, bp, asize), place(g, bp, asize))
<1> DEFINE size == h.hdr[bp].size
           rest == size - asize
           w(x) == WithTags(x, bp, asize, TRUE)
           v(x) == WithTags(w(x), bp + asize, rest, FALSE)
           e(x) == [v(x) EXCEPT !.blocks = @ \union {bp + asize}]
           u(x) == WithTags(x, bp, size, TRUE)
<1>1. bp \in Edges(h) /\ h.hdr[bp] = g.hdr[bp] /\ Edges(h) = Edges(g) /\ Edges(h) \subseteq Addr
  BY DEF Alike, Edges, Shaped
<1>2. CASE rest >= 2
  <2>1. place(h, bp, asize) = e(h) /\ place(g, bp, asize) = e(g)
    BY <1>1, <1>2 DEF place, Size
  <2>2. bp + asize \in Addr
    BY <1>1, <1>2, MaxHeapAssumption DEF Addr
  <2> HIDE DEF size, rest, w, v, e
  <2>3. TaggedAt(w(h), h, bp, asize, TRUE) /\ TaggedAt(w(g), g, bp, asize, TRUE)
    BY WithTagsAt DEF w
  <2>4. Shaped(w(h)) /\ Shaped(w(g))
    BY <2>3 DEF TaggedAt
  <2>5. /\ TaggedAt(v(h), w(h), bp + asize, rest, FALSE)
        /\ TaggedAt(v(g), w(g), bp + asize, rest, FALSE)
    BY <2>4, WithTagsAt DEF v
  <2>6. ASSUME NEW x, Shaped(v(x))
        PROVE  /\ e(x).hdr = v(x).hdr /\ e(x).ftr = v(x).ftr /\ e(x).brk = v(x).brk
               /\ e(x).next = v(x).next /\ e(x).blocks = v(x).blocks \union {bp + asize}
    <3> DEFINE y == v(x)
               b2 == y.blocks \union {bp + asize}
    <3>1. /\ y = [hdr |-> y.hdr, ftr |-> y.ftr, brk |-> y.brk, next |-> y.next,
                  blocks |-> y.blocks]
      BY <2>6 DEF Shaped
    <3>2. e(x) = [y EXCEPT !.blocks = b2]
      BY DEF e
    <3> HIDE DEF y, b2
    <3>3. e(x) = [hdr |-> y.hdr, ftr |-> y.ftr, brk |-> y.brk, next |-> y.next, blocks |-> b2]
      BY <3>1, <3>2
    <3> QED BY <3>3 DEF y, b2
  <2>7. /\ e(h).brk = h.brk /\ e(g).brk = g.brk /\ e(h).next = h.next /\ e(g).next = g.next
        /\ e(h).blocks = h.blocks \union {bp + asize} /\ e(g).blocks = g.blocks \union {bp + asize}
    BY <2>3, <2>5, <2>6 DEF TaggedAt
  <2>8. \A x \in {h, g} : \A a \in Addr :
          /\ e(x).hdr[a] = IF a = bp + asize THEN Tag(rest, FALSE)
                           ELSE IF a = bp THEN Tag(asize, TRUE) ELSE x.hdr[a]
          /\ e(x).ftr[a] = IF a = (bp + asize) + rest THEN Tag(rest, FALSE)
                           ELSE IF a = bp + asize THEN Tag(asize, TRUE) ELSE x.ftr[a]
    <3> SUFFICES ASSUME NEW x \in {h, g}, NEW a \in Addr
                 PROVE  /\ e(x).hdr[a] = IF a = bp + asize THEN Tag(rest, FALSE)
                                         ELSE IF a = bp THEN Tag(asize, TRUE) ELSE x.hdr[a]
                        /\ e(x).ftr[a] = IF a = (bp + asize) + rest THEN Tag(rest, FALSE)
                                         ELSE IF a = bp + asize THEN Tag(asize, TRUE) ELSE x.ftr[a]
      OBVIOUS
    <3>1. TaggedAt(w(x), x, bp, asize, TRUE) /\ TaggedAt(v(x), w(x), bp + asize, rest, FALSE)
      BY <2>3, <2>5
    <3>2. /\ w(x).hdr[a] = IF a = bp THEN Tag(asize, TRUE) ELSE x.hdr[a]
          /\ w(x).ftr[a] = IF a = bp + asize THEN Tag(asize, TRUE) ELSE x.ftr[a]
      BY <3>1 DEF TaggedAt
    <3>3. /\ v(x).hdr[a] = IF a = bp + asize THEN Tag(rest, FALSE) ELSE w(x).hdr[a]
          /\ v(x).ftr[a] = IF a = (bp + asize) + rest THEN Tag(rest, FALSE) ELSE w(x).ftr[a]
      BY <3>1 DEF TaggedAt
    <3>4. e(x).hdr = v(x).hdr /\ e(x).ftr = v(x).ftr
      BY <2>6, <3>1 DEF TaggedAt
    <3> QED BY <3>2, <3>3, <3>4
  <2>9. Edges(e(h)) = Edges(h) \union {bp + asize} /\ Edges(e(h)) \subseteq Addr
    BY <1>1, <2>2, <2>7 DEF Edges
  <2>10. Alike(e(h), e(g))
    <3>1. ASSUME NEW b \in Edges(e(h))
          PROVE  /\ e(h).hdr[b] = e(g).hdr[b]
                 /\ b = heap_listp \/ e(h).ftr[b] = e(g).ftr[b]
      <4>1. b \in Addr /\ (b = bp + asize \/ b \in Edges(h))
        BY <2>9
      <4>2. b # bp + asize => h.hdr[b] = g.hdr[b] /\ (b = heap_listp \/ h.ftr[b] = g.ftr[b])
        BY <4>1 DEF Alike
      <4> QED BY <2>8, <4>1, <4>2
    <3>2. e(h).brk = e(g).brk /\ e(h).next = e(g).next /\ e(h).blocks = e(g).blocks
      BY <2>7 DEF Alike
    <3> QED BY <3>1, <3>2 DEF Alike
  <2> QED BY <2>1, <2>10
<1>3. CASE ~(rest >= 2)
  <2>1. place(h, bp, asize) = u(h) /\ place(g, bp, asize) = u(g)
    BY <1>1, <1>3 DEF place, Size
  <2> HIDE DEF size, u
  <2>2. TaggedAt(u(h), h, bp, size, TRUE) /\ TaggedAt(u(g), g, bp, size, TRUE)
    BY WithTagsAt DEF u
  <2>3. Edges(u(h)) = Edges(h)
    BY <2>2 DEF TaggedAt, Edges
  <2>4. Alike(u(h), u(g))
    BY <1>1, <2>2, <2>3 DEF TaggedAt, Alike
  <2> QED BY <2>1, <2>4
<1> QED BY <1>2, <1>3

(* The next-fit pointer moves to a block.                                  *)
LEMMA NextMoved ==
  ASSUME NEW h, Shaped(h), NEW fit
  PROVE  LET h2 == [h EXCEPT !.next = fit]
         IN  /\ Shaped(h2) /\ h2.hdr = h.hdr /\ h2.ftr = h.ftr
             /\ h2.brk = h.brk /\ h2.next = fit /\ h2.blocks = h.blocks
<1> DEFINE h2 == [h EXCEPT !.next = fit]
<1>1. h = [hdr |-> h.hdr, ftr |-> h.ftr, brk |-> h.brk, next |-> h.next,
           blocks |-> h.blocks]
  BY DEF Shaped
<1>2. h2 = [hdr |-> h.hdr, ftr |-> h.ftr, brk |-> h.brk, next |-> fit, blocks |-> h.blocks]
  BY <1>1
<1> HIDE DEF h2
<1>3. /\ h2.hdr = h.hdr /\ h2.ftr = h.ftr
      /\ h2.brk = h.brk /\ h2.next = fit /\ h2.blocks = h.blocks
  BY <1>2
<1>4. Shaped(h2)
  BY <1>2, <1>3 DEF Shaped, Edges
<1> QED BY <1>3, <1>4 DEF h2

(* mm_malloc hands out the same block of heaps that look alike.            *)
LEMMA MallocAlike ==
  ASSUME NEW h, Good(h), NEW g, Good(g), Alike(h, g), NEW n \in Nat
  PROVE  AlikeResults(mm_malloc(h, n), mm_malloc(g, n))
<1> DEFINE asize == Adjusted(n)
           size == IF asize > Chunk THEN asize ELSE Chunk
           fit == find_fit(h, asize)
           x(y) == extend_heap(y, size)
           to(y) == [y EXCEPT !.next = fit]
<1>1. asize \in Nat /\ 2 <= asize /\ size \in Nat /\ 2 <= size
  <2>1. asize \in Nat /\ 2 <= asize
    BY DEF Adjusted, DSIZE
  <2> HIDE DEF asize
  <2> QED BY <2>1, ChunkAssumption
<1>2. Sound(h) /\ Sound(g) /\ Shaped(h) /\ Shaped(g)
  BY GoodShaped DEF Good
<1>3. find_fit(g, asize) = fit
  BY FindFitAlike
<1>4. CASE n = 0
  BY <1>4 DEF mm_malloc, AlikeResults, Result
<1>5. CASE n # 0 /\ fit # NULL
  <2>1. /\ mm_malloc(h, n) = Result(place(to(h), fit, asize), fit)
        /\ mm_malloc(g, n) = Result(place(to(g), fit, asize), fit)
    BY <1>3, <1>5 DEF mm_malloc
  <2>2. Fits(h, fit, asize)
    BY <1>2, <1>5, FindFitEffect
  <2> HIDE DEF asize, fit
  <2>3. /\ Shaped(to(h)) /\ to(h).hdr = h.hdr /\ to(h).ftr = h.ftr
        /\ to(h).brk = h.brk /\ to(h).next = fit /\ to(h).blocks = h.blocks
    BY <1>2, NextMoved
  <2>4. /\ Shaped(to(g)) /\ to(g).hdr = g.hdr /\ to(g).ftr = g.ftr
        /\ to(g).brk = g.brk /\ to(g).next = fit /\ to(g).blocks = g.blocks
    BY <1>2, NextMoved
  <2> HIDE DEF to
  <2>5. Alike(to(h), to(g))
    BY <2>3, <2>4 DEF Alike, Edges
  <2>6. /\ fit \in to(h).blocks /\ to(h).hdr[fit].size \in Nat
        /\ fit + to(h).hdr[fit].size \in Addr
    BY <1>2, <2>2, <2>3, SoundTypes DEF Fits
  <2>7. Alike(place(to(h), fit, asize), place(to(g), fit, asize))
    BY <1>1, <2>3, <2>4, <2>5, <2>6, PlaceAlike
  <2> QED BY <2>1, <2>7 DEF AlikeResults, Result
<1>6. CASE n # 0 /\ fit = NULL
  <2>1. PrevBlock(h, h.brk) \in h.blocks /\ h.brk # heap_listp
    <3>1. h.brk # heap_listp /\ h.brk \in Edges(h)
      BY <1>2, SoundTypes DEF Edges
    <3> QED BY <1>2, <3>1, LastBlock
  <2>2. AlikeResults(x(h), x(g))
    <3> HIDE DEF size
    <3> QED BY <1>1, <1>2, <2>1, ExtendAlike
  <2>3. /\ mm_malloc(h, n) = IF x(h).ptr = NULL THEN x(h)
                             ELSE Result(place(x(h).heap, x(h).ptr, asize), x(h).ptr)
        /\ mm_malloc(g, n) = IF x(g).ptr = NULL THEN x(g)
                             ELSE Result(place(x(g).heap, x(g).ptr, asize), x(g).ptr)
    BY <1>3, <1>6 DEF mm_malloc
  <2>4. x(h).ptr # NULL => Extends(x(h).heap, x(h).ptr, h, size)
    <3> HIDE DEF size
    <3>1. x(h) = Result(h, NULL) \/ Extends(x(h).heap, x(h).ptr, h, size)
      BY <1>1, ExtendEffect
    <3> QED BY <3>1 DEF Result
  <2>5. x(g).ptr # NULL => Extends(x(g).heap, x(g).ptr, g, size)
    <3> HIDE DEF size
    <3>1. x(g) = Result(g, NULL) \/ Extends(x(g).heap, x(g).ptr, g, size)
      BY <1>1, ExtendEffect
    <3> QED BY <3>1 DEF Result
  <2> HIDE DEF x, asize, size, fit
  <2>6. x(h).ptr = x(g).ptr /\ Alike(x(h).heap, x(g).heap)
    BY <2>2 DEF AlikeResults
  <2>7. CASE x(h).ptr = NULL
    BY <2>2, <2>3, <2>6, <2>7
  <2>8. CASE x(h).ptr # NULL
    <3> DEFINE hh == x(h).heap
               gg == x(g).heap
               p == x(h).ptr
    <3>1. Sound(hh) /\ Sound(gg) /\ p \in hh.blocks
      BY <2>4, <2>5, <2>6, <2>8 DEF Extends, Good, Fits
    <3>2. Alike(hh, gg)
      BY <2>6
    <3>3. /\ mm_malloc(h, n) = Result(place(hh, p, asize), p)
          /\ mm_malloc(g, n) = Result(place(gg, p, asize), p)
      BY <2>3, <2>6, <2>8
    <3> HIDE DEF hh, gg, p
    <3>4. hh.hdr[p].size \in Nat /\ p + hh.hdr[p].size \in Addr
      BY <3>1, SoundTypes
    <3>5. Shaped(hh) /\ Shaped(gg)
      BY <3>1, GoodShaped
    <3>6. Alike(place(hh, p, asize), place(gg, p, asize))
      BY <1>1, <3>1, <3>2, <3>4, <3>5, PlaceAlike
    <3> QED BY <3>3, <3>6 DEF AlikeResults, Result
  <2> QED BY <2>7, <2>8
<1> QED BY <1>4, <1>5, <1>6

(* mm_free leaves heaps that look alike looking alike.                     *)
LEMMA FreeAlike ==
  ASSUME NEW h, Good(h), NEW g, Good(g), Alike(h, g), NEW bp \in Live(h)
  PROVE  Alike(mm_free(h, bp), mm_free(g, bp))
<1> DEFINE size == Size(h, bp)
           w(x) == WithTags(x, bp, size, FALSE)
<1>1. Sound(h) /\ Sound(g) /\ Shaped(h) /\ Shaped(g) /\ bp \in h.blocks /\ bp # heap_listp
  BY GoodShaped DEF Good, Live
<1>2. bp # NULL /\ bp \in Addr /\ bp \in Edges(h) /\ Edges(h) = Edges(g) /\ Edges(h) \subseteq Addr
  BY <1>1, SoundTypes DEF NULL, Addr, Edges, Alike
<1>3. Size(g, bp) = size
  BY <1>2 DEF Alike, Size
<1>4. mm_free(h, bp) = coalesce(w(h), bp).heap /\ mm_free(g, bp) = coalesce(w(g), bp).heap
  BY <1>2, <1>3 DEF mm_free
<1>5. /\ bp + size \in Edges(h) /\ bp # bp + size
  BY <1>1, SoundTypes DEF Edges, Size
<1>6. PrevBlock(h, bp) \in h.blocks
  BY <1>1, <1>2, LastBlock
<1> HIDE DEF size, w
<1>7. TaggedAt(w(h), h, bp, size, FALSE) /\ TaggedAt(w(g), g, bp, size, FALSE)
  BY <1>1, WithTagsAt DEF w
<1>8. /\ Shaped(w(h)) /\ Shaped(w(g)) /\ Edges(w(h)) = Edges(h) /\ w(h).blocks = h.blocks
  BY <1>7 DEF TaggedAt, Edges
<1>9. Alike(w(h), w(g))
  BY <1>2, <1>7, <1>8 DEF TaggedAt, Alike
<1>10. w(h).hdr[bp] = Tag(size, FALSE) /\ w(h).ftr[bp] = h.ftr[bp]
  BY <1>2, <1>5, <1>7 DEF TaggedAt
<1>11. NextBlock(w(h), bp) = bp + size /\ PrevBlock(w(h), bp) = PrevBlock(h, bp)
  BY <1>10 DEF NextBlock, PrevBlock, Size, Tag
<1>12. AlikeResults(coalesce(w(h), bp), coalesce(w(g), bp))
  BY <1>1, <1>5, <1>6, <1>8, <1>9, <1>11, CoalesceAlike
<1> QED BY <1>4, <1>12 DEF AlikeResults

(* Sound heaps look alike if the headers do.                               *)
LEMMA SoundAlike ==
  ASSUME NEW h, Sound(h), NEW g, Sound(g),
         h.brk = g.brk, h.next = g.next, h.blocks = g.blocks,
         \A b \in h.blocks : h.hdr[b] = g.hdr[b]
  PROVE  Alike(h, g)
<1>1. h.hdr[h.brk] = Tag(0, TRUE)
  <2>1. Tiles(h.hdr, h.ftr, h.brk, h.blocks)
    BY SoundTypes
  <2> QED BY <2>1 DEF Tiles, Walls
<1>2. g.hdr[g.brk] = Tag(0, TRUE)
  <2>1. Tiles(g.hdr, g.ftr, g.brk, g.blocks)
    BY SoundTypes
  <2> QED BY <2>1 DEF Tiles, Walls
<1>3. ASSUME NEW b \in Edges(h), b # heap_listp PROVE h.ftr[b] = g.ftr[b]
  <2>1. PICK p \in h.blocks : After(h.hdr, p) = b
    BY <1>3, SoundTypes DEF Tiles, Edges
  <2>2. After(g.hdr, p) = b
    BY <2>1 DEF After
  <2>3. h.ftr[After(h.hdr, p)] = h.hdr[p] /\ g.ftr[After(g.hdr, p)] = g.hdr[p]
    BY SoundTypes
  <2> QED BY <2>1, <2>2, <2>3
<1> QED BY <1>1, <1>2, <1>3 DEF Alike, Edges

(* Looking alike is symmetric and transitive.                              *)
LEMMA AlikeTransitive ==
  ASSUME NEW h, NEW g, NEW k, Alike(h, g), Alike(h, k)
  PROVE  Alike(g, k)
  BY DEF Alike, Edges

(* The same blocks are in use.                                             *)
LEMMA AlikeLive ==
  ASSUME NEW h, NEW g, Alike(h, g)
  PROVE  Live(h) = Live(g)
  BY DEF Alike, Edges, Live

(* Writing inside a block that is in use is not noticed.                   *)
LEMMA WritesAlike ==
  ASSUME NEW h, Good(h), NEW h2, NEW bp, Writes(h2, h, bp), h2.next = h.next
  PROVE  Alike(h, h2)
  BY SoundAlike DEF Writes, Good

(* memcpy and memset leave the next-fit pointer alone.                     *)
LEMMA CopyFields ==
  ASSUME NEW h \in HeapType, NEW to, NEW from, NEW count, NEW i
  PROVE  memcpy(h, to, from, count).next = h.next /\ memset(h, to, i, count).next = h.next
<1>1. h = [hdr |-> h.hdr, ftr |-> h.ftr, brk |-> h.brk, next |-> h.next, blocks |-> h.blocks]
  BY DEF HeapType
<1> DEFINE c == CopiedFrom(h.hdr, to, from, count)
           d == CopiedFrom(h.ftr, to, from, count)
           e == FilledWith(h.hdr, to, i, count)
           f == FilledWith(h.ftr, to, i, count)
<1>2. /\ memcpy(h, to, from, count) = [h EXCEPT !.hdr = c, !.ftr = d]
      /\ memset(h, to, i, count) = [h EXCEPT !.hdr = e, !.ftr = f]
  BY DEF memcpy, memset
<1> HIDE DEF c, d, e, f
<1>3. /\ [h EXCEPT !.hdr = c, !.ftr = d].next = h.next
      /\ [h EXCEPT !.hdr = e, !.ftr = f].next = h.next
  BY <1>1
<1> QED BY <1>2, <1>3

(* mm_realloc moves a block to the same place.                             *)
LEMMA ReallocAlike ==
  ASSUME NEW h, Good(h), NEW g, Good(g), Alike(h, g), NEW bp \in Live(h),
         NEW n \in Nat, n # 0
  PROVE  AlikeResults(mm_realloc(h, bp, n), mm_realloc(g, bp, n))
<1> DEFINE new(x) == mm_malloc(x, n)
           hh == new(h).heap
           gg == new(g).heap
           p == new(h).ptr
           d == Doublewords(n)
           count(x) == IF d < Size(x, bp) THEN d ELSE Size(x, bp)
           c(x) == memcpy(x, p, bp, count(hh))
<1>1. bp # NULL /\ bp \in Live(g)
  <2>1. Sound(h) /\ bp \in h.blocks
    BY DEF Good, Live
  <2> QED BY <2>1, SoundTypes, AlikeLive DEF NULL, Addr
<1>2. p = new(g).ptr /\ Alike(hh, gg) /\ AlikeResults(new(h), new(g))
  BY MallocAlike DEF AlikeResults
<1>3. CASE p = NULL
  <2>1. mm_realloc(h, bp, n) = new(h) /\ mm_realloc(g, bp, n) = new(g)
    BY <1>2, <1>3 DEF mm_realloc
  <2> QED BY <1>2, <2>1
<1>4. CASE p # NULL
  <2>1. Allots(hh, p, h, n) /\ Allots(gg, p, g, n)
    <3>1. new(h) = Result(h, NULL) \/ Allots(new(h).heap, new(h).ptr, h, n)
      BY MallocEffect
    <3>2. new(g) = Result(g, NULL) \/ Allots(new(g).heap, new(g).ptr, g, n)
      BY MallocEffect
    <3> HIDE DEF new
    <3> QED BY <1>2, <1>4, <3>1, <3>2 DEF Result
  <2>2. /\ mm_realloc(h, bp, n) = Result(mm_free(memcpy(hh, p, bp, count(hh)), bp), p)
        /\ mm_realloc(g, bp, n) = Result(mm_free(memcpy(gg, p, bp, count(gg)), bp), p)
    BY <1>1, <1>2, <1>4 DEF mm_realloc
  <2> HIDE DEF new, hh, gg, p, d
  <2>3. /\ Good(hh) /\ Good(gg) /\ Sound(hh) /\ p \in Live(hh) /\ p \in Live(gg) /\ p # bp
        /\ bp \in Live(hh) /\ bp \in Live(gg) /\ bp \in hh.blocks /\ p \in hh.blocks
        /\ Adjusted(n) <= hh.hdr[p].size
    BY <1>1, <2>1 DEF Allots, Good, Live
  <2>4. hh.hdr[bp] = gg.hdr[bp] /\ hh.hdr[p] = gg.hdr[p]
    BY <1>2, <2>3 DEF Alike, Edges
  <2>5. count(gg) = count(hh)
    BY <2>4 DEF Size
  <2> DEFINE m == count(hh)
  <2>6. /\ m \in Nat /\ m + 1 <= hh.hdr[p].size /\ m <= hh.hdr[bp].size
    <3>1. hh.hdr[p].size \in Nat /\ hh.hdr[bp].size \in Nat
      BY <2>3, SoundTypes
    <3>2. d \in Nat /\ d + 1 <= hh.hdr[p].size
      BY <2>3, <3>1, RoomForRequest DEF d
    <3> QED BY <3>1, <3>2 DEF Size
  <2>z. c(hh) = memcpy(hh, p, bp, m) /\ c(gg) = memcpy(gg, p, bp, m)
    OBVIOUS
  <2> HIDE DEF m, c, count
  <2>7. Copies(c(hh), hh, p, bp, m) /\ Copies(c(gg), gg, p, bp, m)
    BY <2>3, <2>4, <2>6, <2>z, MemcpyEffect
  <2>8. c(hh).next = hh.next /\ c(gg).next = gg.next
    <3>1. hh \in HeapType /\ gg \in HeapType
      BY <2>3 DEF Good, Sound
    <3> QED BY <2>z, <3>1, CopyFields
  <2>9. Alike(hh, c(hh)) /\ Alike(gg, c(gg))
    BY <2>3, <2>7, <2>8, WritesAlike DEF Copies
  <2>10. Alike(c(hh), gg)
    BY <1>2, <2>9, AlikeTransitive
  <2>11. Alike(gg, c(hh))
    BY <2>10 DEF Alike, Edges
  <2>12. Alike(c(hh), c(gg))
    BY <2>9, <2>11, AlikeTransitive
  <2>13. Good(c(hh)) /\ Good(c(gg)) /\ bp \in Live(c(hh))
    BY <2>3, <2>7 DEF Copies, Writes
  <2>14. Alike(mm_free(c(hh), bp), mm_free(c(gg), bp))
    BY <2>12, <2>13, FreeAlike
  <2>15. /\ mm_realloc(h, bp, n) = Result(mm_free(c(hh), bp), p)
         /\ mm_realloc(g, bp, n) = Result(mm_free(c(gg), bp), p)
    BY <2>2, <2>5, <2>z DEF m
  <2> QED BY <2>14, <2>15 DEF AlikeResults, Result
<1> QED BY <1>3, <1>4

-----------------------------------------------------------------------------
(* The request o, for the heap h and the blocks hd (Called of Driver).     *)
CalledOn(h, hd, o) ==
  CASE o.type = "alloc"   -> mm_malloc(h, o.size)
    [] o.type = "realloc" -> mm_realloc(h, hd[o.index].ptr, o.size)
    [] o.type = "free"    -> Result(mm_free(h, hd[o.index].ptr), NULL)

(* It is answered, and concerns a block in use or none.                    *)
Answered(h, hd, o) ==
  /\ o \in Op /\ Good(h)
  /\ o.type = "free" => hd[o.index].ptr \in Live(h)
  /\ o.type = "realloc" => hd[o.index].ptr \in Live(h) \union {NULL}
  /\ o.type = "free" \/ CalledOn(h, hd, o).ptr # NULL

(* The fields of a request.                                                *)
LEMMA OpFields ==
  ASSUME NEW o \in Op
  PROVE  /\ o.index \in Indices /\ o.type \in {"alloc", "realloc", "free"}
         /\ o.type # "free" => o.size \in Requests /\ o.size \in Nat
  BY RequestsAssumption DEF Op

(* Heaps that look alike answer a request in the same way.                 *)
LEMMA CalledAlike ==
  ASSUME NEW h, NEW g, Good(g), Alike(h, g), NEW hd, NEW o, Answered(h, hd, o)
  PROVE  /\ AlikeResults(CalledOn(h, hd, o), CalledOn(g, hd, o))
         /\ Good(CalledOn(g, hd, o).heap)
<1> DEFINE bp == hd[o.index].ptr
           n == o.size
<1>1. o \in Op /\ Good(h) /\ Live(h) = Live(g)
  BY AlikeLive DEF Answered
<1>2. CASE o.type = "alloc"
  <2>1. CalledOn(h, hd, o) = mm_malloc(h, n) /\ CalledOn(g, hd, o) = mm_malloc(g, n)
    BY <1>2 DEF CalledOn
  <2>2. n \in Nat
    BY <1>1, <1>2, OpFields
  <2>3. AlikeResults(mm_malloc(h, n), mm_malloc(g, n))
    BY <1>1, <2>2, MallocAlike
  <2>4. mm_malloc(g, n) = Result(g, NULL) \/ Allots(mm_malloc(g, n).heap, mm_malloc(g, n).ptr, g, n)
    BY <2>2, MallocEffect
  <2> QED BY <2>1, <2>3, <2>4 DEF Allots, Result
<1>3. CASE o.type = "realloc" /\ bp = NULL
  <2>1. n \in Nat
    BY <1>1, <1>3, OpFields
  <2>2. CalledOn(h, hd, o) = mm_realloc(h, NULL, n) /\ CalledOn(g, hd, o) = mm_realloc(g, NULL, n)
    BY <1>3 DEF CalledOn
  <2>3. n # 0
    BY <1>3, <2>2, ReallocToNothing DEF Answered, Result
  <2>4. CalledOn(h, hd, o) = mm_malloc(h, n) /\ CalledOn(g, hd, o) = mm_malloc(g, n)
    BY <2>1, <2>2, <2>3, ReallocOfNull
  <2>5. AlikeResults(mm_malloc(h, n), mm_malloc(g, n))
    BY <1>1, <2>1, MallocAlike
  <2>6. mm_malloc(g, n) = Result(g, NULL) \/ Allots(mm_malloc(g, n).heap, mm_malloc(g, n).ptr, g, n)
    BY <2>1, MallocEffect
  <2> QED BY <2>4, <2>5, <2>6 DEF Allots, Result
<1>4. CASE o.type = "realloc" /\ bp # NULL
  <2>1. n \in Nat /\ bp \in Live(h) /\ bp \in Live(g)
    BY <1>1, <1>4, OpFields DEF Answered
  <2>2. CalledOn(h, hd, o) = mm_realloc(h, bp, n) /\ CalledOn(g, hd, o) = mm_realloc(g, bp, n)
    BY <1>4 DEF CalledOn
  <2> HIDE DEF bp, n
  <2>3. n # 0
    BY <1>4, <2>2, ReallocToNothing DEF Answered, Result
  <2>4. AlikeResults(mm_realloc(h, bp, n), mm_realloc(g, bp, n))
    BY <1>1, <2>1, <2>3, ReallocAlike
  <2>5. \/ mm_realloc(g, bp, n) = Result(g, NULL)
        \/ Moves(mm_realloc(g, bp, n).heap, mm_realloc(g, bp, n).ptr, g, bp, n)
    BY <2>1, <2>3, ReallocEffect
  <2> QED BY <2>2, <2>4, <2>5 DEF Moves, Result
<1>5. CASE o.type = "free"
  <2>1. bp \in Live(h) /\ bp \in Live(g)
    BY <1>1, <1>5 DEF Answered
  <2>2. /\ CalledOn(h, hd, o) = Result(mm_free(h, bp), NULL)
        /\ CalledOn(g, hd, o) = Result(mm_free(g, bp), NULL)
    BY <1>5 DEF CalledOn
  <2> HIDE DEF bp
  <2>3. Alike(mm_free(h, bp), mm_free(g, bp))
    BY <1>1, <2>1, FreeAlike
  <2>4. Frees(mm_free(g, bp), g, bp)
    BY <2>1, FreeEffect
  <2> QED BY <2>2, <2>3, <2>4 DEF AlikeResults, Result, Frees
<1> QED BY <1>1, <1>2, <1>3, <1>4, <1>5, OpFields

(* The blocks after the first k requests.                                  *)
HeldAt(sn, k) == IF k = 0 THEN [i \in Indices |-> Free] ELSE sn[k].held

(* The request o is answered on the heap h, which then looks like h2, and  *)
(* makes the blocks hd2 of hd.                                             *)
Replied(h, hd, o, h2, hd2) ==
  /\ Answered(h, hd, o)
  /\ Alike(CalledOn(h, hd, o).heap, h2)
  /\ hd2 = [hd EXCEPT ![o.index] = Remembered(o, CalledOn(h, hd, o).ptr)]

Noticed == [held : [Indices -> Block], brk : 0 .. MaxHeap]

(* hs are the heaps of a replay of tr that has answered as many requests   *)
(* as sn has entries; the first is one that mm_init makes.                 *)
Log(hs, tr, sn) ==
  /\ \A h \in HeapType : Alike(hs[0], mm_init(h))
  /\ \A k \in 1 .. Len(sn) :
       /\ Replied(hs[k - 1], HeldAt(sn, k - 1), tr[k], hs[k], HeldAt(sn, k))
       /\ sn[k] = [held |-> HeldAt(sn, k), brk |-> hs[k].brk]

(* One more request makes the log longer.                                  *)
LEMMA LogGrows ==
  ASSUME NEW hs, NEW tr, NEW sn \in Seq(Noticed), Log(hs, tr, sn), NEW h2, NEW hd2,
         Replied(hs[Len(sn)], HeldAt(sn, Len(sn)), tr[Len(sn) + 1], h2, hd2)
  PROVE  Log([k \in 0 .. Len(sn) + 1 |-> IF k <= Len(sn) THEN hs[k] ELSE h2], tr,
             Append(sn, [held |-> hd2, brk |-> h2.brk]))
<1> DEFINE n == Len(sn)
           hs2 == [k \in 0 .. n + 1 |-> IF k <= n THEN hs[k] ELSE h2]
           e == [held |-> hd2, brk |-> h2.brk]
           sn2 == Append(sn, e)
<1>1. n \in Nat
  OBVIOUS
<1>2. /\ Len(sn2) = n + 1 /\ sn2[n + 1] = e /\ \A k \in 1 .. n : sn2[k] = sn[k]
  BY <1>1
<1>3. /\ hs2[n + 1] = h2 /\ \A k \in 0 .. n : hs2[k] = hs[k]
  BY <1>1
<1>4. e.held = hd2 /\ e.brk = h2.brk
  OBVIOUS
<1> HIDE DEF sn2, hs2, e
<1>5. HeldAt(sn2, n + 1) = hd2 /\ \A k \in 0 .. n : HeldAt(sn2, k) = HeldAt(sn, k)
  BY <1>1, <1>2, <1>4 DEF HeldAt
<1>a. n = Len(sn)
  OBVIOUS
<1> HIDE DEF n
<1>6. ASSUME NEW k \in 1 .. n
      PROVE  /\ Replied(hs2[k - 1], HeldAt(sn2, k - 1), tr[k], hs2[k], HeldAt(sn2, k))
             /\ sn2[k] = [held |-> HeldAt(sn2, k), brk |-> hs2[k].brk]
  <2>1. k - 1 \in 0 .. n /\ k \in 0 .. n
    BY <1>1
  <2>2. /\ Replied(hs[k - 1], HeldAt(sn, k - 1), tr[k], hs[k], HeldAt(sn, k))
        /\ sn[k] = [held |-> HeldAt(sn, k), brk |-> hs[k].brk]
    BY <1>a DEF Log
  <2>3. /\ hs2[k - 1] = hs[k - 1] /\ hs2[k] = hs[k] /\ sn2[k] = sn[k]
        /\ HeldAt(sn2, k - 1) = HeldAt(sn, k - 1) /\ HeldAt(sn2, k) = HeldAt(sn, k)
    BY <1>2, <1>3, <1>5, <2>1
  <2> QED BY <2>2, <2>3
<1>7. /\ Replied(hs2[n], HeldAt(sn2, n), tr[n + 1], hs2[n + 1], HeldAt(sn2, n + 1))
      /\ sn2[n + 1] = [held |-> HeldAt(sn2, n + 1), brk |-> hs2[n + 1].brk]
  <2>1. Replied(hs[n], HeldAt(sn, n), tr[n + 1], h2, hd2)
    BY <1>a
  <2>2. n \in 0 .. n
    BY <1>1
  <2>3. hs2[n] = hs[n] /\ HeldAt(sn2, n) = HeldAt(sn, n)
    BY <1>3, <1>5, <2>2
  <2> QED BY <1>2, <1>3, <1>5, <2>1, <2>3 DEF e
<1>8. hs2[0] = hs[0]
  BY <1>1, <1>3
<1>9. ASSUME NEW k \in 1 .. Len(sn2)
      PROVE  /\ Replied(hs2[k - 1], HeldAt(sn2, k - 1), tr[k], hs2[k], HeldAt(sn2, k))
             /\ sn2[k] = [held |-> HeldAt(sn2, k), brk |-> hs2[k].brk]
  <2>1. CASE k = n + 1
    <3>1. k - 1 = n
      BY <1>1, <2>1
    <3> QED BY <1>7, <2>1, <3>1
  <2>2. CASE k # n + 1
    <3>1. k \in 1 .. n
      BY <1>1, <1>2, <2>2
    <3> QED BY <1>6, <3>1
  <2> QED BY <2>1, <2>2
<1>10. Log(hs2, tr, sn2)
  BY <1>8, <1>9 DEF Log
<1> QED BY <1>10 DEF hs2, sn2, e, n

(* Filling a new block is not noticed.                                     *)
LEMMA FilledAlike ==
  ASSUME NEW h, Good(h), NEW p \in Live(h), NEW n \in Nat, n # 0,
         Adjusted(n) <= h.hdr[p].size, NEW i \in Indices
  PROVE  Alike(h, Filled(h, [ptr |-> p, size |-> n], i))
<1> DEFINE d == Doublewords(n)
           h2 == memset(h, p, LowByte[i], d)
<1>1. h \in HeapType /\ h.hdr[p].size \in Nat
  <2>1. Sound(h) /\ p \in h.blocks
    BY DEF Good, Live
  <2> QED BY <2>1, SoundTypes
<1>2. d \in Nat /\ d + 1 <= h.hdr[p].size
  BY <1>1, RoomForRequest
<1>3. Filled(h, [ptr |-> p, size |-> n], i) = h2
  BY DEF Filled
<1> HIDE DEF d
<1>4. h2.next = h.next
  BY <1>1, CopyFields
<1>5. Writes(h2, h, p)
  BY <1>2, LowByteAssumption, MemsetEffect DEF Fills
<1> HIDE DEF h2
<1> QED BY <1>3, <1>4, <1>5, WritesAlike

(* The checks of mdriver.c end without a complaint.                        *)
LEMMA CheckedAnswer ==
  ASSUME Inv, NEW h, NEW b, NEW n, NEW i, NEW rest, Checked(h, b, n, i, rest),
         errors'.what = "none"
  PROVE  heap' = Filled(h, b, i) /\ held' = [held EXCEPT ![i] = b]
  BY DEF Checked, malloc_error

(* What mm_malloc or mm_realloc hands out, checked and filled.             *)
LEMMA NewAnswer ==
  ASSUME Inv, NEW o \in Op, o.type # "free", Answered(heap, held, o),
         NEW n, NEW rest, errors'.what = "none", o.size # 0,
         LET r == CalledOn(heap, held, o)
         IN  /\ Good(r.heap) /\ r.ptr \in Live(r.heap)
             /\ Adjusted(o.size) <= r.heap.hdr[r.ptr].size
             /\ Checked(r.heap, [ptr |-> r.ptr, size |-> o.size], n, o.index, rest)
  PROVE  Replied(heap, held, o, heap', held')
<1> DEFINE r == CalledOn(heap, held, o)
           b == [ptr |-> r.ptr, size |-> o.size]
<1>1. heap' = Filled(r.heap, b, o.index) /\ held' = [held EXCEPT ![o.index] = b]
  BY CheckedAnswer
<1>2. o.size \in Nat /\ o.index \in Indices
  BY OpFields
<1>3. Alike(r.heap, Filled(r.heap, b, o.index))
  <2> HIDE DEF r
  <2>1. Good(r.heap) /\ r.ptr \in Live(r.heap) /\ Adjusted(o.size) <= r.heap.hdr[r.ptr].size
    BY DEF r
  <2> QED BY <1>2, <2>1, FilledAlike
<1>4. Remembered(o, r.ptr) = b
  BY DEF Remembered
<1> HIDE DEF b
<1> QED BY <1>1, <1>3, <1>4 DEF Replied

(* A call of mm_malloc in the first replay.                                *)
LEMMA AllocReplied ==
  ASSUME Inv, NEW o \in Op, o.type = "alloc", Alloc(o.index, o.size), ~Rejected
  PROVE  Replied(heap, held, o, heap', held')
<1> DEFINE n == o.size
           r == mm_malloc(heap, n)
<1>1. n \in Nat /\ o.index \in Indices /\ Good(heap) /\ o \in Op
  BY OpFields, InvHeap
<1>2. r.ptr # NULL /\ errors'.what = "none"
  BY DEF Alloc, Failed, malloc_error, Rejected
<1>3. n # 0 /\ Allots(r.heap, r.ptr, heap, n)
  <2>1. r # Result(heap, NULL)
    BY <1>2 DEF Result
  <2> QED BY <1>1, <2>1, MallocEffect
<1>4. CalledOn(heap, held, o) = r
  BY DEF CalledOn
<1>5. Checked(r.heap, [ptr |-> r.ptr, size |-> n], 0, o.index, ranges)
  BY <1>2 DEF Alloc
<1> HIDE DEF r
<1>6. Good(r.heap) /\ r.ptr \in Live(r.heap) /\ Adjusted(n) <= r.heap.hdr[r.ptr].size
  BY <1>3 DEF Allots
<1>7. Answered(heap, held, o)
  BY <1>1, <1>2, <1>4 DEF Answered
<1> QED BY <1>2, <1>3, <1>4, <1>5, <1>6, <1>7, NewAnswer

(* A call of mm_realloc in the first replay.                               *)
LEMMA ReallocReplied ==
  ASSUME Inv, NEW o \in Op, o.type = "realloc", Realloc(o.index, o.size), ~Rejected
  PROVE  Replied(heap, held, o, heap', held')
<1> DEFINE n == o.size
           i == o.index
           bp == held[i].ptr
           r == mm_realloc(heap, bp, n)
           rest == remove_range(ranges, BlockExtent(held[i]).lo)
           kept == IF n < held[i].size THEN n ELSE held[i].size
<1>1. /\ n \in Nat /\ i \in Indices /\ Good(heap) /\ o \in Op
      /\ Agree(heap, held, ranges) /\ n # 0
  BY OpFields, InvHeap DEF Realloc, ReallocNothing, malloc_error, Rejected
<1>2. r.ptr # NULL /\ errors'.what = "none"
  BY <1>1 DEF Realloc, Failed, malloc_error, Rejected
<1>3. Checked(r.heap, [ptr |-> r.ptr, size |-> n], kept, i, rest)
  BY <1>1, <1>2 DEF Realloc
<1>4. CalledOn(heap, held, o) = r
  BY DEF CalledOn
<1> HIDE DEF kept, rest
<1>5. /\ Good(r.heap) /\ r.ptr \in Live(r.heap) /\ Adjusted(n) <= r.heap.hdr[r.ptr].size
      /\ bp \in Live(heap) \union {NULL}
  <2>1. CASE held[i] # Free
    <3>1. bp \in Live(heap)
      BY <1>1, <2>1, GiveUp DEF GivenUp
    <3>2. r # Result(heap, NULL)
      BY <1>2 DEF Result
    <3>3. Moves(r.heap, r.ptr, heap, bp, n)
      BY <1>1, <3>1, <3>2, ReallocEffect
    <3> HIDE DEF r, bp
    <3> QED BY <3>1, <3>3 DEF Moves
  <2>2. CASE held[i] = Free
    <3>1. bp = NULL
      BY <1>1, <2>2, NothingHeld
    <3>2. r = mm_malloc(heap, n)
      BY <1>1, <3>1, ReallocOfNull
    <3>3. r # Result(heap, NULL)
      BY <1>2 DEF Result
    <3> HIDE DEF r, bp
    <3>4. Allots(r.heap, r.ptr, heap, n)
      BY <1>1, <3>2, <3>3, MallocEffect
    <3> QED BY <3>1, <3>4 DEF Allots
  <2> QED BY <2>1, <2>2
<1> HIDE DEF r
<1>6. Answered(heap, held, o)
  BY <1>1, <1>2, <1>4, <1>5 DEF Answered
<1> QED BY <1>1, <1>2, <1>3, <1>4, <1>5, <1>6, NewAnswer

(* A call of mm_free in the first replay.                                  *)
LEMMA ReleaseReplied ==
  ASSUME Inv, NEW o \in Op, o.type = "free", Release(o.index)
  PROVE  Replied(heap, held, o, heap', held')
<1> DEFINE i == o.index
           bp == held[i].ptr
<1>1. i \in Indices /\ Good(heap) /\ Agree(heap, held, ranges) /\ held[i] # Free
  BY OpFields, InvHeap DEF Release
<1>2. heap' = mm_free(heap, bp) /\ held' = [held EXCEPT ![i] = Free]
  BY DEF Release
<1>3. bp \in Live(heap)
  BY <1>1, GiveUp DEF GivenUp
<1>4. CalledOn(heap, held, o) = Result(mm_free(heap, bp), NULL)
  BY DEF CalledOn
<1>5. Answered(heap, held, o)
  BY <1>1, <1>3 DEF Answered
<1> HIDE DEF bp
<1>6. CalledOn(heap, held, o).heap = heap'
  BY <1>2, <1>4 DEF Result
<1>7. Alike(heap', heap')
  BY DEF Alike
<1> QED BY <1>2, <1>5, <1>6, <1>7 DEF Replied, Remembered

-----------------------------------------------------------------------------
(* In the first replay the client and the heap agree, and hs are the heaps *)
(* so far.                                                                 *)
Validating(hs, h, hd, rs, tr, k, sn) ==
  /\ Log(hs, tr, sn) /\ hs[k] = h
  /\ k = Len(sn) /\ k \in 0 .. Len(tr)
  /\ hd = HeldAt(sn, k)
  /\ Agree(h, hd, rs)

(* In a later replay the heap looks like the one of the first, and the     *)
(* blocks are the same.                                                    *)
Replaying(hs, h, hd, tr, k, sn) ==
  /\ Log(hs, tr, sn) /\ Alike(hs[k], h)
  /\ Len(sn) = Len(tr) /\ k \in 0 .. Len(tr)
  /\ hd = HeldAt(sn, k)
  /\ Good(h)

(* What of the state the replays depend on, whichever of them runs.        *)
DriverTyped ==
  /\ heap \in HeapType
  /\ pass = "valid" => errors \in Complaint /\ errors.what = "none"
  /\ trace \in Seq(Op) /\ seen \in Seq(Noticed)
  /\ pass \in {"read", "valid", "util", "speed", "done"}

FirstReplay ==
  pass = "valid" => \E hs : Validating(hs, heap, held, ranges, trace, op, seen)

LaterReplay ==
  pass \in {"util", "speed"} => \E hs : Replaying(hs, heap, held, trace, op, seen)

(* The inductive invariant of the driver.                                  *)
DriverInv == DriverTyped /\ FirstReplay /\ LaterReplay

(* Reading the trace file touches nothing that is replayed.                *)
LEMMA StepReadOp ==
  ASSUME DriverInv, ReadOp
  PROVE  DriverInv'
<1>1. /\ heap' = heap /\ errors' = errors /\ seen' = seen /\ pass' = pass
      /\ pass = "read" /\ \E o \in Op : trace' = Append(trace, o)
  BY DEF ReadOp, vars
<1>2. DriverTyped'
  BY <1>1 DEF DriverInv, DriverTyped
<1> QED BY <1>1, <1>2 DEF DriverInv, FirstReplay, LaterReplay

(* The first replay starts on a heap that mm_init has made.                *)
LEMMA StepStartValid ==
  ASSUME DriverInv, StartValid
  PROVE  DriverInv'
<1> DEFINE hs == [k \in {0} |-> heap']
           hd == [i \in Indices |-> Free]
<1>1. /\ heap' = mm_init(heap) /\ held' = hd /\ ranges' = clear_ranges /\ errors' = NoError
      /\ pass' = "valid" /\ op' = 0 /\ seen' = <<>> /\ trace' = trace
  BY DEF StartValid, NextTrace
<1>2. heap \in HeapType /\ trace \in Seq(Op)
  BY DEF DriverInv, DriverTyped
<1>3. Agree(heap', held', ranges')
  BY <1>1, <1>2, FreshAgree
<1>4. heap' \in HeapType
  BY <1>3 DEF Agree, Good, Sound
<1>5. \A h \in HeapType : Alike(hs[0], mm_init(h))
  BY <1>1, <1>2, InitAlike
<1>6. Len(seen') = 0 /\ 0 \in 0 .. Len(trace')
  BY <1>1, <1>2
<1>7. held' = HeldAt(seen', 0)
  BY <1>1 DEF HeldAt
<1>8. Log(hs, trace', seen')
  BY <1>5, <1>6 DEF Log
<1>9. hs[0] = heap'
  OBVIOUS
<1> HIDE DEF hs
<1>10. Validating(hs, heap', held', ranges', trace', op', seen')
  BY <1>1, <1>3, <1>6, <1>7, <1>8, <1>9 DEF Validating
<1>11. DriverTyped'
  BY <1>1, <1>2, <1>4, NoErrorFine DEF DriverTyped, NoError
<1>12. FirstReplay'
  BY <1>10 DEF FirstReplay
<1>13. LaterReplay'
  BY <1>1 DEF LaterReplay
<1> QED BY <1>11, <1>12, <1>13 DEF DriverInv

(* A request of the first replay keeps the invariant of the client, and    *)
(* unless it is refused it is logged.                                      *)
LEMMA ValidOpEffect ==
  ASSUME Inv, NEW o \in Op,
         \/ o.type = "alloc" /\ Alloc(o.index, o.size)
         \/ o.type = "realloc" /\ Realloc(o.index, o.size)
         \/ o.type = "free" /\ Release(o.index)
  PROVE  Inv' /\ (Rejected \/ Replied(heap, held, o, heap', held'))
<1>1. o.index \in Indices /\ (o.type # "free" => o.size \in Requests)
  BY OpFields
<1>2. CASE o.type = "alloc" /\ Alloc(o.index, o.size)
  BY <1>1, <1>2, AllocStep, AllocReplied
<1>3. CASE o.type = "realloc" /\ Realloc(o.index, o.size)
  BY <1>1, <1>3, ReallocStep, ReallocReplied
<1>4. CASE o.type = "free" /\ Release(o.index)
  BY <1>1, <1>4, ReleaseStep, ReleaseReplied
<1> QED BY <1>2, <1>3, <1>4

(* A request of the first replay is logged, or ends the trace.             *)
LEMMA StepValidOp ==
  ASSUME DriverInv, ValidOp
  PROVE  DriverInv'
<1> DEFINE o == trace[op + 1]
<1>1. /\ pass = "valid" /\ heap \in HeapType /\ errors \in Complaint
      /\ errors.what = "none"
      /\ trace \in Seq(Op) /\ seen \in Seq(Noticed)
  BY DEF ValidOp, DriverInv, DriverTyped
<1>2. PICK hs : Validating(hs, heap, held, ranges, trace, op, seen)
  BY <1>1 DEF DriverInv, FirstReplay
<1>3. /\ Log(hs, trace, seen) /\ hs[op] = heap
      /\ op = Len(seen) /\ op \in Nat /\ op < Len(trace)
      /\ held = HeldAt(seen, op) /\ Agree(heap, held, ranges)
  BY <1>1, <1>2 DEF Validating, ValidOp
<1>4. o \in Op
  BY <1>1, <1>3
<1>5. Inv
  BY <1>1, <1>3 DEF Inv, Over, NoErrors
<1>6. \/ o.type = "alloc" /\ Alloc(o.index, o.size)
      \/ o.type = "realloc" /\ Realloc(o.index, o.size)
      \/ o.type = "free" /\ Release(o.index)
  BY DEF ValidOp
<1> HIDE DEF o
<1>7. Inv' /\ (Rejected \/ Replied(heap, held, o, heap', held'))
  BY <1>4, <1>5, <1>6, ValidOpEffect
<1>8. /\ ~Rejected => /\ Agree(heap', held', ranges')
                       /\ errors' \in Complaint /\ errors'.what = "none"
      /\ heap' \in HeapType /\ heap'.brk \in 0 .. MaxHeap /\ held' \in [Indices -> Block]
  <2>1. ASSUME ~Rejected
        PROVE  /\ Agree(heap', held', ranges')
               /\ errors' \in Complaint /\ errors'.what = "none"
    BY <1>7, <2>1 DEF Rejected, Inv, Over, Agree, Owned, Owns, Pattern, Ptrs, Recorded
  <2>2. Good(heap') /\ held' \in [Indices -> Block]
    BY <1>7 DEF Inv, Agree, Owned, Owns, Pattern, Ptrs, Recorded
  <2>3. heap' \in HeapType
    BY <2>2 DEF Good, Sound
  <2> QED BY <2>1, <2>2, <2>3 DEF HeapType
<1>9. CASE Rejected
  <2>1. trace' = <<>> /\ pass' \in {"done", "read"} /\ seen' = seen
    BY <1>9 DEF ValidOp, free_trace, o
  <2>2. DriverTyped'
    BY <1>1, <1>8, <2>1 DEF DriverTyped
  <2> QED BY <2>1, <2>2 DEF DriverInv, FirstReplay, LaterReplay
<1>10. CASE ~Rejected
  <2> DEFINE e == [held |-> held', brk |-> heap'.brk]
             n == Len(seen)
             hs2 == [k \in 0 .. n + 1 |-> IF k <= n THEN hs[k] ELSE heap']
  <2>1. /\ trace' = trace /\ pass' = pass /\ op' = op + 1 /\ seen' = Append(seen, e)
    BY <1>10 DEF ValidOp, o
  <2>2. Replied(hs[n], HeldAt(seen, n), trace[n + 1], heap', held')
    BY <1>3, <1>7, <1>10 DEF o
  <2>3. Log(hs2, trace, Append(seen, e))
    <3> HIDE DEF n
    <3>1. n = Len(seen)
      BY DEF n
    <3> QED BY <1>1, <1>3, <2>2, <3>1, LogGrows
  <2>4. e \in Noticed
    BY <1>8 DEF Noticed
  <2>5. hs2[n + 1] = heap'
    <3>1. n \in Nat /\ n + 1 \in 0 .. n + 1 /\ ~(n + 1 <= n)
      BY <1>1
    <3> HIDE DEF n
    <3> QED BY <3>1
  <2>6. /\ Len(seen') = op + 1 /\ op + 1 \in 0 .. Len(trace)
        /\ seen' \in Seq(Noticed) /\ seen'[op + 1] = e /\ op + 1 # 0
    <3> HIDE DEF e
    <3> QED BY <1>1, <1>3, <2>1, <2>4
  <2>7. held' = HeldAt(seen', op + 1)
    BY <2>6 DEF HeldAt
  <2> HIDE DEF hs2, e
  <2>8. Validating(hs2, heap', held', ranges', trace', op', seen')
    BY <1>3, <1>8, <1>10, <2>1, <2>3, <2>5, <2>6, <2>7 DEF Validating
  <2>9. DriverTyped'
    BY <1>1, <1>8, <1>10, <2>1, <2>6 DEF DriverTyped
  <2>10. FirstReplay'
    BY <2>8 DEF FirstReplay
  <2>11. LaterReplay'
    BY <1>1, <2>1 DEF LaterReplay
  <2> QED BY <2>9, <2>10, <2>11 DEF DriverInv
<1> QED BY <1>9, <1>10

(* Before a replay mm_init makes a heap like the first of the log.         *)
LEMMA ResetReplays ==
  ASSUME NEW hs, Log(hs, trace, seen), Len(seen) = Len(trace), heap \in HeapType,
         Len(trace) \in Nat, Reset
  PROVE  Replaying(hs, heap', held', trace, op', seen) /\ heap' \in HeapType
<1>1. heap' = mm_init(heap) /\ held' = [i \in Indices |-> Free] /\ op' = 0
  BY DEF Reset
<1>2. Good(heap')
  BY <1>1, InitEffect DEF Empties
<1>3. Alike(hs[0], heap')
  BY <1>1 DEF Log
<1>4. held' = HeldAt(seen, 0) /\ 0 \in 0 .. Len(trace)
  BY <1>1 DEF HeldAt
<1>5. heap' \in HeapType
  BY <1>2 DEF Good, Sound
<1> QED BY <1>1, <1>2, <1>3, <1>4, <1>5 DEF Replaying

(* The replay that is measured starts where the first one did.             *)
LEMMA StepStartUtil ==
  ASSUME DriverInv, StartUtil
  PROVE  DriverInv'
<1>1. /\ pass = "valid" /\ op = Len(trace) /\ Reset /\ pass' = "util" /\ errors' = errors
      /\ trace' = trace /\ seen' = seen
  BY DEF StartUtil
<1>2. heap \in HeapType /\ trace \in Seq(Op) /\ seen \in Seq(Noticed)
  BY DEF DriverInv, DriverTyped
<1>3. PICK hs : Validating(hs, heap, held, ranges, trace, op, seen)
  BY <1>1 DEF DriverInv, FirstReplay
<1>4. Log(hs, trace, seen) /\ Len(seen) = Len(trace) /\ Len(trace) \in Nat
  BY <1>1, <1>2, <1>3 DEF Validating
<1>5. Replaying(hs, heap', held', trace, op', seen) /\ heap' \in HeapType
  BY <1>1, <1>2, <1>4, ResetReplays
<1>6. Replaying(hs, heap', held', trace', op', seen')
  BY <1>1, <1>5
<1>7. DriverTyped'
  BY <1>1, <1>2, <1>5 DEF DriverTyped
<1>8. LaterReplay'
  BY <1>6 DEF LaterReplay
<1>9. FirstReplay'
  BY <1>1 DEF FirstReplay
<1> QED BY <1>7, <1>8, <1>9 DEF DriverInv

(* A request of a later replay is answered as in the first one.            *)
LEMMA PerformReplays ==
  ASSUME NEW hs, Replaying(hs, heap, held, trace, op, seen), op < Len(trace),
         trace \in Seq(Op), seen \in Seq(Noticed), Perform(trace[op + 1])
  PROVE  /\ Replaying(hs, heap', held', trace, op', seen)
         /\ heap' \in HeapType /\ pass' = pass
<1> DEFINE o == trace[op + 1]
           g == hs[op]
           s == CalledOn(g, held, o)
           r == CalledOn(heap, held, o)
<1>1. /\ Log(hs, trace, seen) /\ Alike(g, heap) /\ Len(seen) = Len(trace)
      /\ op \in Nat /\ Len(trace) \in Nat /\ held = HeldAt(seen, op) /\ Good(heap)
  BY DEF Replaying
<1>2. op + 1 \in 1 .. Len(seen) /\ (op + 1) - 1 = op /\ op + 1 \in 0 .. Len(trace)
  BY <1>1
<1>3. Replied(hs[(op + 1) - 1], HeldAt(seen, (op + 1) - 1), o, hs[op + 1], HeldAt(seen, op + 1))
  BY <1>1, <1>2 DEF Log
<1>4. Replied(g, held, o, hs[op + 1], HeldAt(seen, op + 1))
  BY <1>1, <1>2, <1>3
<1> HIDE DEF g, o
<1>5. /\ Answered(g, held, o) /\ Alike(s.heap, hs[op + 1])
      /\ HeldAt(seen, op + 1) = [held EXCEPT ![o.index] = Remembered(o, s.ptr)]
  BY <1>4 DEF Replied
<1>6. AlikeResults(s, r) /\ Good(r.heap)
  BY <1>1, <1>5, CalledAlike
<1>7. s.ptr = r.ptr /\ Alike(s.heap, r.heap)
  BY <1>6 DEF AlikeResults
<1>8. o.type = "free" \/ r.ptr # NULL
  BY <1>5, <1>7 DEF Answered
<1>9. Called(o) = r
  BY DEF Called, CalledOn
<1>10. Performed(o, r)
  BY <1>8, <1>9 DEF Perform, o
<1>11. /\ heap' = r.heap /\ op' = op + 1 /\ pass' = pass
       /\ held' = [held EXCEPT ![o.index] = Remembered(o, r.ptr)]
  BY <1>10 DEF Performed
<1> HIDE DEF r, s
<1>12. held' = HeldAt(seen, op + 1)
  BY <1>5, <1>7, <1>11
<1>13. Alike(hs[op + 1], heap')
  BY <1>5, <1>7, <1>11, AlikeTransitive
<1>14. heap' \in HeapType
  BY <1>6, <1>11 DEF Good, Sound
<1> QED BY <1>1, <1>2, <1>6, <1>11, <1>12, <1>13, <1>14 DEF Replaying

(* A request of a measured or timed replay follows the log.                *)
LEMMA StepReplayOp ==
  ASSUME DriverInv, UtilOp \/ SpeedOp
  PROVE  DriverInv'
<1>1. /\ pass \in {"util", "speed"} /\ op < Len(trace) /\ Perform(trace[op + 1])
      /\ errors' = errors /\ trace' = trace /\ seen' = seen
  BY DEF UtilOp, SpeedOp
<1>2. trace \in Seq(Op) /\ seen \in Seq(Noticed)
  BY DEF DriverInv, DriverTyped
<1>3. PICK hs : Replaying(hs, heap, held, trace, op, seen)
  BY <1>1 DEF DriverInv, LaterReplay
<1>4. /\ Replaying(hs, heap', held', trace, op', seen) /\ heap' \in HeapType /\ pass' = pass
  BY <1>1, <1>2, <1>3, PerformReplays
<1>5. Replaying(hs, heap', held', trace', op', seen')
  BY <1>1, <1>4
<1>6. DriverTyped'
  BY <1>1, <1>2, <1>4 DEF DriverTyped
<1>7. LaterReplay'
  BY <1>5 DEF LaterReplay
<1>8. FirstReplay'
  BY <1>1, <1>4 DEF FirstReplay
<1> QED BY <1>6, <1>7, <1>8 DEF DriverInv

(* So does every start of a timed replay.                                  *)
LEMMA StepStartSpeed ==
  ASSUME DriverInv, StartSpeed
  PROVE  DriverInv'
<1>1. /\ pass \in {"util", "speed"} /\ Reset /\ pass' = "speed" /\ errors' = errors
      /\ trace' = trace /\ seen' = seen
  BY DEF StartSpeed
<1>2. heap \in HeapType /\ trace \in Seq(Op) /\ seen \in Seq(Noticed)
  BY DEF DriverInv, DriverTyped
<1>3. PICK hs : Replaying(hs, heap, held, trace, op, seen)
  BY <1>1 DEF DriverInv, LaterReplay
<1>4. Log(hs, trace, seen) /\ Len(seen) = Len(trace) /\ Len(trace) \in Nat
  BY <1>2, <1>3 DEF Replaying
<1>5. Replaying(hs, heap', held', trace, op', seen) /\ heap' \in HeapType
  BY <1>1, <1>2, <1>4, ResetReplays
<1>6. Replaying(hs, heap', held', trace', op', seen')
  BY <1>1, <1>5
<1>7. DriverTyped'
  BY <1>1, <1>2, <1>5 DEF DriverTyped
<1>8. LaterReplay'
  BY <1>6 DEF LaterReplay
<1>9. FirstReplay'
  BY <1>1 DEF FirstReplay
<1> QED BY <1>7, <1>8, <1>9 DEF DriverInv

(* After the last replay the next trace is read.                           *)
LEMMA StepEndSpeed ==
  ASSUME DriverInv, EndSpeed
  PROVE  DriverInv'
<1>1. /\ heap' = heap /\ errors' = errors /\ seen' = seen
      /\ trace' = <<>> /\ pass' \in {"done", "read"}
  BY DEF EndSpeed, free_trace, vars
<1>2. DriverTyped'
  BY <1>1 DEF DriverInv, DriverTyped
<1> QED BY <1>1, <1>2 DEF DriverInv, FirstReplay, LaterReplay

(* The driver starts with a memory that holds nothing.                     *)
LEMMA DriverInitInv ==
  DriverInit => DriverInv
<1> SUFFICES ASSUME DriverInit PROVE DriverInv
  OBVIOUS
<1>1. /\ heap = mem_init /\ pass = "read" /\ trace = <<>> /\ seen = <<>>
  BY DEF DriverInit
<1>2. DriverTyped
  BY <1>1, MemInitType DEF DriverTyped
<1> QED BY <1>1, <1>2 DEF DriverInv, FirstReplay, LaterReplay

(* Every step of the driver keeps its invariant.                           *)
LEMMA DriverNextInv ==
  DriverInv /\ [DriverNext]_driverVars => DriverInv'
<1> SUFFICES ASSUME DriverInv, [DriverNext]_driverVars PROVE DriverInv'
  OBVIOUS
<1>1. CASE DriverNext
  BY <1>1, StepReadOp, StepStartValid, StepValidOp, StepStartUtil, StepReplayOp,
     StepStartSpeed, StepEndSpeed DEF DriverNext
<1>2. CASE UNCHANGED driverVars
  <2>1. /\ heap' = heap /\ held' = held /\ ranges' = ranges /\ errors' = errors
        /\ pass' = pass /\ trace' = trace /\ op' = op /\ seen' = seen
    BY <1>2 DEF driverVars, vars
  <2>2. DriverTyped'
    BY <2>1 DEF DriverInv, DriverTyped
  <2>3. FirstReplay'
    BY <2>1 DEF DriverInv, FirstReplay
  <2>4. LaterReplay'
    BY <2>1 DEF DriverInv, LaterReplay
  <2> QED BY <2>2, <2>3, <2>4 DEF DriverInv
<1> QED BY <1>1, <1>2

(* The invariant says more than the property.                              *)
LEMMA InvReplaysAlike ==
  ASSUME DriverInv
  PROVE  ReplaysAlike
<1>1. pass # "stopped"
  BY DEF DriverInv, DriverTyped
<1>2. ASSUME pass \in {"util", "speed"}
      PROVE  Len(seen) = Len(trace) /\ (op > 0 => seen[op] = [held |-> held, brk |-> heap.brk])
  <2>1. PICK hs : Replaying(hs, heap, held, trace, op, seen)
    BY <1>2 DEF DriverInv, LaterReplay
  <2>2. /\ Log(hs, trace, seen) /\ Alike(hs[op], heap) /\ held = HeldAt(seen, op)
        /\ Len(seen) = Len(trace) /\ op \in 0 .. Len(trace)
    BY <2>1 DEF Replaying
  <2>3. hs[op].brk = heap.brk
    BY <2>2 DEF Alike
  <2>4. ASSUME op > 0 PROVE seen[op] = [held |-> HeldAt(seen, op), brk |-> hs[op].brk]
    <3>1. op \in 1 .. Len(seen)
      BY <2>2, <2>4
    <3> QED BY <2>2, <3>1 DEF Log
  <2> QED BY <2>2, <2>3, <2>4
<1> QED BY <1>1, <1>2 DEF ReplaysAlike

(* Every replay of a trace that was valid hands out the blocks of the      *)
(* first one and none ends the program, for every trace, memory, CHUNKSIZE *)
(* and number of replays: eval_mm_util and eval_mm_speed may leave out the *)
(* checks of eval_mm_valid.                                                *)
THEOREM ReplaysAlikeCorrect == DriverSpec => []ReplaysAlike
  BY DriverInitInv, DriverNextInv, InvReplaysAlike, PTL DEF DriverSpec

-----------------------------------------------------------------------------
(***************************************************************************)
(* The utilization.  Bytes counts the bytes of the blocks as pairs of an   *)
(* index and a number: finitely many, so a block that changes its size     *)
(* changes the count by the difference; and since no two blocks overlap    *)
(* the pairs go one to one into the bytes below the break.                 *)
(***************************************************************************)

(* The bytes of the blocks, each with its index.                           *)
Own(hd, i) == {i} \X (1 .. hd[i].size)
Counted(hd) == UNION {Own(hd, i) : i \in Indices}

(* There are as many of an index as its block is long, and finitely many   *)
(* of all.                                                                 *)
LEMMA CountedFinite ==
  ASSUME NEW hd, \A i \in Indices : hd[i].size \in Nat
  PROVE  /\ \A i \in Indices : IsFiniteSet(Own(hd, i)) /\ Cardinality(Own(hd, i)) = hd[i].size
         /\ IsFiniteSet(Counted(hd)) /\ Bytes(hd) = Cardinality(Counted(hd))
         /\ Bytes(hd) \in Nat
<1>1. ASSUME NEW i \in Indices
      PROVE  IsFiniteSet(Own(hd, i)) /\ Cardinality(Own(hd, i)) = hd[i].size
  <2> DEFINE n == hd[i].size
  <2>1. n \in Nat
    OBVIOUS
  <2> HIDE DEF n
  <2>2. IsFiniteSet(1 .. n) /\ Cardinality(1 .. n) = n
    BY <2>1, FS_Interval
  <2>3. IsFiniteSet({i}) /\ Cardinality({i}) = 1
    BY FS_Singleton
  <2>4. IsFiniteSet({i} \X (1 .. n)) /\ Cardinality({i} \X (1 .. n)) = 1 * n
    <3> DEFINE A == {i}
               B == 1 .. n
    <3>1. IsFiniteSet(A) /\ Cardinality(A) = 1 /\ IsFiniteSet(B) /\ Cardinality(B) = n
      BY <2>2, <2>3
    <3> HIDE DEF A, B
    <3>2. IsFiniteSet(A \X B) /\ Cardinality(A \X B) = Cardinality(A) * Cardinality(B)
      BY <3>1, FS_Product
    <3>3. IsFiniteSet(A \X B) /\ Cardinality(A \X B) = 1 * n
      BY <3>1, <3>2
    <3> QED BY <3>3 DEF A, B
  <2> QED BY <2>1, <2>4 DEF Own, n
<1>2. IsFiniteSet(Counted(hd))
  <2> DEFINE S == {Own(hd, i) : i \in Indices}
             f == [i \in Indices |-> Own(hd, i)]
  <2>1. f \in Surjection(Indices, S)
    BY DEF Surjection
  <2> HIDE DEF f
  <2>2. IsFiniteSet(S)
    <3> HIDE DEF S
    <3> QED BY <2>1, IndicesAssumption, FS_Surjection
  <2>3. \A T \in S : IsFiniteSet(T)
    BY <1>1
  <2> HIDE DEF S
  <2>4. IsFiniteSet(UNION S)
    BY <2>2, <2>3, FS_UNION
  <2> QED BY <2>4 DEF S, Counted
<1>3. Bytes(hd) = Cardinality(Counted(hd))
  BY DEF Bytes, Counted, Own
<1>4. Bytes(hd) \in Nat
  BY <1>2, <1>3, FS_CardinalityType
<1> QED BY <1>1, <1>2, <1>3, <1>4

(* Without blocks there are none.                                          *)
LEMMA BytesOfNothing == Bytes([i \in Indices |-> Free]) = 0
<1> DEFINE hd == [i \in Indices |-> Free]
<1>1. \A i \in Indices : hd[i].size = 0
  BY DEF Free
<1> HIDE DEF hd
<1>2. Counted(hd) = {}
  BY <1>1 DEF Counted, Own
<1>3. Bytes(hd) = Cardinality(Counted(hd))
  BY <1>1, CountedFinite
<1> QED BY <1>2, <1>3, FS_EmptySet DEF hd

(* A block of another size changes the bytes by the difference.            *)
LEMMA BytesChange ==
  ASSUME NEW hd \in [Indices -> Block], NEW i \in Indices, NEW b, b.size \in Nat
  PROVE  Bytes([hd EXCEPT ![i] = b]) = Bytes(hd) + (b.size - hd[i].size)
<1> DEFINE hd2 == [hd EXCEPT ![i] = b]
           A == Own(hd, i)
           B == Own(hd2, i)
           R == Counted(hd) \ A
<1>1. /\ hd2[i] = b /\ \A j \in Indices \ {i} : hd2[j] = hd[j]
      /\ \A j \in Indices : hd[j].size \in Nat
  BY DEF Block
<1> HIDE DEF hd2
<1>2. \A j \in Indices : hd2[j].size \in Nat
  BY <1>1
<1>3. /\ IsFiniteSet(A) /\ Cardinality(A) = hd[i].size
      /\ IsFiniteSet(B) /\ Cardinality(B) = b.size
      /\ IsFiniteSet(Counted(hd)) /\ Bytes(hd) = Cardinality(Counted(hd))
      /\ Bytes(hd2) = Cardinality(Counted(hd2)) /\ Bytes(hd) \in Nat
  <2>1. /\ IsFiniteSet(A) /\ Cardinality(A) = hd[i].size
        /\ IsFiniteSet(Counted(hd)) /\ Bytes(hd) = Cardinality(Counted(hd))
        /\ Bytes(hd) \in Nat
    BY <1>1, CountedFinite
  <2>2. /\ IsFiniteSet(B) /\ Cardinality(B) = hd2[i].size
        /\ Bytes(hd2) = Cardinality(Counted(hd2))
    BY <1>2, CountedFinite
  <2> QED BY <1>1, <2>1, <2>2
<1>4. A \subseteq Counted(hd) /\ R \intersect B = {} /\ Counted(hd2) = R \union B
  <2>1. \A j \in Indices \ {i} : Own(hd2, j) = Own(hd, j) /\ Own(hd, j) \intersect A = {}
    BY <1>1 DEF Own
  <2>2. R = UNION {Own(hd, j) : j \in Indices \ {i}}
    BY <2>1 DEF Counted
  <2>3. R = UNION {Own(hd2, j) : j \in Indices \ {i}}
    BY <2>1, <2>2
  <2>4. Counted(hd2) = R \union B
    BY <2>3 DEF Counted
  <2>5. R \intersect B = {}
    BY <2>2 DEF Own
  <2> QED BY <2>4, <2>5 DEF Counted
<1> HIDE DEF A, B
<1>5. IsFiniteSet(R) /\ Cardinality(R) = Cardinality(Counted(hd)) - Cardinality(A)
  <2>1. Counted(hd) \intersect A = A
    BY <1>4
  <2>2. IsFiniteSet(R) /\ Cardinality(R) = Cardinality(Counted(hd)) - Cardinality(Counted(hd) \intersect A)
    BY <1>3, FS_Difference
  <2> QED BY <2>1, <2>2
<1> HIDE DEF R
<1>6. Cardinality(R \union B) = Cardinality(R) + Cardinality(B)
  <2>1. Cardinality(R \union B) = Cardinality(R) + Cardinality(B) - Cardinality({})
    BY <1>3, <1>4, <1>5, FS_Union
  <2>2. Cardinality({}) = 0
    BY FS_EmptySet
  <2>3. Cardinality(R) \in Nat /\ Cardinality(B) \in Nat
    BY <1>3, <1>5, FS_CardinalityType
  <2> QED BY <2>1, <2>2, <2>3
<1>7. hd[i].size \in Nat
  BY <1>1
<1>8. Bytes(hd2) = Cardinality(R) + b.size /\ Cardinality(R) = Bytes(hd) - hd[i].size
  BY <1>3, <1>4, <1>5, <1>6
<1> QED BY <1>3, <1>7, <1>8 DEF hd2

(* The bytes of a held block are below the break.                          *)
LEMMA HeldBelowBreak ==
  ASSUME NEW h, NEW hd, NEW rs, Agree(h, hd, rs), NEW i \in Indices
  PROVE  Payload(hd[i]) \subseteq 0 .. DSIZE * h.brk - 1
<1>1. CASE hd[i] = Free
  BY <1>1, PayloadOfFree
<1>2. CASE hd[i] # Free
  <2> DEFINE p == hd[i].ptr
             n == hd[i].size
             e == BlockExtent(hd[i])
  <2>1. Owned(h, hd) /\ Sound(h)
    BY DEF Agree, Good
  <2>2. ExtentIn(h, e, p) /\ p \in h.blocks
    <3>1. Good(h)
      BY DEF Agree
    <3> QED BY <1>2, <2>1, <3>1, OwnedExtent
  <2>3. e.lo = 8 * p /\ e.hi = 8 * p + n - 1 /\ n \in Nat
    BY <1>2, <2>1 DEF Owned, Owns, BlockExtent, Extent, DSIZE
  <2>4. /\ p \in Addr /\ p \in Int /\ After(h.hdr, p) <= h.brk /\ h.brk \in Int
        /\ After(h.hdr, p) \in Int
    BY <2>1, <2>2, SoundTypes
  <2>5. 8 * p + n - 1 < 8 * After(h.hdr, p)
    BY <2>2, <2>3 DEF ExtentIn, DSIZE
  <2>6. Payload(hd[i]) = 8 * p .. 8 * p + n - 1
    BY DEF Payload, DSIZE
  <2> HIDE DEF p, n, e
  <2>7. 0 <= 8 * p /\ 8 * p + n - 1 <= 8 * h.brk - 1
    BY <2>3, <2>4, <2>5 DEF Addr
  <2> QED BY <2>3, <2>4, <2>6, <2>7 DEF DSIZE
<1> QED BY <1>1, <1>2

(* The heap has room for the bytes of all blocks together.                 *)
LEMMA BytesFit ==
  ASSUME NEW h, NEW hd, NEW rs, Agree(h, hd, rs)
  PROVE  Bytes(hd) <= DSIZE * h.brk
<1> DEFINE T == 0 .. DSIZE * h.brk - 1
           f == [c \in Counted(hd) |-> DSIZE * hd[c[1]].ptr + c[2] - 1]
<1>1. /\ \A i \in Indices : hd[i].size \in Nat /\ hd[i].ptr \in Int
      /\ h.brk \in Nat /\ DSIZE * h.brk \in Nat
  <2>1. hd \in [Indices -> Block] /\ Sound(h)
    BY DEF Agree, Good
  <2>2. h.brk \in Addr
    BY <2>1, SoundTypes
  <2>3. \A a \in Addr : a \in Nat
    BY DEF Addr
  <2>4. h.brk \in Nat /\ DSIZE * h.brk \in Nat
    BY <2>2, <2>3 DEF DSIZE
  <2>5. NULL \in Int
    BY DEF NULL
  <2> QED BY <2>1, <2>3, <2>4, <2>5 DEF Block
<1>2. ASSUME NEW c \in Counted(hd)
      PROVE  /\ c[1] \in Indices /\ c[2] \in 1 .. hd[c[1]].size /\ c = <<c[1], c[2]>>
             /\ f[c] \in Payload(hd[c[1]])
  <2>1. PICK i \in Indices : c \in {i} \X (1 .. hd[i].size)
    BY <1>2 DEF Counted, Own
  <2>2. c[1] = i /\ c[2] \in 1 .. hd[i].size /\ c = <<c[1], c[2]>>
    BY <2>1
  <2>3. DSIZE * hd[i].ptr \in Int
    BY <1>1 DEF DSIZE
  <2>4. f[c] = DSIZE * hd[i].ptr + c[2] - 1
    BY <2>2
  <2> HIDE DEF f
  <2>5. f[c] \in Payload(hd[i])
    BY <1>1, <2>2, <2>3, <2>4 DEF Payload
  <2> QED BY <2>2, <2>5
<1>3. ASSUME NEW c \in Counted(hd), NEW d \in Counted(hd), f[c] = f[d]
      PROVE  c = d
  <2>1. /\ c[1] \in Indices /\ c[2] \in 1 .. hd[c[1]].size /\ c = <<c[1], c[2]>>
        /\ d[1] \in Indices /\ d[2] \in 1 .. hd[d[1]].size /\ d = <<d[1], d[2]>>
        /\ f[c] \in Payload(hd[c[1]]) /\ f[d] \in Payload(hd[d[1]])
    BY <1>2
  <2>2. f[c] = DSIZE * hd[c[1]].ptr + c[2] - 1 /\ f[d] = DSIZE * hd[d[1]].ptr + d[2] - 1
    OBVIOUS
  <2> HIDE DEF f
  <2>3. c[1] = d[1]
    BY <1>3, <2>1, PayloadsApart
  <2>4. DSIZE * hd[c[1]].ptr \in Int
    BY <1>1, <2>1 DEF DSIZE
  <2> DEFINE a == DSIZE * hd[c[1]].ptr
  <2>5. c[2] = d[2]
    <3>1. a + c[2] - 1 = a + d[2] - 1
      BY <1>3, <2>2, <2>3
    <3>2. c[2] \in Int /\ d[2] \in Int
      BY <2>1
    <3> HIDE DEF a
    <3>3. a \in Int
      BY <2>4 DEF a
    <3> QED BY <3>1, <3>2, <3>3
  <2> QED BY <2>1, <2>3, <2>5
<1>4. f \in Injection(Counted(hd), T)
  <2>1. \A c \in Counted(hd) : f[c] \in T
    BY <1>2, HeldBelowBreak
  <2>2. f = [c \in Counted(hd) |-> f[c]]
    OBVIOUS
  <2> HIDE DEF f, T
  <2>3. f \in [Counted(hd) -> T]
    BY <2>1, <2>2
  <2> QED BY <1>3, <2>3 DEF Injection, IsInjective
<1> HIDE DEF f
<1>5. IsFiniteSet(T) /\ Cardinality(T) = DSIZE * h.brk
  <2> DEFINE m == DSIZE * h.brk
  <2>1. m \in Nat
    BY <1>1
  <2> HIDE DEF m
  <2>2. IsFiniteSet(0 .. m - 1) /\ Cardinality(0 .. m - 1) = IF 0 > m - 1 THEN 0 ELSE m - 1 - 0 + 1
    BY <2>1, FS_Interval
  <2>3. IsFiniteSet(0 .. m - 1) /\ Cardinality(0 .. m - 1) = m
    BY <2>1, <2>2
  <2> QED BY <2>3 DEF m
<1>6. Cardinality(Counted(hd)) <= Cardinality(T)
  <2> HIDE DEF T
  <2> QED BY <1>4, <1>5, FS_Injection
<1>7. Bytes(hd) = Cardinality(Counted(hd))
  BY <1>1, CountedFinite
<1> QED BY <1>5, <1>6, <1>7

(* No request gives memory back to the simulated system.                   *)
LEMMA CalledGrows ==
  ASSUME NEW h, NEW hd, NEW o, Answered(h, hd, o)
  PROVE  h.brk <= CalledOn(h, hd, o).heap.brk
<1> DEFINE bp == hd[o.index].ptr
           n == o.size
           r == CalledOn(h, hd, o)
<1>1. o \in Op /\ Good(h) /\ h.brk \in Int
  <2>1. Sound(h)
    BY DEF Answered, Good
  <2> QED BY <2>1, SoundTypes DEF Answered
<1>2. ASSUME n \in Nat, r = mm_malloc(h, n) PROVE h.brk <= r.heap.brk
  <2>1. r = Result(h, NULL) \/ Allots(r.heap, r.ptr, h, n)
    BY <1>1, <1>2, MallocEffect
  <2> HIDE DEF r
  <2>2. h.brk <= r.heap.brk
    BY <1>1, <2>1 DEF Allots, Result
  <2> QED BY <2>2
<1>3. CASE o.type = "alloc"
  <2>1. n \in Nat /\ r = mm_malloc(h, n)
    BY <1>1, <1>3, OpFields DEF CalledOn
  <2> QED BY <1>2, <2>1
<1>4. CASE o.type = "realloc"
  <2>1. n \in Nat /\ r = mm_realloc(h, bp, n) /\ bp \in Live(h) \union {NULL}
    BY <1>1, <1>4, OpFields DEF CalledOn, Answered
  <2>2. n # 0
    BY <1>4, <2>1, ReallocToNothing DEF Answered, Result
  <2>3. CASE bp = NULL
    <3>1. r = mm_malloc(h, n)
      BY <2>1, <2>2, <2>3, ReallocOfNull
    <3> QED BY <1>2, <2>1, <3>1
  <2>4. CASE bp \in Live(h)
    <3>1. r = Result(h, NULL) \/ Moves(r.heap, r.ptr, h, bp, n)
      BY <1>1, <2>1, <2>2, <2>4, ReallocEffect
    <3> HIDE DEF r, bp
    <3>2. h.brk <= r.heap.brk
      BY <1>1, <3>1 DEF Moves, Result
    <3> QED BY <3>2 DEF r
  <2> QED BY <2>1, <2>3, <2>4
<1>5. CASE o.type = "free"
  <2>1. bp \in Live(h) /\ r = Result(mm_free(h, bp), NULL)
    BY <1>5 DEF CalledOn, Answered
  <2>2. Frees(mm_free(h, bp), h, bp)
    BY <1>1, <2>1, FreeEffect
  <2> HIDE DEF r, bp
  <2>3. h.brk <= r.heap.brk
    BY <1>1, <2>1, <2>2 DEF Frees, Result
  <2> QED BY <2>3 DEF r
<1> QED BY <1>1, <1>3, <1>4, <1>5, OpFields

(* In the first replay the heap has room for all blocks that have been in  *)
(* use together so far.                                                    *)
Roomy(sn) == \A k \in 1 .. Len(sn) : Bytes(sn[k].held) <= DSIZE * sn[Len(sn)].brk

(* What has been in use after each of the first k requests and before      *)
(* them, and that x is the most of it.                                     *)
Amounts(sn, k) == {Bytes(sn[l].held) : l \in 1 .. k} \union {0}
MostOf(x, S) == x \in S /\ \A y \in S : x >= y

(* The results of the traces that are over.                                *)
Stat == [valid : BOOLEAN, hwm : Nat, heapsize : Nat]
StatsRight(st) == st \in Seq(Stat) /\ \A t \in 1 .. Len(st) : st[t].hwm <= st[t].heapsize

(* What the counts of eval_mm_util are.                                    *)
CountsRight ==
  pass = "util" => /\ total_size = Bytes(held)
                   /\ MostOf(max_total_size, Amounts(seen, op))

SeenRoomy == pass \in {"valid", "util", "speed"} => Roomy(seen)

(* The inductive invariant of the driver, with the counts.                 *)
CountInv == DriverInv /\ CountsRight /\ SeenRoomy /\ StatsRight(mm_stats)

(* One more result.                                                        *)
LEMMA StatAdded ==
  ASSUME NEW st, StatsRight(st), NEW e \in Stat, e.hwm <= e.heapsize
  PROVE  StatsRight(Append(st, e))
<1> DEFINE st2 == Append(st, e)
<1>1. st \in Seq(Stat) /\ \A t \in 1 .. Len(st) : st[t].hwm <= st[t].heapsize
  BY DEF StatsRight
<1>3. st2 \in Seq(Stat) /\ Len(st2) = Len(st) + 1 /\ Len(st) \in Nat
  BY <1>1
<1>4. ASSUME NEW t \in 1 .. Len(st2) PROVE st2[t].hwm <= st2[t].heapsize
  <2>1. CASE t = Len(st) + 1
    <3>1. st2[t] = e
      BY <1>1, <2>1
    <3> QED BY <3>1
  <2>2. CASE t # Len(st) + 1
    <3>1. t \in 1 .. Len(st)
      BY <1>3, <2>2
    <3>2. st2[t] = st[t]
      BY <1>1, <3>1
    <3> QED BY <1>1, <3>1, <3>2
  <2> QED BY <2>1, <2>2
<1> QED BY <1>3, <1>4 DEF StatsRight

(* A maximum is the maximum.                                               *)
LEMMA MostIsMax ==
  ASSUME NEW S, S \subseteq Int, NEW x, MostOf(x, S)
  PROVE  Max(S) = x
<1>1. x \in S /\ \A y \in S : x >= y
  BY DEF MostOf
<1>2. Max(S) \in S /\ \A y \in S : Max(S) >= y
  BY <1>1 DEF Max
<1>3. x \in Int /\ Max(S) \in Int /\ x >= Max(S) /\ Max(S) >= x
  BY <1>1, <1>2
<1> DEFINE m == Max(S)
<1>4. m \in Int /\ x >= m /\ m >= x
  BY <1>3
<1> HIDE DEF m
<1>5. m = x
  BY <1>3, <1>4
<1> QED BY <1>5 DEF m

(* The amounts are numbers, the first is that of no request, and each      *)
(* request adds one.                                                       *)
LEMMA AmountsGrow ==
  ASSUME NEW sn \in Seq(Noticed), NEW k \in 0 .. Len(sn)
  PROVE  /\ \A l \in 1 .. Len(sn) : Bytes(sn[l].held) \in Nat
         /\ Amounts(sn, k) \subseteq Nat /\ Amounts(sn, 0) = {0}
         /\ k + 1 <= Len(sn) =>
              Amounts(sn, k + 1) = Amounts(sn, k) \union {Bytes(sn[k + 1].held)}
<1>1. ASSUME NEW l \in 1 .. Len(sn) PROVE Bytes(sn[l].held) \in Nat
  <2>1. sn[l] \in Noticed
    OBVIOUS
  <2>2. sn[l].held \in [Indices -> Block]
    BY <2>1 DEF Noticed
  <2>3. \A i \in Indices : sn[l].held[i].size \in Nat
    BY <2>2 DEF Block
  <2> QED BY <2>3, CountedFinite
<1>2. Len(sn) \in Nat /\ k \in Nat /\ 1 .. k \subseteq 1 .. Len(sn)
  OBVIOUS
<1>3. Amounts(sn, k) \subseteq Nat
  BY <1>1, <1>2 DEF Amounts
<1>4. 1 .. 0 = {} /\ 1 .. k + 1 = (1 .. k) \union {k + 1}
  BY <1>2
<1>5. Amounts(sn, 0) = {0}
  BY <1>4 DEF Amounts
<1>6. Amounts(sn, k + 1) = Amounts(sn, k) \union {Bytes(sn[k + 1].held)}
  BY <1>4 DEF Amounts
<1> QED BY <1>1, <1>3, <1>5, <1>6

(* A request that is answered leaves the heap at least as large.           *)
LEMMA RepliedGrows ==
  ASSUME NEW h, NEW hd, NEW o, NEW h2, NEW hd2, Replied(h, hd, o, h2, hd2)
  PROVE  h.brk <= h2.brk
<1>1. Answered(h, hd, o) /\ Alike(CalledOn(h, hd, o).heap, h2)
  BY DEF Replied
<1>2. h.brk <= CalledOn(h, hd, o).heap.brk
  BY <1>1, CalledGrows
<1>3. CalledOn(h, hd, o).heap.brk = h2.brk
  BY <1>1 DEF Alike
<1> QED BY <1>2, <1>3

(* Reading the trace file counts nothing.                                  *)
LEMMA CountReadOp ==
  ASSUME CountInv, ReadOp
  PROVE  CountInv'
<1>1. DriverInv'
  BY StepReadOp DEF CountInv
<1>2. pass' = "read" /\ mm_stats' = mm_stats
  BY DEF ReadOp
<1>3. CountsRight' /\ SeenRoomy' /\ StatsRight(mm_stats')
  BY <1>2 DEF CountInv, CountsRight, SeenRoomy
<1> QED BY <1>1, <1>3 DEF CountInv

(* The first replay notices blocks from the start.                         *)
LEMMA CountStartValid ==
  ASSUME CountInv, StartValid
  PROVE  CountInv'
<1>1. DriverInv'
  BY StepStartValid DEF CountInv
<1>2. pass' = "valid" /\ mm_stats' = mm_stats /\ seen' = <<>>
  BY DEF StartValid
<1>3. CountsRight' /\ StatsRight(mm_stats')
  BY <1>2 DEF CountInv, CountsRight
<1>4. Roomy(<<>>)
  BY DEF Roomy
<1>5. SeenRoomy'
  BY <1>2, <1>4 DEF SeenRoomy
<1> QED BY <1>1, <1>3, <1>5 DEF CountInv

(* In the first replay the break of the heap is the last one noticed.      *)
LEMMA LastNoticed ==
  ASSUME NEW hs, NEW tr, NEW sn \in Seq(Noticed), Log(hs, tr, sn), NEW k \in 1 .. Len(sn)
  PROVE  sn[k].brk = hs[k].brk
<1>1. sn[k] = [held |-> HeldAt(sn, k), brk |-> hs[k].brk]
  BY DEF Log
<1> QED BY <1>1

(* The heap grows with the blocks, and a refused trace has no numbers.     *)
LEMMA CountValidOp ==
  ASSUME CountInv, ValidOp
  PROVE  CountInv'
<1> DEFINE o == trace[op + 1]
           n == Len(seen)
           e == [held |-> held', brk |-> heap'.brk]
<1>1. /\ DriverInv /\ DriverInv' /\ pass = "valid" /\ Roomy(seen) /\ StatsRight(mm_stats)
  BY StepValidOp DEF CountInv, SeenRoomy, ValidOp
<1>2. seen \in Seq(Noticed) /\ trace \in Seq(Op) /\ n \in Nat
  BY <1>1 DEF DriverInv, DriverTyped
<1>3. PICK hs : Validating(hs, heap, held, ranges, trace, op, seen)
  BY <1>1 DEF DriverInv, FirstReplay
<1>4. CASE Rejected
  <2>1. /\ pass' \in {"done", "read"}
        /\ mm_stats' = Append(mm_stats, [valid |-> FALSE, hwm |-> 0, heapsize |-> 0])
    BY <1>4 DEF ValidOp, free_trace, Noted
  <2> DEFINE e0 == [valid |-> FALSE, hwm |-> 0, heapsize |-> 0]
  <2>a. e0 \in Stat /\ e0.hwm <= e0.heapsize
    BY DEF Stat
  <2> HIDE DEF e0
  <2>b. StatsRight(Append(mm_stats, e0))
    BY <1>1, <2>a, StatAdded
  <2>2. StatsRight(mm_stats')
    BY <2>1, <2>b DEF e0
  <2> QED BY <1>1, <2>1, <2>2 DEF CountInv, CountsRight, SeenRoomy
<1>5. CASE ~Rejected
  <2>1. /\ pass' = "valid" /\ mm_stats' = mm_stats /\ seen' = Append(seen, e)
    BY <1>1, <1>5 DEF ValidOp
  <2>2. PICK ks : Validating(ks, heap', held', ranges', trace', op', seen')
    BY <1>1, <2>1 DEF DriverInv, FirstReplay
  <2>3. /\ Agree(heap', held', ranges') /\ Log(ks, trace', seen') /\ seen' \in Seq(Noticed)
        /\ Good(heap') /\ held' \in [Indices -> Block]
    BY <1>1, <2>2 DEF Validating, DriverInv, DriverTyped, Agree
  <2>4. Bytes(held') <= DSIZE * heap'.brk /\ Bytes(held') \in Nat
    <3>1. \A i \in Indices : held'[i].size \in Nat
      BY <2>3 DEF Block
    <3> QED BY <2>3, <3>1, BytesFit, CountedFinite
  <2>5. heap'.brk \in Nat
    <3>1. Sound(heap')
      BY <2>3 DEF Good
    <3> QED BY <3>1, SoundTypes DEF Addr
  <2>6. e.held = held' /\ e.brk = heap'.brk
    OBVIOUS
  <2> HIDE DEF e
  <2>7. Len(seen') = n + 1 /\ seen'[n + 1] = e /\ \A k \in 1 .. n : seen'[k] = seen[k]
    BY <1>2, <2>1
  <2>8. ASSUME NEW k \in 1 .. n
        PROVE  Bytes(seen[k].held) <= DSIZE * heap'.brk
    <3>1. Replied(ks[(n + 1) - 1], HeldAt(seen', (n + 1) - 1), trace'[n + 1], ks[n + 1], HeldAt(seen', n + 1))
      <4>1. n + 1 \in 1 .. Len(seen')
        BY <1>2, <2>7
      <4> QED BY <2>3, <4>1 DEF Log
    <3>2. ks[(n + 1) - 1].brk <= ks[n + 1].brk
      BY <3>1, RepliedGrows
    <3>3. (n + 1) - 1 = n /\ n \in 1 .. Len(seen') /\ n + 1 \in 1 .. Len(seen') /\ n \in 1 .. n
      BY <1>2, <2>7, <2>8
    <3>4. ks[n].brk = seen[n].brk /\ ks[n + 1].brk = heap'.brk
      <4>1. ks[n].brk = seen'[n].brk /\ ks[n + 1].brk = seen'[n + 1].brk
        BY <2>3, <3>3, LastNoticed
      <4> QED BY <2>6, <2>7, <3>3, <4>1
    <3>5. seen[n].brk <= heap'.brk
      BY <3>2, <3>3, <3>4
    <3>6. Bytes(seen[k].held) <= DSIZE * seen[n].brk
      BY <1>1 DEF Roomy
    <3>7. Bytes(seen[k].held) \in Nat
      BY <1>2, AmountsGrow
    <3>8. seen[n].brk \in Nat
      <4>1. seen[n] \in Noticed
        BY <1>2, <3>3
      <4> QED BY <4>1, MaxHeapAssumption, ChunkAssumption DEF Noticed
    <3> HIDE DEF n
    <3> QED BY <2>5, <3>5, <3>6, <3>7, <3>8 DEF DSIZE
  <2>9. ASSUME NEW k \in 1 .. Len(seen')
        PROVE  Bytes(seen'[k].held) <= DSIZE * seen'[Len(seen')].brk
    <3>1. CASE k = n + 1
      BY <2>4, <2>6, <2>7, <3>1
    <3>2. CASE k # n + 1
      <4>1. k \in 1 .. n
        BY <1>2, <2>7, <3>2
      <4>2. seen'[k] = seen[k] /\ seen'[Len(seen')].brk = heap'.brk
        BY <2>6, <2>7, <4>1
      <4> QED BY <2>8, <4>1, <4>2
    <3> QED BY <3>1, <3>2
  <2>10. Roomy(seen')
    BY <2>9 DEF Roomy
  <2>11. SeenRoomy' /\ CountsRight' /\ StatsRight(mm_stats')
    BY <1>1, <2>1, <2>10 DEF SeenRoomy, CountsRight
  <2> QED BY <1>1, <2>11 DEF CountInv
<1> QED BY <1>4, <1>5

(* The counts of eval_mm_util begin with no blocks.                        *)
LEMMA CountStartUtil ==
  ASSUME CountInv, StartUtil
  PROVE  CountInv'
<1>1. DriverInv'
  BY StepStartUtil DEF CountInv
<1>2. /\ pass = "valid" /\ pass' = "util" /\ mm_stats' = mm_stats /\ seen' = seen
      /\ total_size' = 0 /\ max_total_size' = 0
      /\ held' = [i \in Indices |-> Free] /\ op' = 0
  BY DEF StartUtil, Reset
<1>3. SeenRoomy' /\ StatsRight(mm_stats')
  BY <1>2 DEF CountInv, SeenRoomy
<1>4. Bytes(held') = 0
  BY <1>2, BytesOfNothing
<1>5. seen' \in Seq(Noticed) /\ 0 \in 0 .. Len(seen')
  BY <1>1 DEF DriverInv, DriverTyped
<1>6. Amounts(seen', op') = {0}
  BY <1>2, <1>5, AmountsGrow
<1>7. MostOf(max_total_size', Amounts(seen', op'))
  BY <1>2, <1>6 DEF MostOf
<1>8. CountsRight'
  BY <1>2, <1>4, <1>7 DEF CountsRight
<1> QED BY <1>1, <1>3, <1>8 DEF CountInv

(* eval_mm_util adds the growth of a block to what is in use.              *)
LEMMA CountUtilOp ==
  ASSUME CountInv, UtilOp
  PROVE  CountInv'
<1> DEFINE o == trace[op + 1]
           total == total_size + Growth(o)
<1>1. /\ DriverInv /\ DriverInv' /\ pass = "util" /\ Roomy(seen) /\ StatsRight(mm_stats)
      /\ total_size = Bytes(held) /\ MostOf(max_total_size, Amounts(seen, op))
  BY StepReplayOp DEF CountInv, CountsRight, SeenRoomy, UtilOp
<1>2. /\ seen \in Seq(Noticed) /\ trace \in Seq(Op) /\ op < Len(trace)
      /\ seen' = seen /\ mm_stats' = mm_stats /\ Perform(o)
  BY <1>1 DEF DriverInv, DriverTyped, UtilOp
<1>3. PICK hs : Replaying(hs, heap, held, trace, op, seen)
  BY <1>1 DEF DriverInv, LaterReplay
<1>4. /\ Replaying(hs, heap', held', trace, op', seen) /\ pass' = pass
  BY <1>2, <1>3, PerformReplays
<1>5. /\ Len(seen) = Len(trace) /\ op \in 0 .. Len(seen) /\ op \in Nat /\ Len(seen) \in Nat
      /\ held = HeldAt(seen, op)
  BY <1>2, <1>3 DEF Replaying
<1>6. o \in Op
  BY <1>2, <1>5
<1>7. held \in [Indices -> Block]
  <2>1. CASE op = 0
    BY <1>5, <2>1 DEF HeldAt, Free, Block
  <2>2. CASE op # 0
    <3>1. seen[op] \in Noticed /\ held = seen[op].held
      BY <1>2, <1>5, <2>2 DEF HeldAt
    <3> QED BY <3>1 DEF Noticed
  <2> QED BY <2>1, <2>2
<1>8. /\ total_size' = total /\ op' = op + 1
      /\ max_total_size' = IF total > max_total_size THEN total ELSE max_total_size
  <2>1. pass' # "stopped"
    BY <1>1, <1>4
  <2>2. op' = op + 1
    BY <1>2, <2>1 DEF Perform, Performed, app_error
  <2> QED BY <2>1, <2>2 DEF UtilOp
<1>9. PICK p : held' = [held EXCEPT ![o.index] = Remembered(o, p)]
  <2>1. pass' # "stopped"
    BY <1>1, <1>4
  <2> QED BY <1>2, <2>1 DEF Perform, Performed, app_error
<1> HIDE DEF o
<1>10. total = Bytes(held') /\ Bytes(held') \in Nat
  <2>1. o.index \in Indices /\ (o.type # "free" => o.size \in Nat)
    BY <1>6, OpFields
  <2>2. Remembered(o, p).size = IF o.type = "free" THEN 0 ELSE o.size
    BY DEF Remembered, Free
  <2>3. Remembered(o, p).size \in Nat
    BY <2>1, <2>2
  <2>4. Bytes(held') = Bytes(held) + (Remembered(o, p).size - held[o.index].size)
    BY <1>7, <1>9, <2>1, <2>3, BytesChange
  <2>5. Growth(o) = Remembered(o, p).size - held[o.index].size
    BY <2>2 DEF Growth
  <2>6. total = Bytes(held')
    BY <1>1, <2>4, <2>5
  <2>7. \A i \in Indices : held'[i].size \in Nat
    BY <1>7, <1>9, <2>1, <2>3 DEF Block
  <2> QED BY <2>6, <2>7, CountedFinite
<1> HIDE DEF total
<1>11. op + 1 <= Len(seen) /\ held' = seen[op + 1].held
  <2>1. held' = HeldAt(seen, op + 1)
    BY <1>4, <1>8 DEF Replaying
  <2> QED BY <1>2, <1>5, <2>1 DEF HeldAt
<1>12. /\ Amounts(seen, op) \subseteq Nat
       /\ Amounts(seen, op + 1) = Amounts(seen, op) \union {Bytes(held')}
  BY <1>2, <1>5, <1>11, AmountsGrow
<1>13. MostOf(max_total_size', Amounts(seen', op'))
  <2>1. /\ max_total_size \in Amounts(seen, op) /\ \A y \in Amounts(seen, op) : max_total_size >= y
    BY <1>1 DEF MostOf
  <2> DEFINE S == Amounts(seen, op)
             b == Bytes(held')
             m == max_total_size
  <2> HIDE DEF S, b
  <2>2. S \subseteq Nat /\ b \in Nat /\ m \in S /\ \A y \in S : m >= y
    BY <1>10, <1>12, <2>1 DEF S, b
  <2>3. max_total_size' = IF b > m THEN b ELSE m
    BY <1>8, <1>10 DEF b
  <2>4. Amounts(seen', op') = S \union {b}
    BY <1>2, <1>8, <1>12 DEF S, b
  <2>5. max_total_size' \in S \union {b} /\ \A y \in S \union {b} : max_total_size' >= y
    BY <2>2, <2>3
  <2> QED BY <2>4, <2>5 DEF MostOf
<1>14. CountsRight'
  BY <1>8, <1>10, <1>13 DEF CountsRight
<1>15. SeenRoomy' /\ StatsRight(mm_stats')
  BY <1>1, <1>2 DEF SeenRoomy
<1> QED BY <1>1, <1>14, <1>15 DEF CountInv

(* At the end of eval_mm_util the heap has had room for the most of it.    *)
LEMMA CountStartSpeed ==
  ASSUME CountInv, StartSpeed
  PROVE  CountInv'
<1>1. /\ DriverInv /\ DriverInv' /\ pass \in {"util", "speed"} /\ Roomy(seen) /\ StatsRight(mm_stats)
  BY StepStartSpeed DEF CountInv, SeenRoomy, StartSpeed
<1>2. pass' = "speed" /\ seen' = seen
  BY DEF StartSpeed
<1>3. CASE mm_stats' = mm_stats
  BY <1>1, <1>2, <1>3 DEF CountInv, CountsRight, SeenRoomy
<1>4. CASE mm_stats' # mm_stats
  <2>1. /\ pass = "util" /\ op = Len(trace)
        /\ mm_stats' = Append(mm_stats, [valid |-> TRUE, hwm |-> max_total_size,
                                          heapsize |-> mem_heapsize(heap)])
    BY <1>4 DEF StartSpeed, Noted
  <2>2. MostOf(max_total_size, Amounts(seen, op))
    BY <2>1 DEF CountInv, CountsRight
  <2>3. seen \in Seq(Noticed)
    BY <1>1 DEF DriverInv, DriverTyped
  <2>4. PICK hs : Replaying(hs, heap, held, trace, op, seen)
    BY <1>1 DEF DriverInv, LaterReplay
  <2>5. /\ Len(seen) = Len(trace) /\ op \in 0 .. Len(seen) /\ Log(hs, trace, seen)
        /\ hs[op].brk = heap.brk /\ Good(heap)
    BY <2>4 DEF Replaying, Alike
  <2>6. heap.brk \in Nat
    <3>1. Sound(heap)
      BY <2>5 DEF Good
    <3> QED BY <3>1, SoundTypes DEF Addr
  <2>7. max_total_size \in Nat
    BY <2>2, <2>3, <2>5, AmountsGrow DEF MostOf
  <2>8. max_total_size <= mem_heapsize(heap) /\ mem_heapsize(heap) \in Nat
    <3>1. mem_heapsize(heap) = 8 * heap.brk
      BY DEF mem_heapsize, DSIZE
    <3>2. CASE max_total_size = 0
      BY <2>6, <3>1, <3>2
    <3>3. CASE max_total_size # 0
      <4>1. PICK l \in 1 .. op : max_total_size = Bytes(seen[l].held)
        BY <2>2, <3>3 DEF MostOf, Amounts
      <4>2. op \in 1 .. Len(seen) /\ l \in 1 .. Len(seen) /\ op = Len(seen)
        BY <2>1, <2>5, <4>1
      <4>3. seen[op].brk = heap.brk
        BY <2>3, <2>5, <4>2, LastNoticed
      <4>4. Bytes(seen[l].held) <= 8 * seen[Len(seen)].brk
        BY <1>1, <4>2 DEF Roomy, DSIZE
      <4> QED BY <2>6, <3>1, <4>1, <4>2, <4>3, <4>4
    <3> QED BY <3>2, <3>3
  <2> DEFINE e == [valid |-> TRUE, hwm |-> max_total_size, heapsize |-> mem_heapsize(heap)]
  <2>a. e \in Stat /\ e.hwm <= e.heapsize
    BY <2>7, <2>8 DEF Stat
  <2> HIDE DEF e
  <2>b. StatsRight(Append(mm_stats, e))
    BY <1>1, <2>a, StatAdded
  <2>9. StatsRight(mm_stats')
    BY <2>1, <2>b DEF e
  <2> QED BY <1>1, <1>2, <2>9 DEF CountInv, CountsRight, SeenRoomy
<1> QED BY <1>3, <1>4

(* A timed replay counts nothing.                                          *)
LEMMA CountSpeedOp ==
  ASSUME CountInv, SpeedOp
  PROVE  CountInv'
<1>1. DriverInv' /\ trace \in Seq(Op) /\ seen \in Seq(Noticed)
  BY StepReplayOp DEF CountInv, DriverInv, DriverTyped
<1>2. pass = "speed" /\ mm_stats' = mm_stats /\ seen' = seen /\ op < Len(trace)
      /\ Perform(trace[op + 1])
  BY DEF SpeedOp
<1>3. PICK hs : Replaying(hs, heap, held, trace, op, seen)
  BY <1>2 DEF CountInv, DriverInv, LaterReplay
<1>4. pass' = pass
  BY <1>1, <1>2, <1>3, PerformReplays
<1>5. CountsRight' /\ SeenRoomy' /\ StatsRight(mm_stats')
  BY <1>2, <1>4 DEF CountInv, CountsRight, SeenRoomy
<1> QED BY <1>1, <1>5 DEF CountInv

(* The counts of a trace that is over are not read again.                  *)
LEMMA CountEndSpeed ==
  ASSUME CountInv, EndSpeed
  PROVE  CountInv'
<1>1. DriverInv'
  BY StepEndSpeed DEF CountInv
<1>2. pass' \in {"done", "read"} /\ mm_stats' = mm_stats
  BY DEF EndSpeed, free_trace
<1>3. CountsRight' /\ SeenRoomy' /\ StatsRight(mm_stats')
  BY <1>2 DEF CountInv, CountsRight, SeenRoomy
<1> QED BY <1>1, <1>3 DEF CountInv

(* Every step of the driver keeps the counts right.                        *)
LEMMA CountNext ==
  CountInv /\ [DriverNext]_driverVars => CountInv'
<1> SUFFICES ASSUME CountInv, [DriverNext]_driverVars PROVE CountInv'
  OBVIOUS
<1>1. CASE DriverNext
  BY <1>1, CountReadOp, CountStartValid, CountValidOp, CountStartUtil, CountUtilOp,
     CountStartSpeed, CountSpeedOp, CountEndSpeed DEF DriverNext
<1>2. CASE UNCHANGED driverVars
  <2>1. /\ held' = held /\ pass' = pass /\ op' = op /\ seen' = seen /\ mm_stats' = mm_stats
        /\ total_size' = total_size /\ max_total_size' = max_total_size
    BY <1>2 DEF driverVars, vars, counts
  <2>2. DriverInv'
    BY <1>2, DriverNextInv DEF CountInv
  <2>3. CountsRight'
    BY <2>1 DEF CountInv, CountsRight
  <2>4. SeenRoomy' /\ StatsRight(mm_stats')
    BY <2>1 DEF CountInv, SeenRoomy
  <2> QED BY <2>2, <2>3, <2>4 DEF CountInv
<1> QED BY <1>1, <1>2

(* The driver starts without results.                                      *)
LEMMA CountInit ==
  DriverInit => CountInv
<1> SUFFICES ASSUME DriverInit PROVE CountInv
  OBVIOUS
<1>1. DriverInv
  BY DriverInitInv
<1>2. pass = "read" /\ mm_stats = <<>>
  BY DEF DriverInit
<1>3. CountsRight /\ SeenRoomy /\ StatsRight(mm_stats)
  BY <1>2 DEF CountsRight, SeenRoomy, StatsRight
<1> QED BY <1>1, <1>3 DEF CountInv

(* The counts are what the property says they are.                         *)
LEMMA InvUtilizationRight ==
  ASSUME CountInv
  PROVE  UtilizationRight
<1>1. ASSUME pass = "util"
      PROVE  /\ total_size = Bytes(held)
             /\ max_total_size = Max({Bytes(seen[k].held) : k \in 1 .. op} \union {0})
  <2>1. total_size = Bytes(held) /\ MostOf(max_total_size, Amounts(seen, op))
    BY <1>1 DEF CountInv, CountsRight
  <2>2. PICK hs : Replaying(hs, heap, held, trace, op, seen)
    BY <1>1 DEF CountInv, DriverInv, LaterReplay
  <2>3. seen \in Seq(Noticed) /\ op \in 0 .. Len(seen)
    BY <2>2 DEF CountInv, DriverInv, DriverTyped, Replaying
  <2>4. Amounts(seen, op) \subseteq Int
    BY <2>3, AmountsGrow
  <2>5. max_total_size = Max(Amounts(seen, op))
    BY <2>1, <2>4, MostIsMax
  <2> QED BY <2>1, <2>5 DEF Amounts
<1>2. \A t \in DOMAIN mm_stats : mm_stats[t].hwm <= mm_stats[t].heapsize
  <2>1. /\ mm_stats \in Seq(Stat)
        /\ \A t \in 1 .. Len(mm_stats) : mm_stats[t].hwm <= mm_stats[t].heapsize
    BY DEF CountInv, StatsRight
  <2>2. DOMAIN mm_stats = 1 .. Len(mm_stats)
    BY <2>1
  <2> QED BY <2>1, <2>2
<1> QED BY <1>1, <1>2 DEF UtilizationRight

(* The bytes in use that eval_mm_util counts are those of the blocks, its  *)
(* high water mark is the most there have been, and the heap it divides by *)
(* has had room for them: for every trace, memory and CHUNKSIZE.           *)
THEOREM UtilizationCorrect == DriverSpec => []UtilizationRight
  BY CountInit, CountNext, InvUtilizationRight, PTL DEF DriverSpec

=============================================================================
