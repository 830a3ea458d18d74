---------------------------- MODULE BubbleSort -----------------------------
(***************************************************************************)
(* bubbleSort, sort and swap of hw6/sortfile.c (hw4 and hw5 have the same).*)
(* array[p] of this module is array[p - 1] of the code; i and j are the    *)
(* code's.                                                                 *)
(***************************************************************************)
EXTENDS Integers, Sequences

CONSTANT isIncreasing

ASSUME DirectionAssumption == isIncreasing \in BOOLEAN

VARIABLES
  array,
  i, j,
  original,  \* history: the array before it is sorted
  perm       \* history: where in it each element was

sortVars == <<array, i, j, original, perm>>

size == Len(array)

InOrder(a, b) == IF isIncreasing THEN a <= b ELSE a >= b

(* The loops have ended, or size >= 2 was false.                           *)
Finished == size < 2 \/ i = size

(* The call of bubbleSort.                                                 *)
Call(numbers) ==
  /\ array = numbers /\ original = numbers
  /\ perm = [p \in DOMAIN numbers |-> p]
  /\ i = 0 /\ j = 0

Swapped(f, p) == [f EXCEPT ![p] = f[p + 1], ![p + 1] = f[p]]

(* sort: swap, unless the two are in order.                                *)
SortPair ==
  /\ ~ Finished /\ j < size - 1 - i
  /\ IF InOrder(array[j + 1], array[j + 2])
       THEN UNCHANGED <<array, perm>>
       ELSE array' = Swapped(array, j + 1) /\ perm' = Swapped(perm, j + 1)
  /\ j' = j + 1
  /\ UNCHANGED <<i, original>>

(* The next round of the outer loop.                                       *)
(* Mutants: it starts from the second pair; it is the same round again.    *)
NextPassFromOne ==
  /\ ~ Finished /\ j >= size - 1 - i
  /\ i' = i + 1 /\ j' = 1
  /\ UNCHANGED <<array, original, perm>>
NextPassForever ==
  /\ ~ Finished /\ j >= size - 1 - i
  /\ j' = 0
  /\ UNCHANGED <<array, i, original, perm>>
NextPass ==
  /\ ~ Finished /\ j >= size - 1 - i
  /\ i' = i + 1 /\ j' = 0
  /\ UNCHANGED <<array, original, perm>>

SortInit == \E numbers \in Seq(Int) : Call(numbers)
SortNext == SortPair \/ NextPass
SortSpec == SortInit /\ [][SortNext]_sortVars

-----------------------------------------------------------------------------
(* The postcondition of bubbleSort (sortfile.c:132): when the loops end,   *)
(* every two elements are in order.                                        *)
Sorted ==
  Finished => \A p, q \in 1 .. size : p < q => InOrder(array[p], array[q])

(* At every moment the array holds the elements it was called with: swap   *)
(* (sortfile.c:178) loses none and doubles none.                           *)
SameElements ==
  /\ size = Len(original)
  /\ DOMAIN perm = 1 .. size
  /\ \A p \in 1 .. size : perm[p] \in 1 .. size /\ array[p] = original[perm[p]]
  /\ \A p, q \in 1 .. size : perm[p] = perm[q] => p = q

=============================================================================
