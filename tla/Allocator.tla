----------------------------- MODULE Allocator -----------------------------
(***************************************************************************)
(* What a malloc package promises its clients, as lab3/mdriver.c means to  *)
(* check it: a payload is aligned, has the bytes asked for, lies within    *)
(* the memory and overlaps no other payload.  A call may fail, and then    *)
(* changes nothing.                                                        *)
(***************************************************************************)
EXTENDS Integers

CONSTANTS
  Indices,      \* the blocks a client tells apart
  MaxHeap,      \* the doublewords of the memory
  Requests      \* the sizes a client asks for, in bytes

VARIABLE payload        \* for each index the bytes it holds

ALIGNMENT == 8

Init == payload = [i \in Indices |-> {}]

Taken(i) == UNION {payload[j] : j \in Indices \ {i}}

Payloads(n) ==
  {ALIGNMENT * p .. ALIGNMENT * p + n - 1 :
     p \in {q \in 1 .. MaxHeap - 1 : ALIGNMENT * q + n <= ALIGNMENT * MaxHeap}}

Give(i, n) ==
  /\ payload' = [payload EXCEPT ![i] = payload'[i]]
  /\ payload'[i] \intersect Taken(i) = {}
  /\ payload'[i] \in Payloads(n)

malloc(i, n) == payload[i] = {} /\ n > 0 /\ Give(i, n)

free(i) == payload' = [payload EXCEPT ![i] = {}]

(* For an index without a block it is malloc. *)
realloc(i, n) == n > 0 /\ Give(i, n)

Next ==
  \/ \E i \in Indices : free(i)
  \/ \E i \in Indices, n \in Requests : malloc(i, n) \/ realloc(i, n)
  \/ Init'

Spec == Init /\ [][Next]_payload

=============================================================================
