----------------------------- MODULE MCSampler ------------------------------
(***************************************************************************)
(* An instance of Sampler for TLC: words of the counter that count to 4,   *)
(* runs of 2, 3 and 7 cycles, some with a tick.                            *)
(***************************************************************************)
EXTENDS Sampler

=============================================================================
