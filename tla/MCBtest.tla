------------------------------ MODULE MCBtest ------------------------------
(***************************************************************************)
(* An instance of Btest for TLC: words of eight bits, in four bytes of     *)
(* two; floats with three bits of exponent and four of fraction.           *)
(***************************************************************************)
EXTENDS Btest

(* Words near zero, near TMin and near TMax, and some between.             *)
SampledWords == {Bits(n) : n \in (-3 .. 3) \cup (-128 .. -126) \cup (125 .. 127)
                                 \cup {-86, -16, 15, 60, 85}}

=============================================================================
