------------------------------- MODULE Words -------------------------------
(***************************************************************************)
(* C's int and unsigned, W bits wide, as the solutions of lab1/bits.c use  *)
(* them.  A word is the set of the positions of its one bits, so that ~,   *)
(* &, | and ^ are operations on sets.  A word has four bytes of ByteSize   *)
(* bits: ByteSize = 8 is the code's 32 bits.                               *)
(***************************************************************************)
EXTENDS Integers, FiniteSetsExt

CONSTANT ByteSize

ASSUME ByteSizeAssumption == ByteSize \in Nat \ {0} /\ ByteSize % 2 = 0

W == 4 * ByteSize
BitPositions == 0 .. W - 1
SignBit == W - 1
Word == SUBSET BitPositions

-----------------------------------------------------------------------------
(* 2^n, a recursive function.                                              *)
Pow2[n \in Nat] == IF n = 0 THEN 1 ELSE 2 * Pow2[n - 1]

(* Words and numbers.  \div rounds down, so Bits also gives the two's      *)
(* complement of a negative number, reduced to W bits.                     *)

Bits(n) == {b \in BitPositions : (n \div Pow2[b]) % 2 = 1}
Unsigned(x) == MapThenSumSet(LAMBDA b : Pow2[b], x)
Negative(x) == SignBit \in x
Signed(x) == Unsigned(x) - (IF Negative(x) THEN Pow2[W] ELSE 0)

(* The words 1 and 0, as C's truth values.                                 *)
Truth(p) == IF p THEN {0} ELSE {}

(* C's !, ~, ^ and +.                                                      *)
Bang(x) == Truth(x = {})
Not(x) == BitPositions \ x
Xor(x, y) == SymDiff(x, y)
Plus(x, y) == Bits(Unsigned(x) + Unsigned(y))

(* << and >> by n bits: >> of an int copies the sign bit, >> of an         *)
(* unsigned fills with zeros.                                              *)
ShiftLeft(x, n) == {b \in BitPositions : b - n \in x}
ShiftRight(x, n) ==
  {b \in BitPositions : IF b + n \in BitPositions THEN b + n \in x
                                                  ELSE Negative(x)}
ShiftRightUnsigned(x, n) == {b \in BitPositions : b + n \in x}

(* ~ of an int that is small enough to be written as a number: a bit       *)
(* position or a byte number.                                              *)
Complement(n) == - n - 1

=============================================================================
