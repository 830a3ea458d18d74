------------------------------ MODULE Puzzles ------------------------------
(***************************************************************************)
(* The puzzles of lab1: the solutions in bits.c, and after each of them    *)
(* the function of tests.c that says what it has to compute.  A float is   *)
(* the sign bit, ExpBits bits of exponent and the rest of fraction.        *)
(***************************************************************************)
EXTENDS Words

CONSTANT ExpBits

ASSUME ExpBitsAssumption == ExpBits \in 2 .. W - 3

-----------------------------------------------------------------------------
(* Integer puzzles without +.                                              *)

(* 0x55, in each of the four bytes.                                        *)
EvenByte == {b \in 0 .. ByteSize - 1 : b % 2 = 0}
evenBits == UNION {ShiftLeft(EvenByte, n * ByteSize) : n \in 0 .. 3}
test_evenBits == {b \in BitPositions : b % 2 = 0}

allEvenBits(x) == Bang(Xor(x \cap evenBits, evenBits))
test_allEvenBits(x) == Truth(\A b \in BitPositions : b % 2 = 0 => b \in x)

bitAnd(x, y) == Not(Not(x) \cup Not(y))
test_bitAnd(x, y) == x \cap y

bitMask(highbit, lowbit) ==
  LET MSB == Not(ShiftLeft({0}, W - 1))
      LSB == Not({0})
      lowMask == ShiftRight(MSB, (W - 1) + (Complement(lowbit) + 1))
      highMask == ShiftLeft(LSB, highbit)
  IN  Not(highMask \cup lowMask)
test_bitMask(highbit, lowbit) == lowbit .. highbit

copyLSB(x) == ShiftRight(ShiftLeft(x, W - 1), W - 1)
test_copyLSB(x) == IF 0 \in x THEN BitPositions ELSE {}

(* In getByte, n << 3 is n times the byte size and 25 is 24 + 1.           *)
getByte(x, n) ==
  LET left == (3 * ByteSize + 1) + Complement(n * ByteSize)
  IN  ShiftRight(ShiftLeft(x, left), 3 * ByteSize) \cap (0 .. ByteSize - 1)
test_getByte(x, n) == {b \in 0 .. ByteSize - 1 : b + n * ByteSize \in x}

minusOne == Not({})
test_minusOne == Bits(-1)

tmax == Not(ShiftLeft({0}, W - 1))
test_tmax == BitPositions \ {SignBit}

isEqual(x, y) == Bang(Xor(x, y))
test_isEqual(x, y) == Truth(x = y)

isNegative(x) == ShiftRight(x, W - 1) \cap {0}
test_isNegative(x) == Truth(Negative(x))

(* Mutant: zero counts as positive.                                        *)
isPositiveOrZero(x) == Bang(ShiftRight(x \cap {SignBit}, W - 1))
isPositive(x) ==
  LET originalInverse == Bang(x)
      msb == ShiftRight(x \cap ShiftLeft({0}, W - 1), W - 1)
  IN  Bang(msb \cup originalInverse)
test_isPositive(x) == Truth(~ Negative(x) /\ x # {})

-----------------------------------------------------------------------------
(* Integer puzzles with +: -x is ~x + 1.                                   *)

negate(x) == Plus(Not(x), {0})
test_negate(x) == Bits(- Signed(x))

bang(x) == Not(ShiftRight(x \cup Plus(Not(x), {0}), W - 1)) \cap {0}
test_bang(x) == Bang(x)

logicalNeg(x) == Not(ShiftRight(x \cup Plus(Not(x), {0}), W - 1)) \cap {0}
test_logicalNeg(x) == Bang(x)

leastBitPos(x) == x \cap Plus(Not(x), {0})
test_leastBitPos(x) == {b \in x : \A c \in x : b <= c}

isNonZero(x) ==
  LET negative == ShiftRight(x, W - 1) \cap {0}
      positive == Xor(ShiftRight(Plus(x, Not({})), W - 1) \cap {0}, {0})
  IN  negative \cup positive
test_isNonZero(x) == Truth(x # {})

sign(x) ==
  LET msb == ShiftRight(x, W - 1) \cap {0}
      minusMsb == Plus(Not(msb), {0})
  IN  Plus(Plus(Bang(Bang(x)), minusMsb), minusMsb)
test_sign(x) ==
  Bits(IF x = {} THEN 0 ELSE IF Negative(x) THEN -1 ELSE 1)

sm2tc(x) ==
  LET highBit == ShiftLeft({0}, W - 1)
      msb == ShiftRight(x, W - 1)
      choiceMask == Not(msb) \cap x
      conversion == Plus(x \cap highBit, Plus(Not(x), {0})) \cap msb
  IN  choiceMask \cup conversion
test_sm2tc(x) ==
  LET mag == Unsigned(x \ {SignBit})
  IN  Bits(IF Negative(x) THEN - mag ELSE mag)

-----------------------------------------------------------------------------
(* Floats.  The parts of a word, its infinity, and what is not a number.   *)

FracBits == W - 1 - ExpBits
Exponent(u) == Unsigned(ShiftRightUnsigned(u, FracBits) \cap (0 .. ExpBits - 1))
Fraction(u) == u \cap (0 .. FracBits - 1)
MaxExponent == Pow2[ExpBits] - 1
Inf == Bits(MaxExponent * Pow2[FracBits])
IsNaN(u) == Exponent(u) = MaxExponent /\ Fraction(u) # {}

(* The magnitude of a finite float, in units of the least denormal.        *)
Magnitude(u) ==
  IF Exponent(u) = 0
    THEN Unsigned(Fraction(u))
    ELSE (Pow2[FracBits] + Unsigned(Fraction(u))) * Pow2[Exponent(u) - 1]

(* The word of 2 * f: doubling is exact unless it passes the largest float.*)
Doubled(u) ==
  LET finite == {t \in SUBSET (BitPositions \ {SignBit}) :
                   Exponent(t) # MaxExponent}
      exact == {t \in finite : Magnitude(t) = 2 * Magnitude(u)}
  IN  (u \cap {SignBit}) \cup (IF Exponent(u) # MaxExponent /\ exact # {}
                                THEN CHOOSE t \in exact : TRUE
                                ELSE Inf)

float_abs(uf) ==
  LET t == uf \ {SignBit}
  IN  IF Unsigned(t) > Unsigned(Inf) THEN uf ELSE t
test_float_abs(uf) ==
  IF IsNaN(uf) \/ ~ Negative(uf) THEN uf ELSE Xor(uf, {SignBit})

float_twice(uf) ==
  LET exponent == Exponent(uf)
      fraction == Fraction(uf)
      Packed(e, f) == (uf \cap {SignBit}) \cup ShiftLeft(Bits(e), FracBits) \cup f
  IN  IF exponent = MaxExponent \/ (exponent = 0 /\ fraction = {}) THEN uf
      ELSE IF exponent # 0 THEN Packed(exponent + 1, fraction)
      ELSE IF fraction = 0 .. FracBits - 1
             THEN Packed(1, Bits(Pow2[FracBits] - 2))
             ELSE Packed(0, ShiftLeft(fraction, 1))
test_float_twice(uf) == IF IsNaN(uf) THEN uf ELSE Doubled(uf)

=============================================================================
