---------------------------- MODULE BtestProofs ----------------------------
(***************************************************************************)
(* Every solution of the puzzles agrees with its test function, for every  *)
(* width of a byte and of an exponent; so the tally of run_tests comes to  *)
(* the ratings of what it tested and did not cut off.                      *)
(***************************************************************************)
EXTENDS Btest, FiniteSetTheorems, WellFoundedInduction, TLAPS

LEMMA Widths ==
  /\ W \in Nat /\ W - 1 \in BitPositions /\ 0 \in BitPositions
  /\ SignBit = W - 1 /\ 3 * ByteSize \in BitPositions /\ ByteSize - 1 \in Nat
  /\ BitPositions \subseteq Int
  /\ \A b \in BitPositions : b >= 0 /\ b <= W - 1
BY ByteSizeAssumption DEF W, BitPositions, SignBit

(* bits.c:210 computes x & y.                                              *)
THEOREM BitAndRight ==
  ASSUME NEW x \in Word, NEW y \in Word
  PROVE  bitAnd(x, y) = test_bitAnd(x, y)
BY DEF bitAnd, test_bitAnd, Not, Word

(* bits.c:265 has exactly the even bits set: the four copies of 0x55 meet  *)
(* without a gap.                                                          *)
THEOREM EvenBitsRight == evenBits = test_evenBits
<1>1. \A b \in BitPositions : b \in evenBits <=> b % 2 = 0
  <2> TAKE b \in BitPositions
  <2> USE ByteSizeAssumption, Widths
  <2>0. PICK h \in Nat : ByteSize = 2 * h
    <3>1. ByteSize \div 2 \in Nat /\ ByteSize = 2 * (ByteSize \div 2)
      OBVIOUS
    <3> QED  BY <3>1
  <2>1. PICK n \in 0 .. 3 : b - n * ByteSize \in 0 .. ByteSize - 1
    <3>1. CASE b < ByteSize  BY <3>1 DEF BitPositions, W
    <3>2. CASE ByteSize <= b /\ b < 2 * ByteSize  BY <3>2 DEF BitPositions, W
    <3>3. CASE 2 * ByteSize <= b /\ b < 3 * ByteSize  BY <3>3 DEF BitPositions, W
    <3>4. CASE 3 * ByteSize <= b  BY <3>4 DEF BitPositions, W
    <3> QED  BY <3>1, <3>2, <3>3, <3>4
  <2>2. \A m \in 0 .. 3 : (b - m * ByteSize) % 2 = b % 2
    BY <2>0
  <2>3. ASSUME b % 2 = 0 PROVE b \in evenBits
    BY <2>1, <2>2, <2>3 DEF evenBits, EvenByte, ShiftLeft
  <2>4. ASSUME b \in evenBits PROVE b % 2 = 0
    BY <2>2, <2>4 DEF evenBits, EvenByte, ShiftLeft
  <2> QED  BY <2>3, <2>4
<1>2. evenBits \subseteq BitPositions
  BY DEF evenBits, ShiftLeft
<1> QED  BY <1>1, <1>2 DEF test_evenBits

(* bits.c:168 is 1 exactly if every even bit of x is set.                  *)
THEOREM AllEvenBitsRight ==
  ASSUME NEW x \in Word
  PROVE  allEvenBits(x) = test_allEvenBits(x)
<1>1. Xor(x \cap evenBits, evenBits) = {} <=> evenBits \subseteq x
  BY DEF Xor, SymDiff
<1>2. evenBits \subseteq x <=> \A b \in BitPositions : b % 2 = 0 => b \in x
  BY EvenBitsRight DEF test_evenBits
<1> QED  BY <1>1, <1>2 DEF allEvenBits, test_allEvenBits, Bang, Truth

(* bits.c:249 copies the least bit to every position.                      *)
THEOREM CopyLSBRight ==
  ASSUME NEW x \in Word
  PROVE  copyLSB(x) = test_copyLSB(x)
<1>1. \A b \in BitPositions : b \in ShiftLeft(x, W - 1) <=> b = W - 1 /\ 0 \in x
  BY Widths DEF ShiftLeft, Word, BitPositions
<1>2. \A b \in BitPositions : b \in copyLSB(x) <=> 0 \in x
  BY <1>1, Widths DEF copyLSB, ShiftRight, Negative, SignBit, BitPositions
<1>3. copyLSB(x) \subseteq BitPositions
  BY DEF copyLSB, ShiftRight
<1> QED  BY <1>2, <1>3 DEF test_copyLSB

(* bits.c:365 is 1 exactly if x and y are equal.                           *)
THEOREM IsEqualRight ==
  ASSUME NEW x \in Word, NEW y \in Word
  PROVE  isEqual(x, y) = test_isEqual(x, y)
<1>1. Xor(x, y) = {} <=> x = y
  BY DEF Xor, SymDiff
<1> QED  BY <1>1 DEF isEqual, test_isEqual, Bang, Truth

(* bits.c:227 sets the bits from lowbit to highbit: neither a shift by     *)
(* none nor one by 31, and no lowbit above highbit, goes wrong.            *)
THEOREM BitMaskRight ==
  ASSUME NEW highbit \in 0 .. W - 1, NEW lowbit \in 0 .. W - 1
  PROVE  bitMask(highbit, lowbit) = test_bitMask(highbit, lowbit)
<1> DEFINE MSB == Not(ShiftLeft({0}, W - 1))
           lowMask == ShiftRight(MSB, (W - 1) + (Complement(lowbit) + 1))
           highMask == ShiftLeft(Not({0}), highbit)
<1>1. \A b \in BitPositions : b \in MSB <=> b # W - 1
  BY Widths DEF Not, ShiftLeft, BitPositions
<1>2. \A b \in BitPositions : b \in lowMask <=> b < lowbit
  <2>1. (W - 1) + (Complement(lowbit) + 1) = (W - 1) - lowbit
    BY Widths DEF Complement
  <2> QED  BY <1>1, <2>1, Widths DEF ShiftRight, Negative, SignBit, BitPositions
<1>3. \A b \in BitPositions : b \in highMask <=> b > highbit
  BY Widths DEF ShiftLeft, Not, BitPositions
<1>4. bitMask(highbit, lowbit) = BitPositions \ (highMask \cup lowMask)
  BY DEF bitMask, Not
<1> HIDE DEF lowMask, highMask
<1>5. \A b : b \in bitMask(highbit, lowbit) <=> b \in lowbit .. highbit
  BY <1>2, <1>3, <1>4, Widths DEF BitPositions
<1> QED  BY <1>5 DEF test_bitMask

(* bits.c:280 extracts byte n: the bits above it and below it are lost.    *)
THEOREM GetByteRight ==
  ASSUME NEW x \in Word, NEW n \in 0 .. 3
  PROVE  getByte(x, n) = test_getByte(x, n)
<1> USE ByteSizeAssumption
<1> DEFINE left == (3 * ByteSize + 1) + Complement(n * ByteSize)
           high == ShiftLeft(x, left)
<1>1. left = 3 * ByteSize - n * ByteSize /\ left \in 0 .. 3 * ByteSize
  BY DEF Complement
<1>2. ASSUME NEW b \in 0 .. ByteSize - 1
      PROVE  b \in ShiftRight(high, 3 * ByteSize) <=> b + n * ByteSize \in x
  <2>1. b + 3 * ByteSize \in BitPositions /\ b \in BitPositions
    BY DEF BitPositions, W
  <2>2. b \in ShiftRight(high, 3 * ByteSize) <=> b + 3 * ByteSize \in high
    BY <2>1 DEF ShiftRight
  <2>3. (b + 3 * ByteSize) - left = b + n * ByteSize
    BY <1>1
  <2>4. b + 3 * ByteSize \in high <=> b + n * ByteSize \in x
    BY <2>1, <2>3 DEF ShiftLeft
  <2> QED  BY <2>2, <2>4
<1> QED  BY <1>2 DEF getByte, test_getByte

(* bits.c:375 is 1 exactly for the negative words.                         *)
THEOREM IsNegativeRight ==
  ASSUME NEW x \in Word
  PROVE  isNegative(x) = test_isNegative(x)
<1>1. 0 \in ShiftRight(x, W - 1) <=> W - 1 \in x
  BY Widths DEF ShiftRight, BitPositions
<1> QED  BY <1>1, Widths DEF isNegative, test_isNegative, Negative, Truth

(* bits.c:415 is 1 exactly for the words above zero.                       *)
THEOREM IsPositiveRight ==
  ASSUME NEW x \in Word
  PROVE  isPositive(x) = test_isPositive(x)
<1> DEFINE top == x \cap ShiftLeft({0}, W - 1)
           msb == ShiftRight(top, W - 1)
<1>1. \A b \in BitPositions : b \in top <=> b = W - 1 /\ W - 1 \in x
  BY Widths DEF ShiftLeft, BitPositions
<1>2. msb = IF W - 1 \in x THEN BitPositions ELSE {}
  BY <1>1, Widths DEF ShiftRight, Negative, SignBit, BitPositions
<1>3. msb \cup Bang(x) = {} <=> W - 1 \notin x /\ x # {}
  BY <1>2, Widths DEF Bang, Truth
<1> QED  BY <1>3, Widths DEF isPositive, test_isPositive, Bang, Truth, Negative

-----------------------------------------------------------------------------
(* Sums over finite sets.  MapThenSumSet is a recursive function: that it  *)
(* exists, and that the order of its choices does not matter, is shown by  *)
(* induction on the size of the set.  The induction is that of < on the    *)
(* natural numbers, applied to the set of numbers for which a fact holds.  *)

LEMMA NatInduct ==
  ASSUME NEW T, 0 \in T, \A n \in Nat : n \in T => n + 1 \in T
  PROVE  \A n \in Nat : n \in T
<1> DEFINE U == {n \in Nat : n \notin T}
           R == OpToRel(<, Nat)
<1> SUFFICES ASSUME U # {} PROVE FALSE
  OBVIOUS
<1>1. IsWellFoundedOn(R, Nat)
  BY NatLessThanWellFounded
<1>2. \A x, y \in Nat : x < y => <<x, y>> \in R
  BY DEF OpToRel
<1> HIDE DEF R
<1>3. PICK x \in U : \A y \in U : ~ (<<y, x>> \in R)
  BY <1>1, WFMin
<1>4. x \in Nat /\ x # 0
  OBVIOUS
<1>5. x - 1 \in Nat /\ x - 1 < x
  BY <1>4
<1>6. x - 1 \notin U
  BY <1>2, <1>3, <1>4, <1>5
<1> QED  BY <1>4, <1>5, <1>6

SumOf(g, S) == MapThenSumSet(LAMBDA k : g[k], S)

Chosen(s) == CHOOSE x \in s : TRUE

(* h adds up g over the subsets of S.                                      *)
Adds(h, g, S) ==
  h = [s \in SUBSET S |-> IF s = {} THEN 0 ELSE g[Chosen(s)] + h[s \ {Chosen(s)}]]

LEMMA SumIsChosen ==
  ASSUME NEW g, NEW S
  PROVE  SumOf(g, S) = (CHOOSE h : Adds(h, g, S))[S]
BY DEF SumOf, MapThenSumSet, MapThenFoldSet, Adds, Chosen

Upto(S, n) == {s \in SUBSET S : Cardinality(s) <= n}

AddsUpto(h, g, S, n) ==
  /\ h \in [Upto(S, n) -> Int]
  /\ \A s \in Upto(S, n) : 
       h[s] = IF s = {} THEN 0 ELSE g[Chosen(s)] + h[s \ {Chosen(s)}]

LEMMA Smaller ==
  ASSUME NEW S, IsFiniteSet(S), NEW s \in SUBSET S
  PROVE  /\ IsFiniteSet(s) /\ Cardinality(s) \in Nat
         /\ (Cardinality(s) = 0 <=> s = {})
         /\ Cardinality(s) <= Cardinality(S)
         /\ s # {} => /\ Chosen(s) \in s
                      /\ s \ {Chosen(s)} \in SUBSET S
                      /\ Cardinality(s \ {Chosen(s)}) = Cardinality(s) - 1
<1>1. IsFiniteSet(s) /\ Cardinality(s) <= Cardinality(S)
  BY FS_Subset
<1>2. Cardinality(s) \in Nat /\ (Cardinality(s) = 0 <=> s = {})
  BY <1>1, FS_CardinalityType, FS_EmptySet
<1>3. ASSUME s # {}
      PROVE  Chosen(s) \in s /\ Cardinality(s \ {Chosen(s)}) = Cardinality(s) - 1
  <2>1. Chosen(s) \in s
    BY <1>3 DEF Chosen
  <2> QED  BY <1>1, <2>1, FS_RemoveElement
<1> QED  BY <1>1, <1>2, <1>3

LEMMA SumExists ==
  ASSUME NEW g, NEW S, IsFiniteSet(S), \A x \in S : g[x] \in Int
  PROVE  \E h : Adds(h, g, S)
<1> DEFINE T == {n \in Nat : \E h : AddsUpto(h, g, S, n)}
<1>1. 0 \in T
  <2> DEFINE h == [s \in Upto(S, 0) |-> 0]
  <2>1. ASSUME NEW s \in Upto(S, 0) PROVE s = {}
    <3>1. s \in SUBSET S /\ Cardinality(s) <= 0
      BY DEF Upto
    <3>2. Cardinality(s) \in Nat /\ (Cardinality(s) = 0 <=> s = {})
      BY <3>1, Smaller
    <3> QED  BY <3>1, <3>2
  <2>2. h \in [Upto(S, 0) -> Int]
    OBVIOUS
  <2>3. \A s \in Upto(S, 0) : h[s] = 0
    OBVIOUS
  <2> HIDE DEF h
  <2>4. AddsUpto(h, g, S, 0)
    BY <2>1, <2>2, <2>3 DEF AddsUpto
  <2> QED  BY <2>4
<1>2. ASSUME NEW n \in Nat, n \in T PROVE n + 1 \in T
  <2>1. PICK h : AddsUpto(h, g, S, n)
    BY <1>2
  <2> DEFINE v(s) == IF s = {} THEN 0 ELSE g[Chosen(s)] + h[s \ {Chosen(s)}]
             k == [s \in Upto(S, n + 1) |-> v(s)]
  <2>2. ASSUME NEW s \in Upto(S, n + 1), s # {}
        PROVE  /\ s \ {Chosen(s)} \in Upto(S, n) /\ Chosen(s) \in S
               /\ h[s \ {Chosen(s)}] \in Int
    <3>1. s \in SUBSET S /\ Cardinality(s) <= n + 1
      BY DEF Upto
    <3>2. /\ s \ {Chosen(s)} \in SUBSET S /\ Chosen(s) \in s
          /\ Cardinality(s) \in Nat
          /\ Cardinality(s \ {Chosen(s)}) = Cardinality(s) - 1
      BY <2>2, <3>1, Smaller
    <3>3. Cardinality(s \ {Chosen(s)}) <= n
      BY <3>1, <3>2
    <3>4. s \ {Chosen(s)} \in Upto(S, n)
      BY <3>2, <3>3 DEF Upto
    <3> QED  BY <2>1, <3>1, <3>2, <3>4 DEF AddsUpto
  <2>3. \A s \in Upto(S, n) : v(s) = h[s]
    BY <2>1 DEF AddsUpto
  <2>4. \A s \in Upto(S, n + 1) : v(s) \in Int
    BY <2>2
  <2>5. k \in [Upto(S, n + 1) -> Int]
    BY <2>4
  <2>6. ASSUME NEW s \in Upto(S, n + 1)
        PROVE  k[s] = IF s = {} THEN 0 ELSE g[Chosen(s)] + k[s \ {Chosen(s)}]
    <3>1. k[s] = v(s)
      OBVIOUS
    <3>2. CASE s = {}  BY <3>1, <3>2
    <3>3. CASE s # {}
      <4> DEFINE r == s \ {Chosen(s)}
      <4>1. r \in Upto(S, n)
        BY <2>2, <3>3
      <4>2. r \in Upto(S, n + 1)
        <5>1. r \in SUBSET S /\ Cardinality(r) <= n
          BY <4>1 DEF Upto
        <5>2. Cardinality(r) \in Nat
          <6> HIDE DEF r
          <6> QED  BY <5>1, Smaller
        <5> QED  BY <5>1, <5>2 DEF Upto
      <4>3. k[r] = v(r)
        BY <4>2
      <4>4. k[r] = h[r]
        BY <2>3, <4>1, <4>3
      <4> QED  BY <3>1, <3>3, <4>4
    <3> QED  BY <3>2, <3>3
  <2> HIDE DEF k
  <2>7. AddsUpto(k, g, S, n + 1)
    BY <2>5, <2>6 DEF AddsUpto
  <2> QED  BY <2>7
<1> HIDE DEF T
<1>3. Cardinality(S) \in T
  <2>1. Cardinality(S) \in Nat  BY FS_CardinalityType
  <2>2. \A n \in Nat : n \in T  BY <1>1, <1>2, NatInduct
  <2> QED  BY <2>1, <2>2
<1>4. PICK h : AddsUpto(h, g, S, Cardinality(S))
  BY <1>3 DEF T
<1>5. Upto(S, Cardinality(S)) = SUBSET S
  BY Smaller DEF Upto
<1>6. Adds(h, g, S)
  BY <1>4, <1>5 DEF AddsUpto, Adds
<1> QED  BY <1>6

(* What adds up does so in integers, and there is only one.                *)
Unfolds(h, g, s) == h[s] = g[Chosen(s)] + h[s \ {Chosen(s)}]

LEMMA SumRule ==
  ASSUME NEW g, NEW S, NEW h, Adds(h, g, S)
  PROVE  h[{}] = 0 /\ \A s \in SUBSET S : s # {} => Unfolds(h, g, s)
BY DEF Adds, Unfolds

LEMMA SumUnique ==
  ASSUME NEW g, NEW S, IsFiniteSet(S), \A x \in S : g[x] \in Int,
         NEW R \in SUBSET S, NEW h, Adds(h, g, S), NEW k, Adds(k, g, R),
         NEW s \in SUBSET R
  PROVE  k[s] \in Int /\ k[s] = h[s]
<1> DEFINE T == {n \in Nat : \A r \in SUBSET R :
                   Cardinality(r) = n => k[r] \in Int /\ k[r] = h[r]}
<1>0. IsFiniteSet(R)
  BY FS_Subset
<1>1. 0 \in T
  <2> SUFFICES ASSUME NEW r \in SUBSET R, Cardinality(r) = 0
               PROVE  k[r] \in Int /\ k[r] = h[r]
    OBVIOUS
  <2>1. r = {}
    BY <1>0, Smaller
  <2> QED  BY <2>1, SumRule
<1>2. ASSUME NEW n \in Nat, n \in T PROVE n + 1 \in T
  <2> SUFFICES ASSUME NEW r \in SUBSET R, Cardinality(r) = n + 1
               PROVE  k[r] \in Int /\ k[r] = h[r]
    OBVIOUS
  <2> DEFINE c == Chosen(r)
             q == r \ {Chosen(r)}
  <2>1. /\ r # {} /\ c \in r /\ q \in SUBSET R
        /\ Cardinality(q) = Cardinality(r) - 1
    BY <1>0, Smaller
  <2>2. k[q] \in Int /\ k[q] = h[q]
    BY <1>2, <2>1
  <2>3. k[r] = g[c] + k[q]
    <3>1. Unfolds(k, g, r)
      BY <2>1, SumRule
    <3> QED  BY <3>1 DEF Unfolds
  <2>a. h[r] = g[c] + h[q]
    <3>1. r \in SUBSET S
      OBVIOUS
    <3>2. Unfolds(h, g, r)
      BY <2>1, <3>1, SumRule
    <3> QED  BY <3>2 DEF Unfolds
  <2>4. g[c] \in Int
    BY <2>1
  <2> QED  BY <2>2, <2>3, <2>a, <2>4
<1> HIDE DEF T
<1>3. Cardinality(s) \in Nat
  BY <1>0, Smaller
<1>4. Cardinality(s) \in T
  <2>1. \A n \in Nat : n \in T
    BY <1>1, <1>2, NatInduct
  <2> QED  BY <1>3, <2>1
<1> QED  BY <1>4 DEF T

(* The sum over a subset is what adds up over the whole set says of it.    *)
LEMMA SumOfSubset ==
  ASSUME NEW g, NEW S, IsFiniteSet(S), \A x \in S : g[x] \in Int,
         NEW h, Adds(h, g, S), NEW R \in SUBSET S
  PROVE  SumOf(g, R) \in Int /\ SumOf(g, R) = h[R]
<1>1. IsFiniteSet(R) /\ \A x \in R : g[x] \in Int
  BY FS_Subset
<1>2. \E k : Adds(k, g, R)
  BY <1>1, SumExists
<1> DEFINE k == CHOOSE k : Adds(k, g, R)
<1>3. Adds(k, g, R)
  BY <1>2
<1>4. SumOf(g, R) = k[R]
  BY SumIsChosen
<1> HIDE DEF k
<1>5. R \in SUBSET R
  OBVIOUS
<1>6. k[R] \in Int /\ k[R] = h[R]
  BY <1>3, <1>5, SumUnique
<1> QED  BY <1>4, <1>6

LEMMA SumEmpty == ASSUME NEW g PROVE SumOf(g, {}) = 0
<1>1. IsFiniteSet({}) /\ \A x \in {} : g[x] \in Int
  BY FS_EmptySet
<1>2. PICK h : Adds(h, g, {})
  BY <1>1, SumExists
<1>3. SumOf(g, {}) = h[{}]
  BY <1>1, <1>2, SumOfSubset
<1> QED  BY <1>2, <1>3, SumRule

(* It does not matter which element is taken first.                        *)
LEMMA SumRemoves ==
  ASSUME NEW g, NEW S, IsFiniteSet(S), \A x \in S : g[x] \in Int,
         NEW x \in S
  PROVE  /\ SumOf(g, S) \in Int /\ SumOf(g, S \ {x}) \in Int
         /\ SumOf(g, S) = g[x] + SumOf(g, S \ {x})
<1>1. PICK h : Adds(h, g, S)
  BY SumExists
<1>2. \A r \in SUBSET S : h[r] \in Int
  BY <1>1, SumUnique
<1> DEFINE T == {n \in Nat : \A s \in SUBSET S : \A y \in s :
                   Cardinality(s) = n => h[s] = g[y] + h[s \ {y}]}
<1>3. 0 \in T
  BY Smaller
<1>4. ASSUME NEW n \in Nat, n \in T PROVE n + 1 \in T
  <2> SUFFICES ASSUME NEW s \in SUBSET S, NEW y \in s, Cardinality(s) = n + 1
               PROVE  h[s] = g[y] + h[s \ {y}]
    OBVIOUS
  <2> DEFINE c == Chosen(s)
  <2>1. s # {} /\ c \in s /\ h[s] = g[c] + h[s \ {c}]
    <3>1. s # {} /\ c \in s
      BY DEF Chosen
    <3>2. Unfolds(h, g, s)
      BY <1>1, <3>1, SumRule
    <3> QED  BY <3>1, <3>2 DEF Unfolds
  <2>2. CASE y = c  BY <2>1, <2>2
  <2>3. CASE y # c
    <3> HIDE DEF c
    <3>1. /\ s \ {c} \in SUBSET S /\ s \ {y} \in SUBSET S
          /\ y \in s \ {c} /\ c \in s \ {y}
          /\ (s \ {c}) \ {y} = (s \ {y}) \ {c}
          /\ (s \ {y}) \ {c} \in SUBSET S
      BY <2>1, <2>3
    <3>2. Cardinality(s \ {c}) = n /\ Cardinality(s \ {y}) = n
      <4>1. IsFiniteSet(s)  BY FS_Subset
      <4>2. \A e \in s : Cardinality(s \ {e}) = Cardinality(s) - 1
        BY <4>1, FS_RemoveElement
      <4>3. Cardinality(s \ {c}) = (n + 1) - 1 /\ Cardinality(s \ {y}) = (n + 1) - 1
        BY <2>1, <4>2
      <4> QED  BY <4>3
    <3>a. ASSUME NEW t \in SUBSET S, NEW z \in t, Cardinality(t) = n
          PROVE  h[t] = g[z] + h[t \ {z}]
      BY <1>4, <3>a
    <3>3. /\ h[s \ {c}] = g[y] + h[(s \ {y}) \ {c}]
          /\ h[s \ {y}] = g[c] + h[(s \ {y}) \ {c}]
      <4>1. h[s \ {c}] = g[y] + h[(s \ {c}) \ {y}]
        BY <3>1, <3>2, <3>a
      <4>2. h[s \ {y}] = g[c] + h[(s \ {y}) \ {c}]
        BY <3>1, <3>2, <3>a
      <4> QED  BY <3>1, <4>1, <4>2
    <3>4. /\ g[y] \in Int /\ g[c] \in Int
          /\ h[(s \ {y}) \ {c}] \in Int
      BY <1>2, <2>1, <3>1
    <3> QED  BY <2>1, <3>3, <3>4
  <2> QED  BY <2>2, <2>3
<1> HIDE DEF T
<1>5. Cardinality(S) \in T
  <2>1. Cardinality(S) \in Nat  BY FS_CardinalityType
  <2>2. \A n \in Nat : n \in T  BY <1>3, <1>4, NatInduct
  <2> QED  BY <2>1, <2>2
<1>6. h[S] = g[x] + h[S \ {x}]
  BY <1>5 DEF T
<1>7. /\ SumOf(g, S) = h[S] /\ SumOf(g, S \ {x}) = h[S \ {x}]
      /\ h[S] \in Int /\ h[S \ {x}] \in Int
  <2>1. S \in SUBSET S /\ S \ {x} \in SUBSET S  OBVIOUS
  <2> QED  BY <1>1, <1>2, <2>1, SumOfSubset
<1> QED  BY <1>6, <1>7

-----------------------------------------------------------------------------
(* Powers of two.  Like a sum, the recursive function has to be shown to   *)
(* exist: g doubles up to n.                                               *)

Doubles(g, n) ==
  /\ g \in [0 .. n -> Nat] /\ g[0] = 1
  /\ \A k \in 1 .. n : g[k] = 2 * g[k - 1]

LEMMA DoublesExists == \A n \in Nat : \E g : Doubles(g, n)
<1> DEFINE T == {n \in Nat : \E g : Doubles(g, n)}
<1>1. 0 \in T
  <2>1. Doubles([k \in 0 .. 0 |-> 1], 0)
    BY DEF Doubles
  <2> QED  BY <2>1
<1>2. ASSUME NEW n \in Nat, n \in T PROVE n + 1 \in T
  <2>1. PICK g : Doubles(g, n)
    BY <1>2
  <2> DEFINE h == [k \in 0 .. n + 1 |-> IF k <= n THEN g[k] ELSE 2 * g[n]]
  <2>2. g[n] \in Nat /\ \A k \in 0 .. n : g[k] \in Nat
    BY <2>1 DEF Doubles
  <2>3. h \in [0 .. n + 1 -> Nat]
    BY <2>2
  <2>4. \A k \in 0 .. n + 1 : h[k] = IF k <= n THEN g[k] ELSE 2 * g[n]
    OBVIOUS
  <2> HIDE DEF h
  <2>5. h[0] = 1
    BY <2>1, <2>4 DEF Doubles
  <2>6. ASSUME NEW k \in 1 .. n + 1 PROVE h[k] = 2 * h[k - 1]
    <3>1. k - 1 \in 0 .. n /\ h[k - 1] = g[k - 1]
      BY <2>4
    <3>2. CASE k <= n
      <4>1. h[k] = g[k] /\ g[k] = 2 * g[k - 1]
        BY <2>1, <2>4, <3>2 DEF Doubles
      <4> QED  BY <3>1, <4>1
    <3>3. CASE k = n + 1
      <4>1. h[k] = 2 * g[n] /\ k - 1 = n
        BY <2>4, <3>3
      <4> QED  BY <3>1, <4>1
    <3> QED  BY <3>2, <3>3
  <2>7. Doubles(h, n + 1)
    BY <2>3, <2>5, <2>6 DEF Doubles
  <2> QED  BY <2>7
<1> HIDE DEF T
<1>3. \A n \in Nat : n \in T
  BY <1>1, <1>2, NatInduct
<1> QED  BY <1>3 DEF T

LEMMA DoublesUnique ==
  ASSUME NEW g, NEW n \in Nat, Doubles(g, n), NEW h, NEW m \in Nat, Doubles(h, m)
  PROVE  \A k \in 0 .. n : k <= m => g[k] = h[k]
<1> DEFINE T == {k \in Nat : k <= n /\ k <= m => g[k] = h[k]}
<1>1. 0 \in T
  BY DEF Doubles
<1>2. ASSUME NEW k \in Nat, k \in T PROVE k + 1 \in T
  <2> SUFFICES ASSUME k + 1 <= n, k + 1 <= m PROVE g[k + 1] = h[k + 1]
    OBVIOUS
  <2>1. g[k] = h[k]
    BY <1>2
  <2>2. k + 1 \in 1 .. n /\ k + 1 \in 1 .. m /\ (k + 1) - 1 = k
    OBVIOUS
  <2>3. g[k + 1] = 2 * g[k] /\ h[k + 1] = 2 * h[k]
    BY <2>2 DEF Doubles
  <2> QED  BY <2>1, <2>3
<1> HIDE DEF T
<1>3. \A k \in Nat : k \in T
  BY <1>1, <1>2, NatInduct
<1> QED  BY <1>3 DEF T

LEMMA Powers ==
  /\ Pow2[0] = 1
  /\ \A n \in Nat : Pow2[n] \in Nat \ {0} /\ Pow2[n + 1] = 2 * Pow2[n]
<1> DEFINE G(n) == CHOOSE g : Doubles(g, n)
           IsPow2(f) == f = [n \in Nat |-> IF n = 0 THEN 1 ELSE 2 * f[n - 1]]
           f == [n \in Nat |-> G(n)[n]]
<1>1. \A n \in Nat : Doubles(G(n), n)
  BY DoublesExists
<1> HIDE DEF G
<1>2. \A n \in Nat : f[n] = G(n)[n]
  OBVIOUS
<1>a. DOMAIN f = Nat /\ f = [n \in Nat |-> f[n]]
  OBVIOUS
<1> HIDE DEF f
<1>3. f[0] = 1
  <2>1. Doubles(G(0), 0)
    BY <1>1
  <2> QED  BY <1>2, <2>1 DEF Doubles
<1>4. ASSUME NEW n \in Nat PROVE f[n + 1] = 2 * f[n]
  <2>1. Doubles(G(n), n) /\ Doubles(G(n + 1), n + 1)
    BY <1>1
  <2>2. n + 1 \in 1 .. n + 1 /\ (n + 1) - 1 = n /\ n \in 0 .. n /\ n <= n + 1
    OBVIOUS
  <2>3. G(n + 1)[n + 1] = 2 * G(n + 1)[n]
    BY <2>1, <2>2 DEF Doubles
  <2>4. G(n)[n] = G(n + 1)[n]
    BY <2>1, <2>2, DoublesUnique
  <2> QED  BY <1>2, <2>3, <2>4
<1>5. IsPow2(f)
  <2>1. ASSUME NEW n \in Nat PROVE f[n] = IF n = 0 THEN 1 ELSE 2 * f[n - 1]
    <3>1. CASE n = 0  BY <1>3, <3>1
    <3>2. CASE n # 0
      <4>1. n - 1 \in Nat /\ (n - 1) + 1 = n
        BY <3>2
      <4> QED  BY <1>4, <3>2, <4>1
    <3> QED  BY <3>1, <3>2
  <2> QED  BY <1>a, <2>1
<1>6. IsPow2(Pow2)
  <2>1. Pow2 = CHOOSE h : IsPow2(h)
    BY DEF Pow2
  <2> HIDE DEF IsPow2
  <2> QED  BY <1>5, <2>1
<1>7. Pow2[0] = 1 /\ \A n \in Nat : Pow2[n + 1] = 2 * Pow2[n]
  <2>1. \A n \in Nat : Pow2[n] = IF n = 0 THEN 1 ELSE 2 * Pow2[n - 1]
    BY <1>6
  <2>2. ASSUME NEW n \in Nat PROVE Pow2[n + 1] = 2 * Pow2[n]
    <3>1. n + 1 \in Nat /\ n + 1 # 0 /\ (n + 1) - 1 = n
      OBVIOUS
    <3> QED  BY <2>1, <3>1
  <2> QED  BY <2>1, <2>2
<1> DEFINE T == {n \in Nat : Pow2[n] \in Nat \ {0}}
<1>8. 0 \in T /\ \A n \in Nat : n \in T => n + 1 \in T
  BY <1>7
<1> HIDE DEF T
<1>9. \A n \in Nat : n \in T
  BY <1>8, NatInduct
<1> QED  BY <1>7, <1>9 DEF T

LEMMA PowersAdd ==
  \A m \in Nat, n \in Nat : Pow2[m + n] = Pow2[m] * Pow2[n]
<1> SUFFICES ASSUME NEW m \in Nat
             PROVE  \A n \in Nat : Pow2[m + n] = Pow2[m] * Pow2[n]
  OBVIOUS
<1> DEFINE T == {n \in Nat : Pow2[m + n] = Pow2[m] * Pow2[n]}
<1>1. 0 \in T
  <2>1. Pow2[m] \in Nat /\ Pow2[0] = 1
    BY Powers
  <2>2. Pow2[m] * 1 = Pow2[m] /\ m + 0 = m
    BY <2>1
  <2> QED  BY <2>1, <2>2
<1>2. ASSUME NEW n \in Nat, n \in T PROVE n + 1 \in T
  <2>1. Pow2[m + n] = Pow2[m] * Pow2[n]
    BY <1>2
  <2>2. m + (n + 1) = (m + n) + 1 /\ m + n \in Nat
    OBVIOUS
  <2>3. Pow2[(m + n) + 1] = 2 * Pow2[m + n] /\ Pow2[n + 1] = 2 * Pow2[n]
    BY <2>2, Powers
  <2> DEFINE a == Pow2[m]
             b == Pow2[n]
  <2>4. a \in Nat /\ b \in Nat
    BY Powers
  <2> HIDE DEF a, b
  <2>5. 2 * (a * b) = a * (2 * b)
    BY <2>4
  <2> QED  BY <2>1, <2>2, <2>3, <2>5 DEF a, b
<1> HIDE DEF T
<1>3. \A n \in Nat : n \in T
  BY <1>1, <1>2, NatInduct
<1> QED  BY <1>3 DEF T

LEMMA PowersGrow ==
  ASSUME NEW m \in Nat, NEW n \in Nat, m <= n
  PROVE  Pow2[m] <= Pow2[n]
<1>1. n - m \in Nat /\ m + (n - m) = n
  OBVIOUS
<1>2. Pow2[n] = Pow2[m] * Pow2[n - m]
  BY <1>1, PowersAdd
<1> DEFINE a == Pow2[m]
           b == Pow2[n - m]
<1>3. a \in Nat /\ b \in Nat /\ b >= 1
  BY <1>1, Powers
<1> HIDE DEF a, b
<1>4. a * (b - 1) >= 0 /\ a * (b - 1) = a * b - a
  BY <1>3, SMTT(20)
<1>5. a <= a * b
  BY <1>3, <1>4
<1> QED  BY <1>2, <1>5 DEF a, b

-----------------------------------------------------------------------------
(* Words as numbers.  Below(n) has the words of n bits.                    *)

Below(n) == SUBSET (0 .. n - 1)

LEMMA BelowFinite ==
  ASSUME NEW n \in Nat, NEW x \in Below(n)
  PROVE  /\ IsFiniteSet(x) /\ x \subseteq Nat
         /\ \A b \in x : Pow2[b] \in Int
         /\ \A y \in SUBSET x : y \in Below(n)
<1>1. IsFiniteSet(0 .. n - 1)
  <2>1. 0 \in Int /\ n - 1 \in Int
    OBVIOUS
  <2> QED  BY <2>1, FS_Interval
<1>2. x \in SUBSET (0 .. n - 1)
  BY DEF Below
<1>3. IsFiniteSet(x)
  BY <1>1, <1>2, FS_Subset
<1>4. x \subseteq Nat
  BY <1>2
<1> QED  BY <1>2, <1>3, <1>4, Powers DEF Below

LEMMA UnsignedEmpty == Unsigned({}) = 0
<1>1. Unsigned({}) = SumOf(Pow2, {})
  BY DEF Unsigned, SumOf
<1> QED  BY <1>1, SumEmpty

LEMMA UnsignedTakes ==
  ASSUME NEW n \in Nat, NEW x \in Below(n), NEW b \in x
  PROVE  /\ Unsigned(x) \in Int /\ Unsigned(x \ {b}) \in Int
         /\ Unsigned(x) = Pow2[b] + Unsigned(x \ {b})
<1>1. IsFiniteSet(x) /\ \A c \in x : Pow2[c] \in Int
  BY BelowFinite
<1>2. Unsigned(x) = SumOf(Pow2, x) /\ Unsigned(x \ {b}) = SumOf(Pow2, x \ {b})
  BY DEF Unsigned, SumOf
<1> QED  BY <1>1, <1>2, SumRemoves

(* A word of n + 1 bits without the last.                                  *)
LEMMA BelowNext ==
  ASSUME NEW n \in Nat, NEW x \in Below(n + 1)
  PROVE  /\ x \ {n} \in Below(n)
         /\ n \notin x => x \in Below(n)
         /\ n \in x => Unsigned(x) = Pow2[n] + Unsigned(x \ {n})
<1>1. x \ {n} \in Below(n)
  BY DEF Below
<1>2. n \notin x => x \ {n} = x
  OBVIOUS
<1>3. n + 1 \in Nat
  OBVIOUS
<1>4. n \in x => Unsigned(x) = Pow2[n] + Unsigned(x \ {n})
  BY <1>3, UnsignedTakes
<1> QED  BY <1>1, <1>2, <1>4

LEMMA UnsignedRange ==
  \A n \in Nat : \A x \in Below(n) : Unsigned(x) \in 0 .. Pow2[n] - 1
<1> DEFINE T == {n \in Nat : \A x \in Below(n) : Unsigned(x) \in 0 .. Pow2[n] - 1}
<1>1. 0 \in T
  <2>1. \A x \in Below(0) : x = {}
    BY DEF Below
  <2>2. Unsigned({}) \in 0 .. Pow2[0] - 1
    <3>1. Unsigned({}) = 0 /\ Pow2[0] = 1
      BY UnsignedEmpty, Powers
    <3> QED  BY <3>1
  <2> QED  BY <2>1, <2>2
<1>2. ASSUME NEW n \in Nat, n \in T PROVE n + 1 \in T
  <2> SUFFICES ASSUME NEW x \in Below(n + 1) PROVE Unsigned(x) \in 0 .. Pow2[n + 1] - 1
    OBVIOUS
  <2>1. Pow2[n] \in Nat \ {0} /\ Pow2[n + 1] = 2 * Pow2[n]
    BY Powers
  <2>2. \A y \in Below(n) : Unsigned(y) \in 0 .. Pow2[n] - 1
    BY <1>2
  <2>3. CASE n \in x
    <3>1. Unsigned(x \ {n}) \in 0 .. Pow2[n] - 1
      BY <2>2, BelowNext
    <3>2. Unsigned(x) = Pow2[n] + Unsigned(x \ {n})
      BY <2>3, BelowNext
    <3> QED  BY <2>1, <3>1, <3>2
  <2>4. CASE n \notin x
    <3>1. Unsigned(x) \in 0 .. Pow2[n] - 1
      BY <2>2, <2>4, BelowNext
    <3> QED  BY <2>1, <3>1
  <2> QED  BY <2>3, <2>4
<1> HIDE DEF T
<1>3. \A n \in Nat : n \in T
  BY <1>1, <1>2, NatInduct
<1> QED  BY <1>3 DEF T

LEMMA UnsignedType ==
  ASSUME NEW n \in Nat, NEW x \in Below(n)
  PROVE  Unsigned(x) \in Nat
<1>1. Pow2[n] \in Nat
  BY Powers
<1>2. Unsigned(x) \in 0 .. Pow2[n] - 1
  BY UnsignedRange
<1> QED  BY <1>1, <1>2

(* Words without a common bit.                                             *)
LEMMA UnsignedAdds ==
  \A n \in Nat : \A x, y \in Below(n) :
     x \cap y = {} => Unsigned(x \cup y) = Unsigned(x) + Unsigned(y)
<1> DEFINE Ok(x, y) ==
      x \cap y = {} => Unsigned(x \cup y) = Unsigned(x) + Unsigned(y)
           T == {n \in Nat : \A x, y \in Below(n) : Ok(x, y)}
<1>1. 0 \in T
  <2>1. \A x \in Below(0) : x = {}
    BY DEF Below
  <2>2. {} \cup {} = {} /\ 0 + 0 = 0
    OBVIOUS
  <2> QED  BY <2>1, <2>2, UnsignedEmpty
<1>2. ASSUME NEW n \in Nat, n \in T PROVE n + 1 \in T
  <2> SUFFICES ASSUME NEW x \in Below(n + 1), NEW y \in Below(n + 1), x \cap y = {}
               PROVE  Unsigned(x \cup y) = Unsigned(x) + Unsigned(y)
    BY DEF Ok
  <2>0. x \cup y \in Below(n + 1)
    BY DEF Below
  <2>1. x \ {n} \in Below(n) /\ y \ {n} \in Below(n)
    BY BelowNext
  <2> DEFINE p == Pow2[n]
             a == Unsigned(x \ {n})
             b == Unsigned(y \ {n})
  <2>2. Unsigned((x \ {n}) \cup (y \ {n})) = a + b
    <3>1. (x \ {n}) \cap (y \ {n}) = {}
      OBVIOUS
    <3>2. \A u, v \in Below(n) : Ok(u, v)
      BY <1>2
    <3> QED  BY <2>1, <3>1, <3>2
  <2>3. (x \ {n}) \cup (y \ {n}) = (x \cup y) \ {n}
    OBVIOUS
  <2>4. a \in Nat /\ b \in Nat /\ p \in Nat
    BY <2>1, UnsignedType, Powers
  <2>5. Unsigned((x \cup y) \ {n}) = a + b
    BY <2>2, <2>3
  <2>6. /\ n \in x => Unsigned(x) = p + a
        /\ n \in y => Unsigned(y) = p + b
        /\ n \in x \cup y => Unsigned(x \cup y) = p + Unsigned((x \cup y) \ {n})
    BY <2>0, BelowNext
  <2>7. /\ n \notin x => Unsigned(x) = a
        /\ n \notin y => Unsigned(y) = b
        /\ n \notin x \cup y => Unsigned(x \cup y) = Unsigned((x \cup y) \ {n})
    <3>1. \A z : n \notin z => z = z \ {n}
      OBVIOUS
    <3> QED  BY <3>1
  <2> HIDE DEF p, a, b
  <2>8. CASE n \in x
    <3>1. n \notin y /\ n \in x \cup y
      BY <2>8
    <3> QED  BY <2>4, <2>5, <2>6, <2>7, <2>8, <3>1
  <2>9. CASE n \in y
    <3>1. n \notin x /\ n \in x \cup y
      BY <2>9
    <3> QED  BY <2>4, <2>5, <2>6, <2>7, <2>9, <3>1
  <2>10. CASE n \notin x \cup y
    <3>1. n \notin x /\ n \notin y
      BY <2>10
    <3> QED  BY <2>4, <2>5, <2>6, <2>7, <2>10, <3>1
  <2> QED  BY <2>8, <2>9, <2>10
<1> HIDE DEF T
<1>3. \A n \in Nat : n \in T
  BY <1>1, <1>2, NatInduct
<1> QED  BY <1>3 DEF T, Ok

LEMMA UnsignedOne ==
  ASSUME NEW b \in Nat PROVE Unsigned({b}) = Pow2[b]
<1>1. {b} \in Below(b + 1) /\ b + 1 \in Nat
  BY DEF Below
<1>2. Unsigned({b}) = Pow2[b] + Unsigned({b} \ {b})
  BY <1>1, UnsignedTakes
<1>3. {b} \ {b} = {} /\ Pow2[b] \in Nat
  BY Powers
<1> QED  BY <1>2, <1>3, UnsignedEmpty

LEMMA UnsignedFull ==
  \A n \in Nat : Unsigned(0 .. n - 1) = Pow2[n] - 1
<1> DEFINE T == {n \in Nat : Unsigned(0 .. n - 1) = Pow2[n] - 1}
<1>1. 0 \in T
  <2>1. 0 .. 0 - 1 = {}
    OBVIOUS
  <2> QED  BY <2>1, UnsignedEmpty, Powers
<1>2. ASSUME NEW n \in Nat, n \in T PROVE n + 1 \in T
  <2>1. Unsigned(0 .. n - 1) = Pow2[n] - 1
    BY <1>2
  <2> DEFINE x == 0 .. (n + 1) - 1
  <2>2. x \in Below(n + 1) /\ n \in x /\ x \ {n} = 0 .. n - 1
    BY DEF Below
  <2>3. Unsigned(x) = Pow2[n] + Unsigned(x \ {n})
    <3> HIDE DEF x
    <3> QED  BY <2>2, BelowNext
  <2>4. Pow2[n] \in Nat /\ Pow2[n + 1] = 2 * Pow2[n]
    BY Powers
  <2>5. Unsigned(x) = Pow2[n] + Unsigned(0 .. n - 1)
    BY <2>2, <2>3
  <2> HIDE DEF x
  <2>6. Unsigned(x) = Pow2[n + 1] - 1
    BY <2>1, <2>4, <2>5
  <2> QED  BY <2>6 DEF x
<1> HIDE DEF T
<1>3. \A n \in Nat : n \in T
  BY <1>1, <1>2, NatInduct
<1> QED  BY <1>3 DEF T

(* The word y shifted by k bits.                                           *)
Raised(y, k) == {b + k : b \in y}

LEMMA UnsignedRaised ==
  \A k \in Nat, n \in Nat : \A y \in Below(n) :
     Unsigned(Raised(y, k)) = Pow2[k] * Unsigned(y)
<1> SUFFICES ASSUME NEW k \in Nat
             PROVE  \A n \in Nat : \A y \in Below(n) :
                       Unsigned(Raised(y, k)) = Pow2[k] * Unsigned(y)
  OBVIOUS
<1> DEFINE T == {n \in Nat : \A y \in Below(n) :
                   Unsigned(Raised(y, k)) = Pow2[k] * Unsigned(y)}
<1>1. 0 \in T
  <2>1. \A y \in Below(0) : y = {}
    BY DEF Below
  <2>2. Raised({}, k) = {}
    BY DEF Raised
  <2>3. Pow2[k] * 0 = 0
    <3>1. Pow2[k] \in Nat
      BY Powers
    <3> QED  BY <3>1
  <2> QED  BY <2>1, <2>2, <2>3, UnsignedEmpty
<1>2. ASSUME NEW n \in Nat, n \in T PROVE n + 1 \in T
  <2> SUFFICES ASSUME NEW y \in Below(n + 1)
               PROVE  Unsigned(Raised(y, k)) = Pow2[k] * Unsigned(y)
    OBVIOUS
  <2>1. \A z \in Below(n) : Unsigned(Raised(z, k)) = Pow2[k] * Unsigned(z)
    BY <1>2
  <2>2. CASE n \notin y
    BY <2>1, <2>2, BelowNext
  <2>3. CASE n \in y
    <3>1. y \ {n} \in Below(n) /\ Unsigned(y) = Pow2[n] + Unsigned(y \ {n})
      BY <2>3, BelowNext
    <3>2. /\ Raised(y, k) \in Below((n + k) + 1)
          /\ n + k \in Raised(y, k)
          /\ Raised(y, k) \ {n + k} = Raised(y \ {n}, k)
      BY <2>3 DEF Raised, Below
    <3>3. n + k \in Nat
      OBVIOUS
    <3>4. Unsigned(Raised(y, k)) = Pow2[n + k] + Unsigned(Raised(y \ {n}, k))
      BY <3>2, <3>3, BelowNext
    <3>5. Unsigned(Raised(y \ {n}, k)) = Pow2[k] * Unsigned(y \ {n})
      BY <2>1, <3>1
    <3>6. Pow2[n + k] = Pow2[n] * Pow2[k]
      BY PowersAdd
    <3> DEFINE p == Pow2[n]
               q == Pow2[k]
               u == Unsigned(y \ {n})
    <3>7. p \in Nat /\ q \in Nat /\ u \in Nat
      BY <3>1, Powers, UnsignedType
    <3> HIDE DEF p, q, u
    <3>8. p * q + q * u = q * (p + u)
      BY <3>7
    <3> QED  BY <3>1, <3>4, <3>5, <3>6, <3>8 DEF p, q, u
  <2> QED  BY <2>2, <2>3
<1> HIDE DEF T
<1>3. \A n \in Nat : n \in T
  BY <1>1, <1>2, NatInduct
<1> QED  BY <1>3 DEF T

LEMMA TimesGrows ==
  ASSUME NEW n \in Nat, NEW a \in Int, NEW b \in Int, a <= b
  PROVE  n * a <= n * b /\ n * a \in Int /\ n * b \in Int
<1>1. n * (b - a) >= 0 /\ n * (b - a) = n * b - n * a
  BY SMTT(20)
<1> QED  BY <1>1

LEMMA RemainderIs ==
  ASSUME NEW r \in Nat \ {0}, NEW m \in Int, NEW a \in 0 .. r - 1
  PROVE  (r * m + a) \div r = m /\ (r * m + a) % r = a
<1> DEFINE x == r * m + a
           k == x \div r
           b == x % r
<1>1. x \in Int
  OBVIOUS
<1> HIDE DEF x
<1>2. x = r * k + b /\ b \in 0 .. r - 1 /\ k \in Int
  BY <1>1, SMTT(30)
<1>3. x = r * m + a
  BY DEF x
<1> HIDE DEF k, b
<1>4. r * (k - m) = a - b
  BY <1>2, <1>3, SMTT(30)
<1>5. ~ k - m >= 1
  <2> SUFFICES ASSUME k - m >= 1 PROVE FALSE
    OBVIOUS
  <2>1. r * 1 <= r * (k - m)
    BY <1>2, TimesGrows
  <2> QED  BY <1>2, <1>4, <2>1
<1>6. ~ k - m <= -1
  <2> SUFFICES ASSUME k - m <= -1 PROVE FALSE
    OBVIOUS
  <2>1. r * (k - m) <= r * (-1)
    BY <1>2, TimesGrows
  <2> QED  BY <1>2, <1>4, <2>1
<1>7. k = m
  BY <1>2, <1>5, <1>6
<1>8. b = a
  BY <1>2, <1>4, <1>7, SMTT(30)
<1> QED  BY <1>7, <1>8 DEF k, b, x

LEMMA EvenOdd ==
  ASSUME NEW m \in Int, NEW c \in {0, 1}
  PROVE  (2 * m + c) % 2 = c
<1>1. 2 \in Nat \ {0} /\ c \in 0 .. 2 - 1
  OBVIOUS
<1> QED  BY <1>1, RemainderIs

(* The low b bits of a word, and the others, moved down.                   *)
Low(x, b) == x \cap (0 .. b - 1)
High(x, b) == {c \in Nat : c + b \in x}

LEMMA UnsignedSplits ==
  ASSUME NEW n \in Nat, NEW x \in Below(n), NEW b \in 0 .. n
  PROVE  /\ Low(x, b) \in Below(b) /\ High(x, b) \in Below(n - b)
         /\ Unsigned(x) = Unsigned(Low(x, b)) + Pow2[b] * Unsigned(High(x, b))
<1>1. Low(x, b) \in Below(b)
  BY DEF Low, Below
<1>2. High(x, b) \in Below(n - b)
  <2>1. ASSUME NEW c \in High(x, b) PROVE c \in 0 .. (n - b) - 1
    <3>1. c \in Nat /\ c + b \in 0 .. n - 1
      BY DEF High, Below
    <3> QED  BY <3>1
  <2> QED  BY <2>1 DEF Below
<1>3. /\ x = Low(x, b) \cup Raised(High(x, b), b)
      /\ Low(x, b) \cap Raised(High(x, b), b) = {}
  <2>1. ASSUME NEW c \in x PROVE c \in Low(x, b) \cup Raised(High(x, b), b)
    <3>1. c \in 0 .. n - 1
      BY DEF Below
    <3>2. CASE c < b  BY <3>1, <3>2 DEF Low
    <3>3. CASE c >= b
      <4>1. c - b \in Nat /\ (c - b) + b = c
        BY <3>1, <3>3
      <4> QED  BY <4>1 DEF High, Raised
    <3> QED  BY <3>1, <3>2, <3>3
  <2>2. Raised(High(x, b), b) \subseteq x
    BY DEF Raised, High
  <2>3. \A c \in Raised(High(x, b), b) : c >= b
    BY DEF Raised, High
  <2> QED  BY <2>1, <2>2, <2>3 DEF Low
<1>4. Low(x, b) \in Below(n) /\ Raised(High(x, b), b) \in Below(n)
  BY <1>3 DEF Below
<1>5. Unsigned(x) = Unsigned(Low(x, b)) + Unsigned(Raised(High(x, b), b))
  <2>1. Unsigned(Low(x, b) \cup Raised(High(x, b), b))
          = Unsigned(Low(x, b)) + Unsigned(Raised(High(x, b), b))
    BY <1>3, <1>4, UnsignedAdds
  <2> QED  BY <1>3, <2>1
<1>6. Unsigned(Raised(High(x, b), b)) = Pow2[b] * Unsigned(High(x, b))
  <2>1. b \in Nat /\ n - b \in Nat
    OBVIOUS
  <2> QED  BY <1>2, <2>1, UnsignedRaised
<1> QED  BY <1>1, <1>2, <1>5, <1>6

LEMMA WordIsBelow == Word = Below(W) /\ W \in Nat /\ BitPositions \in Below(W)
BY Widths DEF Word, BitPositions, Below

(* Bits takes the number of a word back to the word, modulo 2^W.           *)
LEMMA BitsOf ==
  ASSUME NEW x \in Word, NEW k \in Int
  PROVE  Bits(Unsigned(x) + k * Pow2[W]) = x
<1>0. x \in Below(W) /\ W \in Nat
  BY WordIsBelow
<1>1. ASSUME NEW b \in BitPositions
      PROVE  ((Unsigned(x) + k * Pow2[W]) \div Pow2[b]) % 2 = IF b \in x THEN 1 ELSE 0
  <2> DEFINE y == High(x, b)
             z == High(y, 1)
             p == Pow2[b]
             r == Pow2[W - b - 1]
             lo == Unsigned(Low(x, b))
             h == Unsigned(z)
             c == IF b \in x THEN 1 ELSE 0
  <2>1. /\ b \in 0 .. W /\ b \in Nat /\ W - b \in Nat
        /\ 1 \in 0 .. W - b /\ W - b - 1 \in Nat
    BY <1>0, Widths
  <2>2. /\ y \in Below(W - b) /\ Low(x, b) \in Below(b)
        /\ Unsigned(x) = lo + p * Unsigned(y)
    BY <1>0, <2>1, UnsignedSplits
  <2>3. Unsigned(y) = Unsigned(Low(y, 1)) + Pow2[1] * h /\ z \in Below(W - b - 1)
    <3> HIDE DEF y
    <3>1. z \in Below((W - b) - 1) /\ (W - b) - 1 = W - b - 1
      BY <2>1, <2>2, UnsignedSplits
    <3> QED  BY <2>1, <2>2, <3>1, UnsignedSplits
  <2>4. Unsigned(Low(y, 1)) = c
    <3>1. CASE b \in x
      <4>1. Low(y, 1) = {0}
        BY <2>1, <3>1 DEF Low, High
      <4> QED  BY <3>1, <4>1, UnsignedOne, Powers
    <3>2. CASE b \notin x
      <4>1. Low(y, 1) = {}
        BY <2>1, <3>2 DEF Low, High
      <4> QED  BY <3>2, <4>1, UnsignedEmpty
    <3> QED  BY <3>1, <3>2
  <2>5. Pow2[1] = 2
    <3>1. Pow2[0 + 1] = 2 * Pow2[0] /\ Pow2[0] = 1 /\ 0 + 1 = 1
      BY Powers
    <3> QED  BY <3>1
  <2>6. Pow2[W] = 2 * (p * r)
    <3>1. Pow2[b + (W - b - 1)] = p * r
      BY <2>1, PowersAdd
    <3>2. (b + (W - b - 1)) + 1 = W /\ b + (W - b - 1) \in Nat
      BY <1>0, <2>1
    <3> QED  BY <3>1, <3>2, Powers
  <2>7. p \in Nat \ {0} /\ r \in Nat /\ lo \in 0 .. p - 1 /\ h \in Nat /\ c \in {0, 1}
    <3>1. lo \in 0 .. p - 1
      BY <2>1, <2>2, UnsignedRange
    <3>2. h \in Nat
      BY <2>1, <2>3, UnsignedType
    <3>3. p \in Nat \ {0} /\ r \in Nat
      BY <2>1, Powers
    <3> QED  BY <3>1, <3>2, <3>3
  <2> DEFINE w == Pow2[W]
             u == Unsigned(x)
             m == h + k * r
             v == Unsigned(y)
             e == Unsigned(Low(y, 1))
             two == Pow2[1]
  <2>8. v = c + 2 * h
    BY <2>3, <2>4, <2>5
  <2>a. u = lo + p * v /\ w = 2 * (p * r)
    BY <2>2, <2>6
  <2> HIDE DEF y, z, p, r, lo, h, c, w, u, v
  <2>9. m \in Int
    BY <2>7
  <2>10. u + k * w = p * (2 * m + c) + lo
    <3>1. p * v = p * c + 2 * (p * h)
      BY <2>7, <2>8
    <3>2. k * w = 2 * (p * (k * r))
      BY <2>7, <2>a
    <3>3. p * (2 * m + c) = 2 * (p * h) + 2 * (p * (k * r)) + p * c
      BY <2>7
    <3>4. /\ p * c \in Int /\ p * h \in Int /\ p * (k * r) \in Int /\ lo \in Int
          /\ p * v \in Int /\ k * w \in Int /\ p * (2 * m + c) \in Int
      <4>1. v \in Int /\ w \in Int /\ 2 * m + c \in Int
        BY <2>7, <2>8, <2>9, <2>a
      <4> QED  BY <2>7, <4>1
    <3> QED  BY <2>a, <3>1, <3>2, <3>3, <3>4
  <2>11. 2 * m + c \in Int
    BY <2>7, <2>9
  <2> HIDE DEF m
  <2>12. (p * (2 * m + c) + lo) \div p = 2 * m + c
    BY <2>7, <2>11, RemainderIs
  <2>13. (2 * m + c) % 2 = c
    BY <2>7, <2>9, EvenOdd
  <2>14. ((u + k * w) \div p) % 2 = c
    BY <2>10, <2>12, <2>13
  <2> QED  BY <2>14 DEF u, w, p, c
<1>2. \A b \in BitPositions : b \in Bits(Unsigned(x) + k * Pow2[W]) <=> b \in x
  <2> DEFINE n == Unsigned(x) + k * Pow2[W]
  <2> HIDE DEF n
  <2>1. \A b \in BitPositions : (n \div Pow2[b]) % 2 = IF b \in x THEN 1 ELSE 0
    BY <1>1 DEF n
  <2>2. \A b \in BitPositions : b \in Bits(n) <=> b \in x
    BY <2>1 DEF Bits
  <2> QED  BY <2>2 DEF n
<1>3. Bits(Unsigned(x) + k * Pow2[W]) \subseteq BitPositions
  BY DEF Bits
<1> QED  BY <1>2, <1>3 DEF Word

LEMMA BitsOfUnsigned ==
  ASSUME NEW x \in Word PROVE Bits(Unsigned(x)) = x
<1>1. Unsigned(x) + 0 * Pow2[W] = Unsigned(x)
  <2>1. Unsigned(x) \in Int /\ Pow2[W] \in Int
    BY WordIsBelow, UnsignedType, Powers
  <2> QED  BY <2>1
<1>2. 0 \in Int
  OBVIOUS
<1> QED  BY <1>1, <1>2, BitsOf

(* Every number below 2^n is that of a word.                               *)
LEMMA WordExists ==
  \A n \in Nat : \A m \in 0 .. Pow2[n] - 1 : \E x \in Below(n) : Unsigned(x) = m
<1> DEFINE T == {n \in Nat : \A m \in 0 .. Pow2[n] - 1 :
                   \E x \in Below(n) : Unsigned(x) = m}
<1>1. 0 \in T
  <2>1. \A m \in 0 .. Pow2[0] - 1 : m = 0
    <3>1. Pow2[0] = 1
      BY Powers
    <3> QED  BY <3>1
  <2>2. {} \in Below(0)
    BY DEF Below
  <2> QED  BY <2>1, <2>2, UnsignedEmpty
<1>2. ASSUME NEW n \in Nat, n \in T PROVE n + 1 \in T
  <2> SUFFICES ASSUME NEW m \in 0 .. Pow2[n + 1] - 1
               PROVE  \E x \in Below(n + 1) : Unsigned(x) = m
    OBVIOUS
  <2>1. Pow2[n] \in Nat \ {0} /\ Pow2[n + 1] = 2 * Pow2[n]
    BY Powers
  <2>2. \A k \in 0 .. Pow2[n] - 1 : \E x \in Below(n) : Unsigned(x) = k
    BY <1>2
  <2>3. CASE m < Pow2[n]
    <3>1. m \in 0 .. Pow2[n] - 1
      BY <2>1, <2>3
    <3>2. PICK x \in Below(n) : Unsigned(x) = m
      BY <2>2, <3>1
    <3>3. x \in Below(n + 1)
      BY DEF Below
    <3> QED  BY <3>2, <3>3
  <2>4. CASE m >= Pow2[n]
    <3>1. m - Pow2[n] \in 0 .. Pow2[n] - 1
      BY <2>1, <2>4
    <3>2. PICK x \in Below(n) : Unsigned(x) = m - Pow2[n]
      BY <2>2, <3>1
    <3> DEFINE y == x \cup {n}
    <3>3. y \in Below(n + 1) /\ n \in y /\ y \ {n} = x
      BY DEF Below
    <3>4. Unsigned(y) = Pow2[n] + Unsigned(x)
      <4>1. Unsigned(y) = Pow2[n] + Unsigned(y \ {n})
        <5> HIDE DEF y
        <5> QED  BY <3>3, BelowNext
      <4> QED  BY <3>3, <4>1
    <3>5. Unsigned(y) = m
      <4> HIDE DEF y
      <4> QED  BY <2>1, <3>2, <3>4
    <3> QED  BY <3>3, <3>5
  <2> QED  BY <2>1, <2>3, <2>4
<1> HIDE DEF T
<1>3. \A n \in Nat : n \in T
  BY <1>1, <1>2, NatInduct
<1> QED  BY <1>3 DEF T

LEMMA UnsignedOfBits ==
  ASSUME NEW n \in 0 .. Pow2[W] - 1
  PROVE  Bits(n) \in Word /\ Unsigned(Bits(n)) = n
<1>1. PICK x \in Below(W) : Unsigned(x) = n
  BY WordIsBelow, WordExists
<1>2. x \in Word
  BY WordIsBelow
<1>3. Bits(n) = x
  BY <1>1, <1>2, BitsOfUnsigned
<1> QED  BY <1>1, <1>2, <1>3

(* Bits looks at a number modulo 2^W.                                      *)
LEMMA BitsPeriodic ==
  ASSUME NEW n \in Int, NEW k \in Int
  PROVE  Bits(n + k * Pow2[W]) = Bits(n)
<1> DEFINE w == Pow2[W]
           q == n \div w
           a == n % w
<1>1. w \in Nat \ {0}
  BY WordIsBelow, Powers
<1> HIDE DEF w
<1>2. n = w * q + a /\ a \in 0 .. w - 1 /\ q \in Int
  BY <1>1, SMTT(30)
<1>3. PICK x \in Below(W) : Unsigned(x) = a
  BY <1>2, WordIsBelow, WordExists DEF w
<1> HIDE DEF q, a
<1>4. n = a + q * w /\ n + k * w = a + (q + k) * w
  BY <1>1, <1>2
<1>5. Bits(a + q * w) = x /\ Bits(a + (q + k) * w) = x
  <2>1. x \in Word /\ q \in Int /\ q + k \in Int
    BY <1>2, WordIsBelow
  <2>2. Bits(Unsigned(x) + q * w) = x /\ Bits(Unsigned(x) + (q + k) * w) = x
    BY <2>1, BitsOf DEF w
  <2> QED  BY <1>3, <2>2
<1> QED  BY <1>4, <1>5 DEF w

LEMMA UnsignedWord ==
  ASSUME NEW x \in Word
  PROVE  /\ Unsigned(x) \in Nat /\ Pow2[W] \in Nat \ {0} /\ Unsigned(x) < Pow2[W]
<1>1. x \in Below(W) /\ W \in Nat
  BY WordIsBelow
<1>2. Pow2[W] \in Nat \ {0}
  BY <1>1, Powers
<1>3. Unsigned(x) \in 0 .. Pow2[W] - 1
  BY <1>1, UnsignedRange
<1> QED  BY <1>2, <1>3

LEMMA UnsignedNot ==
  ASSUME NEW x \in Word
  PROVE  Not(x) \in Word /\ Unsigned(Not(x)) = Pow2[W] - 1 - Unsigned(x)
<1>1. Not(x) \in Word /\ x \cap Not(x) = {} /\ x \cup Not(x) = BitPositions
  BY DEF Not, Word
<1>2. x \in Below(W) /\ Not(x) \in Below(W) /\ W \in Nat
  BY <1>1, WordIsBelow
<1>3. Unsigned(x \cup Not(x)) = Unsigned(x) + Unsigned(Not(x))
  BY <1>1, <1>2, UnsignedAdds, Zenon
<1>4. Unsigned(BitPositions) = Pow2[W] - 1
  BY <1>2, UnsignedFull DEF BitPositions
<1>5. Pow2[W] - 1 = Unsigned(x) + Unsigned(Not(x))
  BY <1>1, <1>3, <1>4
<1> QED  BY <1>1, <1>5, UnsignedWord

(* The words of 0, 1 and -1.                                               *)
LEMMA SmallWords ==
  /\ Bits(0) = {} /\ Bits(1) = {0} /\ Bits(-1) = BitPositions
  /\ Bits(Pow2[W]) = {}
  /\ {0} \in Word /\ {} \in Word /\ BitPositions \in Word
  /\ Unsigned({0}) = 1 /\ Unsigned({}) = 0 /\ Unsigned(BitPositions) = Pow2[W] - 1
<1>1. {0} \in Word /\ {} \in Word /\ BitPositions \in Word
  BY Widths DEF Word
<1>2. Unsigned({0}) = 1 /\ Unsigned({}) = 0
  <2>1. 0 \in Nat
    OBVIOUS
  <2> QED  BY <2>1, UnsignedOne, UnsignedEmpty, Powers
<1>3. Unsigned(BitPositions) = Pow2[W] - 1
  BY WordIsBelow, UnsignedFull DEF BitPositions
<1>4. Bits(0) = {} /\ Bits(1) = {0}
  BY <1>1, <1>2, BitsOfUnsigned
<1>5. Pow2[W] \in Int
  BY WordIsBelow, Powers
<1>6. Bits(-1) = BitPositions
  <2>1. (Pow2[W] - 1) + (-1) * Pow2[W] = -1 /\ -1 \in Int
    BY <1>5
  <2>2. Bits(Unsigned(BitPositions) + (-1) * Pow2[W]) = BitPositions
    BY <1>1, <2>1, BitsOf
  <2> QED  BY <1>3, <2>1, <2>2
<1>7. Bits(Pow2[W]) = {}
  <2>1. 0 + 1 * Pow2[W] = Pow2[W]
    BY <1>5
  <2>2. Bits(Unsigned({}) + 1 * Pow2[W]) = {}
    BY <1>1, BitsOf
  <2> QED  BY <1>2, <2>1, <2>2
<1> QED  BY <1>1, <1>2, <1>3, <1>4, <1>6, <1>7

(* bits.c:340 is -1.                                                       *)
THEOREM MinusOneRight == minusOne = test_minusOne
<1>1. Not({}) = BitPositions
  BY DEF Not
<1> QED  BY <1>1, SmallWords DEF minusOne, test_minusOne

(* bits.c:352 has every bit but the sign.                                  *)
THEOREM TmaxRight == tmax = test_tmax
<1>1. ShiftLeft({0}, W - 1) = {W - 1}
  <2>1. \A b \in BitPositions : b - (W - 1) = 0 <=> b = W - 1
    BY Widths
  <2> QED  BY <2>1, Widths DEF ShiftLeft
<1> QED  BY <1>1, Widths DEF tmax, test_tmax, Not

-----------------------------------------------------------------------------
(* The puzzles that add.  -x is ~x + 1.                                    *)

Minus(x) == Plus(Not(x), {0})

LEMMA MinusIs ==
  ASSUME NEW x \in Word
  PROVE  Minus(x) = Bits(Pow2[W] - Unsigned(x))
<1>1. Unsigned(Not(x)) + Unsigned({0}) = Pow2[W] - Unsigned(x)
  <2>1. Unsigned(Not(x)) = Pow2[W] - 1 - Unsigned(x) /\ Unsigned({0}) = 1
    BY UnsignedNot, SmallWords
  <2> QED  BY <2>1, UnsignedWord
<1> QED  BY <1>1 DEF Minus, Plus

(* bits.c:443 is -x.                                                       *)
THEOREM NegateRight ==
  ASSUME NEW x \in Word
  PROVE  negate(x) = test_negate(x)
<1> DEFINE w == Pow2[W]
           u == Unsigned(x)
<1>1. negate(x) = Bits(w - u)
  BY MinusIs DEF negate, Minus
<1>2. test_negate(x) = Bits(- (u - (IF Negative(x) THEN w ELSE 0)))
  BY DEF test_negate, Signed
<1>3. w \in Int /\ u \in Int
  BY UnsignedWord
<1>4. CASE Negative(x)
  <2>1. - (u - w) = w - u
    BY <1>3
  <2> QED  BY <1>1, <1>2, <1>4, <2>1
<1>5. CASE ~ Negative(x)
  <2>1. - (u - 0) = - u
    BY <1>3
  <2>2. Bits((- u) + 1 * w) = Bits(- u)
    BY <1>3, BitsPeriodic
  <2>3. (- u) + 1 * w = w - u
    BY <1>3
  <2> QED  BY <1>1, <1>2, <1>5, <2>1, <2>2, <2>3
<1> QED  BY <1>4, <1>5

Least(x, l) == l \in x /\ \A c \in x : l <= c

LEMMA LeastExists ==
  ASSUME NEW x \in Word, x # {}
  PROVE  \E l \in x : Least(x, l)
<1> DEFINE R == OpToRel(<, Nat)
<1>1. IsWellFoundedOn(R, Nat)
  BY NatLessThanWellFounded
<1>2. \A m, n \in Nat : m < n => <<m, n>> \in R
  BY DEF OpToRel
<1> HIDE DEF R
<1>3. x \subseteq Nat /\ x # {}
  BY WordIsBelow, BelowFinite
<1>4. PICK l \in x : \A c \in x : ~ (<<c, l>> \in R)
  BY <1>1, <1>3, WFMin
<1>5. ASSUME NEW c \in x PROVE l <= c
  <2>1. c \in Nat /\ l \in Nat /\ ~ (<<c, l>> \in R)
    BY <1>3, <1>4
  <2>2. ~ c < l
    BY <1>2, <2>1
  <2> QED  BY <2>1, <2>2
<1> QED  BY <1>4, <1>5 DEF Least

(* -x has the least bit of x, and above it the bits that x has not.        *)
LEMMA MinusBits ==
  ASSUME NEW x \in Word, NEW l, Least(x, l)
  PROVE  /\ Minus(x) = {l} \cup {b \in BitPositions : b > l /\ b \notin x}
         /\ Unsigned(Minus(x)) = Pow2[W] - Unsigned(x)
<1> DEFINE z == {l} \cup {b \in BitPositions : b > l /\ b \notin x}
           over == {b \in BitPositions : b > l}
           upto == 0 .. (l + 1) - 1
           rest == x \ {l}
           gaps == z \ {l}
<1>0. W \in Nat
  BY WordIsBelow
<1>1. l \in BitPositions /\ l \in Nat /\ l + 1 \in Nat
  BY Widths DEF Least, Word
<1>2. /\ x \in Below(W) /\ z \in Below(W) /\ rest \in Below(W) /\ gaps \in Below(W)
      /\ over \in Below(W) /\ upto \in Below(W)
  <2>1. upto \subseteq BitPositions
    BY <1>0, <1>1 DEF BitPositions
  <2>2. x \subseteq BitPositions
    BY DEF Word
  <2>3. Below(W) = SUBSET BitPositions
    BY DEF Below, BitPositions
  <2> QED  BY <1>1, <2>1, <2>2, <2>3
<1>3. /\ rest \cap gaps = {} /\ rest \cup gaps = over
      /\ over \cap upto = {} /\ over \cup upto = BitPositions
  <2>1. \A b \in rest : b > l /\ b \in BitPositions
    BY Widths, <1>1 DEF Least, Word
  <2>2. rest \cap gaps = {} /\ rest \cup gaps = over
    BY <2>1, <1>1
  <2>3. over \cap upto = {} /\ over \cup upto = BitPositions
    BY <1>0, <1>1 DEF BitPositions
  <2> QED  BY <2>2, <2>3
<1>4. l \in x /\ l \in z
  BY DEF Least
<1>5. /\ Unsigned(x) = Pow2[l] + Unsigned(rest) /\ Unsigned(z) = Pow2[l] + Unsigned(gaps)
  <2> HIDE DEF z
  <2> QED  BY <1>0, <1>2, <1>4, UnsignedTakes
<1> HIDE DEF z, rest, gaps, over
<1>6. Unsigned(over) = Unsigned(rest) + Unsigned(gaps)
  BY <1>0, <1>2, <1>3, UnsignedAdds
<1>7. Unsigned(BitPositions) = Unsigned(over) + Unsigned(upto)
  <2> HIDE DEF upto
  <2> QED  BY <1>0, <1>2, <1>3, UnsignedAdds
<1>8. Unsigned(upto) = Pow2[l + 1] - 1 /\ Pow2[l + 1] = 2 * Pow2[l]
  BY <1>1, UnsignedFull, Powers
<1> HIDE DEF upto
<1>9. Unsigned(BitPositions) = Pow2[W] - 1
  BY SmallWords
<1>10. /\ Unsigned(rest) \in Nat /\ Unsigned(gaps) \in Nat /\ Unsigned(over) \in Nat
       /\ Unsigned(upto) \in Nat /\ Pow2[l] \in Nat /\ Pow2[W] \in Nat
  BY <1>0, <1>1, <1>2, UnsignedType, Powers
<1>11. Unsigned(z) = Pow2[W] - Unsigned(x)
  BY <1>5, <1>6, <1>7, <1>8, <1>9, <1>10
<1>12. z \in Word
  BY <1>2, WordIsBelow
<1>13. Minus(x) = z
  BY <1>11, <1>12, MinusIs, BitsOfUnsigned
<1> QED  BY <1>11, <1>13 DEF z

LEMMA MinusZero == Minus({}) = {}
<1>1. Minus({}) = Bits(Pow2[W] - Unsigned({}))
  BY SmallWords, MinusIs
<1>2. Pow2[W] - 0 = Pow2[W]
  BY SmallWords, UnsignedWord
<1> QED  BY <1>1, <1>2, SmallWords

(* A shift by all but one of the bits leaves copies of the sign.           *)
LEMMA SignShift ==
  ASSUME NEW x \in Word
  PROVE  /\ ShiftRight(x, W - 1) = IF Negative(x) THEN BitPositions ELSE {}
         /\ ShiftRight(x, W - 1) \cap {0} = Truth(Negative(x))
<1>1. \A b \in BitPositions : b + (W - 1) \in BitPositions => b = 0 /\ b + (W - 1) = W - 1
  BY Widths DEF BitPositions
<1>2. ShiftRight(x, W - 1) = IF Negative(x) THEN BitPositions ELSE {}
  BY <1>1, Widths DEF ShiftRight, Negative
<1> QED  BY <1>2, Widths DEF Truth

(* x | -x has the sign bit exactly if x is not 0.                          *)
LEMMA EitherSign ==
  ASSUME NEW x \in Word
  PROVE  /\ x \cup Minus(x) \in Word
         /\ Negative(x \cup Minus(x)) <=> x # {}
<1>1. Minus(x) \in Word
  BY MinusIs DEF Bits, Word
<1>2. CASE x = {}
  BY <1>2, MinusZero DEF Negative, Word
<1>3. CASE x # {}
  <2>1. PICK l \in x : Least(x, l)
    BY <1>3, LeastExists
  <2>2. Minus(x) = {l} \cup {b \in BitPositions : b > l /\ b \notin x}
    BY <2>1, MinusBits
  <2>3. l \in BitPositions /\ (l = W - 1 \/ W - 1 > l)
    BY Widths DEF Word
  <2>4. W - 1 \in x \cup Minus(x)
    BY <2>2, <2>3, Widths
  <2> QED  BY <1>1, <1>3, <2>4, Widths DEF Negative, Word
<1> QED  BY <1>2, <1>3

LEMMA ZeroTest ==
  ASSUME NEW x \in Word
  PROVE  Not(ShiftRight(x \cup Minus(x), W - 1)) \cap {0} = Bang(x)
<1> DEFINE y == x \cup Minus(x)
<1>1. y \in Word /\ (Negative(y) <=> x # {})
  BY EitherSign
<1> HIDE DEF y
<1>2. ShiftRight(y, W - 1) = IF x # {} THEN BitPositions ELSE {}
  BY <1>1, SignShift
<1>3. Not(ShiftRight(y, W - 1)) \cap {0} = Bang(x)
  BY <1>2, Widths DEF Not, Bang, Truth
<1> QED  BY <1>3 DEF y

(* bits.c:184 and bits.c:315 are !x.                                       *)
THEOREM BangRight ==
  ASSUME NEW x \in Word
  PROVE  bang(x) = test_bang(x) /\ logicalNeg(x) = test_logicalNeg(x)
BY ZeroTest DEF bang, test_bang, logicalNeg, test_logicalNeg, Minus

(* bits.c:299 is the least bit of x.                                       *)
THEOREM LeastBitPosRight ==
  ASSUME NEW x \in Word
  PROVE  leastBitPos(x) = test_leastBitPos(x)
<1>1. leastBitPos(x) = x \cap Minus(x)
  BY DEF leastBitPos, Minus
<1>2. CASE x = {}
  BY <1>1, <1>2 DEF test_leastBitPos
<1>3. CASE x # {}
  <2>1. PICK l \in x : Least(x, l)
    BY <1>3, LeastExists
  <2>2. x \cap Minus(x) = {l}
    BY <2>1, MinusBits
  <2>3. \A b \in x : (\A c \in x : b <= c) <=> b = l
    BY <2>1, Widths DEF Least, Word
  <2> QED  BY <1>1, <2>1, <2>2, <2>3 DEF test_leastBitPos
<1> QED  BY <1>2, <1>3

(* x - 1, for x # 0, has no sign if x has none.                            *)
LEMMA Decrement ==
  ASSUME NEW x \in Word
  PROVE  /\ x = {} => Plus(x, Not({})) = BitPositions
         /\ x # {} /\ ~ Negative(x) =>
              Plus(x, Not({})) \in Word /\ ~ Negative(Plus(x, Not({})))
<1>1. Not({}) = BitPositions
  BY DEF Not
<1>2. Plus(x, Not({})) = Bits(Unsigned(x) + (Pow2[W] - 1))
  BY <1>1, SmallWords DEF Plus
<1>3. ASSUME x = {} PROVE Plus(x, Not({})) = BitPositions
  <2>1. Unsigned(x) + (Pow2[W] - 1) = Unsigned(BitPositions)
    <3>1. 0 + (Pow2[W] - 1) = Pow2[W] - 1
      BY UnsignedWord
    <3> QED  BY <1>3, <3>1, SmallWords
  <2> QED  BY <1>2, <2>1, SmallWords, BitsOfUnsigned
<1>4. ASSUME x # {}, ~ Negative(x)
      PROVE  Plus(x, Not({})) \in Word /\ ~ Negative(Plus(x, Not({})))
  <2>0. W \in Nat /\ W - 1 \in Nat /\ (W - 1) + 1 = W
    BY Widths DEF BitPositions
  <2> DEFINE u == Unsigned(x)
             k == W - 1
  <2>1. x \in Below(k)
    BY <1>4, Widths DEF Negative, Word, Below, BitPositions
  <2>2. u \in 0 .. Pow2[k] - 1
    BY <2>0, <2>1, UnsignedRange
  <2>3. u > 0
    <3>1. PICK b \in x : TRUE
      BY <1>4
    <3>2. u = Pow2[b] + Unsigned(x \ {b}) /\ x \ {b} \in Below(k) /\ b \in Nat
      BY <2>0, <2>1, UnsignedTakes, BelowFinite
    <3>3. Pow2[b] > 0 /\ Pow2[b] \in Nat /\ Unsigned(x \ {b}) \in Nat
      BY <2>0, <3>2, Powers, UnsignedType
    <3> QED  BY <3>2, <3>3
  <2>4. Pow2[k] \in Nat
    BY <2>0, Powers
  <2>5. u - 1 \in 0 .. Pow2[k] - 1
    <3> HIDE DEF u, k
    <3> QED  BY <2>2, <2>3, <2>4
  <2>6. PICK z \in Below(k) : Unsigned(z) = u - 1
    BY <2>0, <2>5, WordExists
  <2>7. z \in Word /\ ~ Negative(z)
    BY Widths DEF Below, Word, Negative, BitPositions
  <2>8. Unsigned(x) + (Pow2[W] - 1) = Unsigned(z) + 1 * Pow2[W]
    BY <2>6, UnsignedWord
  <2>9. Plus(x, Not({})) = z
    BY <1>2, <2>7, <2>8, BitsOf
  <2> QED  BY <2>7, <2>9
<1> QED  BY <1>3, <1>4

(* bits.c:391 is 1 exactly if x is not 0.                                  *)
THEOREM IsNonZeroRight ==
  ASSUME NEW x \in Word
  PROVE  isNonZero(x) = test_isNonZero(x)
<1> DEFINE y == Plus(x, Not({}))
           positive == Xor(ShiftRight(y, W - 1) \cap {0}, {0})
<1>0. y \in Word
  BY DEF Plus, Bits, Word
<1>1. isNonZero(x) = Truth(Negative(x)) \cup positive
  BY SignShift DEF isNonZero
<1>2. positive = Xor(Truth(Negative(y)), {0})
  BY <1>0, SignShift
<1>3. positive = Truth(~ Negative(y))
  BY <1>2 DEF Xor, SymDiff, Truth
<1>4. CASE x = {}
  <2>1. Negative(y) /\ ~ Negative(x)
    BY <1>4, Decrement, Widths DEF Negative
  <2> QED  BY <1>1, <1>3, <1>4, <2>1 DEF test_isNonZero, Truth
<1>5. CASE x # {} /\ ~ Negative(x)
  <2>1. ~ Negative(y)
    BY <1>5, Decrement
  <2> QED  BY <1>1, <1>3, <1>5, <2>1 DEF test_isNonZero, Truth
<1>6. CASE Negative(x)
  <2>1. x # {}
    BY <1>6 DEF Negative
  <2> QED  BY <1>1, <1>3, <1>6, <2>1 DEF test_isNonZero, Truth
<1> QED  BY <1>4, <1>5, <1>6

(* bits.c:457 is 1, 0 or -1; also for TMin, on which it is not tested.     *)
THEOREM SignRight ==
  ASSUME NEW x \in Word
  PROVE  sign(x) = test_sign(x)
<1> DEFINE msb == ShiftRight(x, W - 1) \cap {0}
           all == BitPositions
<1>1. msb = Truth(Negative(x))
  BY SignShift
<1>2. sign(x) = Plus(Plus(Bang(Bang(x)), Minus(msb)), Minus(msb))
  BY DEF sign, Minus
<1> HIDE DEF msb
<1>3. Bang(Bang(x)) = Truth(x # {})
  BY DEF Bang, Truth
<1>4. /\ \A y \in Word : Plus(y, {}) = y
      /\ Plus({0}, all) = {} /\ Plus({}, all) = all
  <2>1. ASSUME NEW y \in Word PROVE Plus(y, {}) = y
    <3>1. Unsigned(y) + 0 = Unsigned(y)
      BY UnsignedWord
    <3> QED  BY <3>1, SmallWords, BitsOfUnsigned DEF Plus
  <2>2. 1 + (Pow2[W] - 1) = Pow2[W] /\ 0 + (Pow2[W] - 1) = Pow2[W] - 1
    BY SmallWords, UnsignedWord
  <2>3. Bits(Pow2[W] - 1) = all
    BY SmallWords, BitsOfUnsigned
  <2> QED  BY <2>1, <2>2, <2>3, SmallWords DEF Plus
<1>5. CASE x = {}
  <2>1. msb = {} /\ Bang(Bang(x)) = {}
    BY <1>1, <1>3, <1>5 DEF Negative, Truth
  <2>2. sign(x) = {}
    BY <1>2, <1>4, <2>1, MinusZero, SmallWords
  <2> QED  BY <1>5, <2>2, SmallWords DEF test_sign
<1>6. CASE x # {} /\ ~ Negative(x)
  <2>1. msb = {} /\ Bang(Bang(x)) = {0}
    BY <1>1, <1>3, <1>6 DEF Truth
  <2>2. sign(x) = {0}
    BY <1>2, <1>4, <2>1, MinusZero, SmallWords
  <2> QED  BY <1>6, <2>2, SmallWords DEF test_sign
<1>7. CASE Negative(x)
  <2>0. x # {}
    BY <1>7 DEF Negative
  <2>1. msb = {0} /\ Bang(Bang(x)) = {0}
    BY <1>1, <1>3, <1>7, <2>0 DEF Truth
  <2>2. Minus({0}) = all
    <3>1. Pow2[W] - Unsigned({0}) = Unsigned(all)
      BY SmallWords
    <3> QED  BY <3>1, MinusIs, SmallWords, BitsOfUnsigned
  <2>3. sign(x) = all
    BY <1>2, <1>4, <2>1, <2>2
  <2> QED  BY <1>7, <2>0, <2>3, SmallWords DEF test_sign
<1> QED  BY <1>5, <1>6, <1>7

(* bits.c:479 turns sign and magnitude into two's complement.              *)
THEOREM Sm2tcRight ==
  ASSUME NEW x \in Word
  PROVE  sm2tc(x) = test_sm2tc(x)
<1> DEFINE msb == ShiftRight(x, W - 1)
           highBit == ShiftLeft({0}, W - 1)
           mag == Unsigned(x \ {SignBit})
<1>1. msb = IF Negative(x) THEN BitPositions ELSE {}
  BY SignShift
<1>2. highBit = {SignBit}
  <2>1. \A b \in BitPositions : b - (W - 1) = 0 <=> b = W - 1
    BY Widths
  <2> QED  BY <2>1, Widths DEF ShiftLeft
<1>3. sm2tc(x) = (Not(msb) \cap x) \cup (Plus(x \cap highBit, Minus(x)) \cap msb)
  BY DEF sm2tc, Minus
<1>4. test_sm2tc(x) = Bits(IF Negative(x) THEN - mag ELSE mag)
  BY DEF test_sm2tc
<1> HIDE DEF msb, highBit
<1>5. CASE ~ Negative(x)
  <2>1. x \ {SignBit} = x
    BY <1>5 DEF Negative
  <2>2. Bits(mag) = x
    BY <2>1, BitsOfUnsigned
  <2>3. sm2tc(x) = x
    BY <1>1, <1>3, <1>5 DEF Not, Word
  <2> QED  BY <1>4, <1>5, <2>2, <2>3
<1>6. CASE Negative(x)
  <2>1. sm2tc(x) = Plus({SignBit}, Minus(x))
    <3>1. Plus({SignBit}, Minus(x)) \subseteq BitPositions
      BY DEF Plus, Bits
    <3>2. x \cap highBit = {SignBit}
      BY <1>2, <1>6 DEF Negative
    <3>3. Not(msb) \cap x = {}
      BY <1>1, <1>6 DEF Not
    <3> QED  BY <1>1, <1>3, <1>6, <3>1, <3>2, <3>3
  <2> DEFINE u == Unsigned(x)
             w == Pow2[W]
             p == Pow2[SignBit]
  <2>2. Unsigned(Minus(x)) = w - u
    <3>1. x # {}
      BY <1>6 DEF Negative
    <3> QED  BY <3>1, LeastExists, MinusBits
  <2>3. u = p + mag /\ mag \in Int
    BY <1>6, WordIsBelow, UnsignedTakes DEF Negative
  <2>4. Unsigned({SignBit}) = p /\ p \in Int /\ w \in Int
    <3>1. SignBit \in Nat
      BY Widths DEF BitPositions
    <3> QED  BY <3>1, UnsignedOne, Powers, WordIsBelow
  <2>5. sm2tc(x) = Bits(p + (w - u))
    BY <2>1, <2>2, <2>4 DEF Plus
  <2> HIDE DEF u, w, p, mag
  <2>6. p + (w - u) = (- mag) + 1 * w /\ - mag \in Int
    BY <2>3, <2>4
  <2>7. Bits((- mag) + 1 * w) = Bits(- mag)
    BY <2>6, BitsPeriodic DEF w
  <2> QED  BY <1>4, <1>6, <2>5, <2>6, <2>7
<1> QED  BY <1>5, <1>6

-----------------------------------------------------------------------------
(* Floats.                                                                 *)

LEMMA FloatWidths ==
  /\ FracBits \in Nat /\ FracBits >= 2 /\ ExpBits \in Nat /\ ExpBits >= 2
  /\ FracBits + ExpBits = SignBit /\ SignBit \in Nat /\ SignBit + 1 = W
BY Widths, ExpBitsAssumption DEF FracBits, SignBit

LEMMA BodyIsWord ==
  /\ Below(SignBit) \subseteq Word
  /\ \A t \in Below(SignBit) : SignBit \notin t
  /\ \A u \in Word : u \ {SignBit} \in Below(SignBit)
BY FloatWidths DEF Below, Word, BitPositions

LEMMA PowersOfTwoOrMore ==
  ASSUME NEW n \in Nat, n >= 2 PROVE Pow2[n] \in Nat /\ Pow2[n] >= 4
<1>1. Pow2[0 + 1] = 2 * Pow2[0] /\ Pow2[1 + 1] = 2 * Pow2[1] /\ Pow2[0] = 1
  BY Powers
<1>2. Pow2[2] = 4
  <2>1. 0 + 1 = 1 /\ 1 + 1 = 2
    OBVIOUS
  <2> QED  BY <1>1, <2>1
<1>3. Pow2[2] <= Pow2[n] /\ Pow2[n] \in Nat
  BY PowersGrow, Powers
<1> QED  BY <1>2, <1>3

LEMMA MaxExponentIs ==
  MaxExponent = Pow2[ExpBits] - 1 /\ MaxExponent \in Nat /\ MaxExponent >= 3
<1>1. Pow2[ExpBits] \in Nat /\ Pow2[ExpBits] >= 4
  BY FloatWidths, PowersOfTwoOrMore
<1> QED  BY <1>1 DEF MaxExponent

(* Exponent and fraction are those of the word without its sign.           *)
LEMMA FloatParts ==
  ASSUME NEW u \in Word, NEW t, t = u \ {SignBit}
  PROVE  /\ Exponent(u) \in 0 .. MaxExponent
         /\ Fraction(u) \in Below(FracBits)
         /\ Unsigned(Fraction(u)) \in 0 .. Pow2[FracBits] - 1
         /\ Unsigned(t) = Unsigned(Fraction(u)) + Pow2[FracBits] * Exponent(u)
         /\ Exponent(t) = Exponent(u) /\ Fraction(t) = Fraction(u)
<1> DEFINE upper(x) == ShiftRightUnsigned(x, FracBits) \cap (0 .. ExpBits - 1)
<1>0. t \in Below(SignBit) /\ FracBits \in 0 .. SignBit
  BY BodyIsWord, FloatWidths
<1>1. upper(u) = High(t, FracBits) /\ upper(t) = High(t, FracBits)
  <2>1. ASSUME NEW c \in High(t, FracBits)
        PROVE  c \in 0 .. ExpBits - 1 /\ c \in BitPositions
    <3>1. c \in Nat /\ c + FracBits \in 0 .. SignBit - 1
      BY <1>0 DEF High, Below
    <3> QED  BY <3>1, FloatWidths DEF BitPositions
  <2>2. High(t, FracBits) \subseteq upper(t)
    BY <2>1 DEF ShiftRightUnsigned, High
  <2>3. upper(t) \subseteq upper(u)
    BY DEF ShiftRightUnsigned
  <2>4. upper(u) \subseteq High(t, FracBits)
    <3>1. \A c \in 0 .. ExpBits - 1 : c \in Nat /\ c + FracBits # SignBit
      BY FloatWidths
    <3> QED  BY <3>1 DEF ShiftRightUnsigned, High
  <2> HIDE DEF upper
  <2> QED  BY <2>2, <2>3, <2>4
<1>2. Fraction(u) = Low(t, FracBits) /\ Fraction(t) = Low(t, FracBits)
  <2>1. \A c \in 0 .. FracBits - 1 : c # SignBit
    BY FloatWidths
  <2> QED  BY <2>1 DEF Fraction, Low
<1>3. Exponent(u) = Unsigned(High(t, FracBits)) /\ Exponent(t) = Exponent(u)
  BY <1>1 DEF Exponent
<1>4. /\ Low(t, FracBits) \in Below(FracBits)
      /\ High(t, FracBits) \in Below(SignBit - FracBits)
      /\ Unsigned(t) = Unsigned(Low(t, FracBits))
                         + Pow2[FracBits] * Unsigned(High(t, FracBits))
  BY <1>0, FloatWidths, UnsignedSplits
<1>5. SignBit - FracBits = ExpBits
  BY FloatWidths
<1>6. Unsigned(High(t, FracBits)) \in 0 .. Pow2[ExpBits] - 1
  BY <1>4, <1>5, FloatWidths, UnsignedRange
<1>7. Unsigned(Low(t, FracBits)) \in 0 .. Pow2[FracBits] - 1
  BY <1>4, FloatWidths, UnsignedRange
<1> QED  BY <1>2, <1>3, <1>4, <1>6, <1>7, MaxExponentIs

LEMMA BodyParts ==
  ASSUME NEW t \in Below(SignBit)
  PROVE  /\ t \in Word
         /\ Exponent(t) \in 0 .. MaxExponent
         /\ Fraction(t) \in Below(FracBits)
         /\ Unsigned(Fraction(t)) \in 0 .. Pow2[FracBits] - 1
         /\ Unsigned(t) = Unsigned(Fraction(t)) + Pow2[FracBits] * Exponent(t)
<1>1. t \in Word /\ t = t \ {SignBit}
  BY BodyIsWord
<1> QED  BY <1>1, FloatParts

LEMMA SameFloat ==
  ASSUME NEW s \in Below(SignBit), NEW t \in Below(SignBit),
         Exponent(s) = Exponent(t), Unsigned(Fraction(s)) = Unsigned(Fraction(t))
  PROVE  s = t
<1>1. Unsigned(s) = Unsigned(t)
  BY BodyParts
<1>2. s \in Word /\ t \in Word
  BY BodyParts
<1>3. Bits(Unsigned(s)) = s /\ Bits(Unsigned(t)) = t
  BY <1>2, BitsOfUnsigned
<1> QED  BY <1>1, <1>3

(* A float is put together from exponent and fraction.                     *)
LEMMA Packs ==
  ASSUME NEW e \in 0 .. MaxExponent, NEW f \in Below(FracBits),
         NEW t, t = ShiftLeft(Bits(e), FracBits) \cup f
  PROVE  t \in Below(SignBit) /\ Exponent(t) = e /\ Fraction(t) = f
<1>1. PICK y \in Below(ExpBits) : Unsigned(y) = e
  <2>1. e \in 0 .. Pow2[ExpBits] - 1
    BY MaxExponentIs
  <2> QED  BY <2>1, FloatWidths, WordExists
<1>2. y \in Word
  BY FloatWidths DEF Below, Word, BitPositions
<1>3. Bits(e) = y
  BY <1>1, <1>2, BitsOfUnsigned
<1>4. \A b \in BitPositions : b \in ShiftLeft(Bits(e), FracBits) <=> b - FracBits \in y
  BY <1>3 DEF ShiftLeft
<1>5. \A c \in y : /\ c \in 0 .. ExpBits - 1 /\ c \in Nat
                   /\ c + FracBits \in BitPositions /\ (c + FracBits) - FracBits = c
                   /\ c + FracBits \in 0 .. SignBit - 1 /\ c + FracBits >= FracBits
  BY FloatWidths DEF Below, BitPositions
<1>6. \A b \in ShiftLeft(Bits(e), FracBits) :
        b \in 0 .. SignBit - 1 /\ b \notin 0 .. FracBits - 1 /\ b - FracBits \in y
  <2> TAKE b \in ShiftLeft(Bits(e), FracBits)
  <2>1. b \in BitPositions /\ b - FracBits \in y
    BY <1>4 DEF ShiftLeft
  <2>2. b \in Int /\ b - FracBits \in 0 .. ExpBits - 1
    BY <1>5, <2>1, Widths
  <2> QED  BY <2>1, <2>2, FloatWidths
<1>7. t \in Below(SignBit)
  <2>1. \A b \in f : b \in 0 .. SignBit - 1
    BY FloatWidths DEF Below
  <2> QED  BY <1>6, <2>1 DEF Below
<1>8. Fraction(t) = f
  BY <1>6 DEF Fraction, Below
<1>9. Exponent(t) = e
  <2>1. ShiftRightUnsigned(t, FracBits) \cap (0 .. ExpBits - 1) = y
    <3>1. ASSUME NEW c \in y
          PROVE  c \in ShiftRightUnsigned(t, FracBits) \cap (0 .. ExpBits - 1)
      <4>1. c + FracBits \in t
        BY <1>4, <1>5
      <4>2. c \in BitPositions
        BY <1>2 DEF Word
      <4> QED  BY <1>5, <4>1, <4>2 DEF ShiftRightUnsigned
    <3>2. ASSUME NEW c \in ShiftRightUnsigned(t, FracBits) \cap (0 .. ExpBits - 1)
          PROVE  c \in y
      <4>1. c + FracBits \in t /\ c \in Nat
        BY DEF ShiftRightUnsigned
      <4>2. c + FracBits \notin f
        <5>1. c + FracBits >= FracBits
          BY <4>1, FloatWidths
        <5>2. \A b \in f : b < FracBits
          BY FloatWidths DEF Below
        <5> QED  BY <4>1, <5>1, <5>2, FloatWidths
      <4>3. (c + FracBits) - FracBits \in y
        BY <1>6, <4>1, <4>2
      <4>4. (c + FracBits) - FracBits = c
        BY <4>1, FloatWidths
      <4> QED  BY <4>3, <4>4
    <3> QED  BY <3>1, <3>2
  <2> QED  BY <1>1, <2>1 DEF Exponent
<1> QED  BY <1>7, <1>8, <1>9

LEMMA EmptyFraction ==
  ASSUME NEW f \in Below(FracBits)
  PROVE  /\ {} \in Below(FracBits) /\ Unsigned({}) = 0
         /\ Unsigned(f) \in Nat /\ (Unsigned(f) = 0 <=> f = {})
<1>1. {} \in Below(FracBits) /\ Unsigned({}) = 0 /\ Unsigned(f) \in Nat
  BY FloatWidths, UnsignedEmpty, UnsignedType DEF Below
<1>2. ASSUME Unsigned(f) = 0 PROVE f = {}
  <2>1. f \in Word /\ {} \in Word
    BY FloatWidths DEF Below, Word, BitPositions
  <2> QED  BY <1>1, <1>2, <2>1, BitsOfUnsigned
<1> QED  BY <1>1, <1>2

LEMMA InfIs ==
  /\ Inf \in Below(SignBit) /\ Exponent(Inf) = MaxExponent /\ Fraction(Inf) = {}
  /\ Inf = ShiftLeft(Bits(MaxExponent), FracBits)
  /\ Unsigned(Inf) = MaxExponent * Pow2[FracBits]
<1> DEFINE t == ShiftLeft(Bits(MaxExponent), FracBits) \cup {}
<1>0. {} \in Below(FracBits) /\ Unsigned({}) = 0 /\ MaxExponent \in 0 .. MaxExponent
  BY UnsignedEmpty, MaxExponentIs DEF Below
<1>1. t \in Below(SignBit) /\ Exponent(t) = MaxExponent /\ Fraction(t) = {}
  <2> DEFINE x == t
  <2>1. x = ShiftLeft(Bits(MaxExponent), FracBits) \cup {}
    OBVIOUS
  <2> HIDE DEF x
  <2>2. x \in Below(SignBit) /\ Exponent(x) = MaxExponent /\ Fraction(x) = {}
    BY <1>0, <2>1, Packs
  <2> QED  BY <2>1, <2>2
<1>2. t = ShiftLeft(Bits(MaxExponent), FracBits)
  OBVIOUS
<1> HIDE DEF t
<1>3. Unsigned(t) = Pow2[FracBits] * MaxExponent + 0 /\ t \in Word
  <2>1. Unsigned(t) = Unsigned(Fraction(t)) + Pow2[FracBits] * Exponent(t) /\ t \in Word
    BY <1>1, BodyParts
  <2>2. 0 + Pow2[FracBits] * MaxExponent = Pow2[FracBits] * MaxExponent + 0
    <3>1. Pow2[FracBits] \in Nat /\ MaxExponent \in Nat
      BY FloatWidths, Powers, MaxExponentIs
    <3>2. Pow2[FracBits] * MaxExponent \in Nat
      BY <3>1
    <3> QED  BY <3>2
  <2> QED  BY <1>0, <1>1, <2>1, <2>2
<1>4. Pow2[FracBits] * MaxExponent + 0 = MaxExponent * Pow2[FracBits]
  <2>1. Pow2[FracBits] \in Nat /\ MaxExponent \in Nat
    BY FloatWidths, Powers, MaxExponentIs
  <2> QED  BY <2>1
<1>5. Inf = t
  BY <1>3, <1>4, BitsOfUnsigned DEF Inf
<1> QED  BY <1>1, <1>2, <1>3, <1>4, <1>5

(* bits.c:511 clears the sign but of what is not a number.                 *)
THEOREM FloatAbsRight ==
  ASSUME NEW uf \in Word
  PROVE  float_abs(uf) = test_float_abs(uf)
<1> DEFINE t == uf \ {SignBit}
           p == Pow2[FracBits]
           g == Unsigned(Fraction(uf))
           e == Exponent(uf)
<1>1. /\ e \in 0 .. MaxExponent /\ g \in 0 .. p - 1
      /\ Unsigned(t) = g + p * e /\ Fraction(uf) \in Below(FracBits)
  BY FloatParts
<1>2. g = 0 <=> Fraction(uf) = {}
  BY <1>1, EmptyFraction
<1>3. Unsigned(Inf) = MaxExponent * p /\ p \in Nat \ {0} /\ MaxExponent \in Nat
  BY InfIs, FloatWidths, Powers, MaxExponentIs
<1> HIDE DEF p, g, e
<1>4. Unsigned(t) > Unsigned(Inf) <=> IsNaN(uf)
  <2>1. CASE e = MaxExponent
    <3>1. p * e = MaxExponent * p /\ p * e \in Int
      BY <1>1, <1>3, <2>1
    <3>2. g + p * e > MaxExponent * p <=> g > 0
      BY <1>1, <1>3, <3>1
    <3>3. g > 0 <=> g # 0
      BY <1>1, <1>3
    <3> QED  BY <1>1, <1>2, <1>3, <2>1, <3>2, <3>3 DEF IsNaN, e
  <2>2. CASE e # MaxExponent
    <3>1. e + 1 <= MaxExponent /\ e + 1 \in Int
      BY <1>1, <1>3, <2>2
    <3>2. p * (e + 1) <= p * MaxExponent
      BY <1>3, <3>1, TimesGrows
    <3>3. p * (e + 1) = p * e + p /\ p * MaxExponent = MaxExponent * p /\ p * e \in Int
      BY <1>1, <1>3
    <3>4. ~ g + p * e > MaxExponent * p
      BY <1>1, <1>3, <3>2, <3>3
    <3> QED  BY <1>1, <1>3, <2>2, <3>4 DEF IsNaN, e
  <2> QED  BY <2>1, <2>2
<1>5. Xor(uf, {SignBit}) = t \/ ~ Negative(uf)
  BY DEF Xor, SymDiff, Negative
<1>6. ~ Negative(uf) => t = uf
  BY DEF Negative
<1>7. float_abs(uf) = IF IsNaN(uf) THEN uf ELSE t
  BY <1>4 DEF float_abs
<1> HIDE DEF t
<1> QED  BY <1>5, <1>6, <1>7 DEF test_float_abs

-----------------------------------------------------------------------------
(* Twice a float.  No two floats have the same magnitude.                  *)

LEMMA MagnitudeBounds ==
  ASSUME NEW t \in Word
  PROVE  /\ Magnitude(t) \in Nat /\ Exponent(t) \in Nat
         /\ Magnitude(t) < Pow2[FracBits] * Pow2[Exponent(t)]
         /\ Exponent(t) # 0 =>
              Magnitude(t) >= Pow2[FracBits] * Pow2[Exponent(t) - 1]
<1> DEFINE p == Pow2[FracBits]
           g == Unsigned(Fraction(t))
           e == Exponent(t)
           q == Pow2[Exponent(t) - 1]
           m == Magnitude(t)
<1>1. e \in Nat /\ g \in 0 .. p - 1 /\ p \in Nat \ {0}
  <2>1. e \in 0 .. MaxExponent /\ g \in 0 .. p - 1
    BY FloatParts
  <2> QED  BY <2>1, FloatWidths, Powers, MaxExponentIs
<1>2. CASE e = 0
  <2>1. m = g
    BY <1>2 DEF Magnitude
  <2>2. Pow2[e] = 1
    BY <1>2, Powers
  <2> HIDE DEF p, g, e, m
  <2>3. p * 1 = p
    BY <1>1
  <2>4. m \in Nat /\ m < p * Pow2[e]
    BY <1>1, <2>1, <2>2, <2>3
  <2> QED  BY <1>1, <1>2, <2>4 DEF p, e, m
<1>3. CASE e # 0
  <2>1. m = (p + g) * q
    BY <1>3 DEF Magnitude
  <2>2. Pow2[e] = 2 * q /\ q \in Nat \ {0}
    <3>1. e - 1 \in Nat /\ (e - 1) + 1 = e
      BY <1>1, <1>3
    <3> QED  BY <3>1, Powers
  <2> HIDE DEF p, g, e, m, q
  <2>3. q * p <= q * (p + g)
    BY <1>1, <2>2, TimesGrows
  <2>4. q * (p + g) <= q * (2 * p - 1)
    BY <1>1, <2>2, TimesGrows
  <2>5. /\ m = q * (p + g) /\ q * (2 * p - 1) = p * (2 * q) - q /\ q * p = p * q
        /\ m \in Nat /\ p * (2 * q) \in Nat /\ p * q \in Nat
    BY <1>1, <2>1, <2>2
  <2>6. m < p * Pow2[e] /\ m >= p * q
    BY <2>2, <2>3, <2>4, <2>5
  <2> QED  BY <1>1, <2>5, <2>6 DEF p, e, m, q
<1> QED  BY <1>2, <1>3

LEMMA MagnitudeOrder ==
  ASSUME NEW s \in Word, NEW t \in Word, Exponent(s) < Exponent(t)
  PROVE  Magnitude(s) < Magnitude(t)
<1> DEFINE p == Pow2[FracBits]
           d == Exponent(s)
           e == Exponent(t)
<1>1. /\ Magnitude(s) < p * Pow2[d] /\ Magnitude(s) \in Nat /\ d \in Nat
      /\ e # 0 => Magnitude(t) >= p * Pow2[e - 1]
      /\ Magnitude(t) \in Nat /\ e \in Nat /\ d < e
  BY MagnitudeBounds
<1> HIDE DEF p, d, e
<1>2. e # 0 /\ d <= e - 1 /\ e - 1 \in Nat
  BY <1>1
<1>3. Pow2[d] <= Pow2[e - 1] /\ Pow2[d] \in Int /\ Pow2[e - 1] \in Int
  BY <1>1, <1>2, PowersGrow, Powers
<1>4. p \in Nat
  BY FloatWidths, Powers DEF p
<1>5. /\ p * Pow2[d] <= p * Pow2[e - 1]
      /\ p * Pow2[d] \in Int /\ p * Pow2[e - 1] \in Int
  BY <1>3, <1>4, TimesGrows
<1>6. Magnitude(t) >= p * Pow2[e - 1]
  BY <1>1, <1>2
<1> QED  BY <1>1, <1>5, <1>6

LEMMA MagnitudeInjective ==
  ASSUME NEW s \in Below(SignBit), NEW t \in Below(SignBit),
         Magnitude(s) = Magnitude(t)
  PROVE  s = t
<1>0. /\ s \in Word /\ t \in Word /\ Magnitude(s) \in Nat
      /\ Exponent(s) \in Nat /\ Exponent(t) \in Nat
  BY BodyParts, MagnitudeBounds
<1>1. Exponent(s) = Exponent(t)
  <2>1. ~ Exponent(s) < Exponent(t)
    BY <1>0, MagnitudeOrder
  <2>2. ~ Exponent(t) < Exponent(s)
    BY <1>0, MagnitudeOrder
  <2> QED  BY <1>0, <2>1, <2>2
<1> DEFINE p == Pow2[FracBits]
           q == Pow2[Exponent(s) - 1]
           g == Unsigned(Fraction(s))
           h == Unsigned(Fraction(t))
<1>2. g \in 0 .. p - 1 /\ h \in 0 .. p - 1 /\ p \in Nat
  BY BodyParts, FloatWidths, Powers
<1>3. g = h
  <2>1. CASE Exponent(s) = 0
    BY <1>1, <2>1 DEF Magnitude
  <2>2. CASE Exponent(s) # 0
    <3>1. (p + g) * q = (p + h) * q
      BY <1>1, <2>2 DEF Magnitude
    <3>2. q \in Nat \ {0}
      <4>1. Exponent(s) - 1 \in Nat
        BY <1>0, <2>2
      <4> QED  BY <4>1, Powers
    <3> HIDE DEF p, q, g, h
    <3>3. g \in Int /\ h \in Int
      BY <1>2
    <3>4. q * (g - h) = 0
      BY <1>2, <3>1, <3>2, <3>3
    <3>5. g - h = 0
      BY <3>2, <3>3, <3>4
    <3> QED  BY <3>3, <3>5
  <2> QED  BY <2>1, <2>2
<1> QED  BY <1>1, <1>3, SameFloat

LEMMA DoubledIs ==
  ASSUME NEW u \in Word, NEW t \in Below(SignBit),
         Exponent(u) # MaxExponent, Exponent(t) # MaxExponent,
         Magnitude(t) = 2 * Magnitude(u)
  PROVE  Doubled(u) = (u \cap {SignBit}) \cup t
<1> DEFINE finite == {x \in SUBSET (BitPositions \ {SignBit}) : Exponent(x) # MaxExponent}
           exact == {x \in finite : Magnitude(x) = 2 * Magnitude(u)}
<1>1. SUBSET (BitPositions \ {SignBit}) = Below(SignBit)
  <2>1. BitPositions \ {SignBit} = 0 .. SignBit - 1
    BY FloatWidths DEF BitPositions
  <2> QED  BY <2>1 DEF Below
<1>2. exact = {t}
  <2>1. t \in exact
    BY <1>1
  <2>2. \A x \in exact : x = t
    <3>1. \A x \in exact : x \in Below(SignBit) /\ Magnitude(x) = Magnitude(t)
      BY <1>1
    <3> QED  BY <3>1, MagnitudeInjective
  <2> HIDE DEF exact
  <2> QED  BY <2>1, <2>2
<1>3. Doubled(u) = (u \cap {SignBit}) \cup
        (IF Exponent(u) # MaxExponent /\ exact # {} THEN CHOOSE x \in exact : TRUE ELSE Inf)
  BY DEF Doubled
<1> HIDE DEF exact
<1>4. (CHOOSE x \in exact : TRUE) = t
  BY <1>2
<1> QED  BY <1>2, <1>3, <1>4

LEMMA DoubledTooLarge ==
  ASSUME NEW u \in Word,
         \/ Exponent(u) = MaxExponent
         \/ \A t \in Below(SignBit) :
              Exponent(t) # MaxExponent => Magnitude(t) # 2 * Magnitude(u)
  PROVE  Doubled(u) = (u \cap {SignBit}) \cup Inf
<1> DEFINE finite == {x \in SUBSET (BitPositions \ {SignBit}) : Exponent(x) # MaxExponent}
           exact == {x \in finite : Magnitude(x) = 2 * Magnitude(u)}
<1>1. SUBSET (BitPositions \ {SignBit}) = Below(SignBit)
  <2>1. BitPositions \ {SignBit} = 0 .. SignBit - 1
    BY FloatWidths DEF BitPositions
  <2> QED  BY <2>1 DEF Below
<1>2. Exponent(u) = MaxExponent \/ exact = {}
  BY <1>1
<1>3. Doubled(u) = (u \cap {SignBit}) \cup
        (IF Exponent(u) # MaxExponent /\ exact # {} THEN CHOOSE x \in exact : TRUE ELSE Inf)
  BY DEF Doubled
<1> HIDE DEF exact
<1> QED  BY <1>2, <1>3

LEMMA SignApart ==
  ASSUME NEW u \in Word, NEW t \in Below(SignBit), NEW v, v = (u \cap {SignBit}) \cup t
  PROVE  v \in Word /\ Exponent(v) = Exponent(t) /\ Fraction(v) = Fraction(t)
<1>1. v \in Word /\ t = v \ {SignBit}
  BY BodyIsWord DEF Word
<1> QED  BY <1>1, FloatParts

LEMMA TwiceInfinite ==
  ASSUME NEW uf \in Word, Exponent(uf) = MaxExponent
  PROVE  float_twice(uf) = test_float_twice(uf)
<1> DEFINE b == uf \ {SignBit}
<1>1. float_twice(uf) = uf
  BY DEF float_twice
<1>2. CASE IsNaN(uf)
  BY <1>1, <1>2 DEF test_float_twice
<1>3. CASE ~ IsNaN(uf)
  <2>1. Fraction(uf) = {}
    BY <1>3 DEF IsNaN
  <2>2. b \in Below(SignBit) /\ Exponent(b) = MaxExponent /\ Fraction(b) = {}
    BY <2>1, BodyIsWord, FloatParts
  <2>3. uf = (uf \cap {SignBit}) \cup b
    OBVIOUS
  <2> HIDE DEF b
  <2>4. b = Inf
    BY <2>2, InfIs, SameFloat
  <2>5. Doubled(uf) = (uf \cap {SignBit}) \cup Inf
    BY DoubledTooLarge
  <2>6. uf = Doubled(uf)
    BY <2>3, <2>4, <2>5
  <2> QED  BY <1>1, <1>3, <2>6 DEF test_float_twice
<1> QED  BY <1>2, <1>3

LEMMA TwiceZero ==
  ASSUME NEW uf \in Word, Exponent(uf) = 0, Fraction(uf) = {}
  PROVE  float_twice(uf) = Doubled(uf)
<1> DEFINE b == uf \ {SignBit}
<1>1. float_twice(uf) = uf
  BY DEF float_twice
<1>2. b \in Below(SignBit) /\ Exponent(b) = 0 /\ Fraction(b) = {}
  BY BodyIsWord, FloatParts
<1>3. uf = (uf \cap {SignBit}) \cup b
  OBVIOUS
<1> HIDE DEF b
<1>4. Magnitude(uf) = 0 /\ Magnitude(b) = 0
  BY <1>2, UnsignedEmpty DEF Magnitude
<1>5. Magnitude(b) = 2 * Magnitude(uf)
  BY <1>4
<1>6. 0 # MaxExponent
  BY MaxExponentIs
<1> QED  BY <1>1, <1>2, <1>3, <1>5, <1>6, DoubledIs

(* A normal number: the exponent goes up, to that of infinity at most.     *)
LEMMA TwiceNormal ==
  ASSUME NEW uf \in Word, Exponent(uf) # 0, Exponent(uf) # MaxExponent
  PROVE  \/ float_twice(uf) = Doubled(uf)
         \/ PassesLargest(uf) /\ IsNaN(float_twice(uf))
<1> DEFINE e == Exponent(uf)
           f == Fraction(uf)
           t == ShiftLeft(Bits(e + 1), FracBits) \cup f
           s == uf \cap {SignBit}
           p == Pow2[FracBits]
           q == Pow2[Exponent(uf) - 1]
           g == Unsigned(f)
<1>1. float_twice(uf) = s \cup t
  <2>1. float_twice(uf) = s \cup ShiftLeft(Bits(e + 1), FracBits) \cup f
    BY DEF float_twice
  <2> QED  BY <2>1
<1>2. e \in 1 .. MaxExponent - 1 /\ f \in Below(FracBits) /\ e \in Nat
  <2>1. e \in 0 .. MaxExponent /\ f \in Below(FracBits)
    BY FloatParts
  <2> QED  BY <2>1, MaxExponentIs
<1>3. t \in Below(SignBit) /\ Exponent(t) = e + 1 /\ Fraction(t) = f
  <2>1. e + 1 \in 0 .. MaxExponent
    BY <1>2, MaxExponentIs
  <2> DEFINE x == t
  <2>2. x = ShiftLeft(Bits(e + 1), FracBits) \cup f
    OBVIOUS
  <2> HIDE DEF x
  <2>3. x \in Below(SignBit) /\ Exponent(x) = e + 1 /\ Fraction(x) = f
    BY <1>2, <2>1, <2>2, Packs
  <2> QED  BY <2>3 DEF x
<1>4. Magnitude(uf) = (p + g) * q
  BY DEF Magnitude
<1>5. /\ p \in Nat \ {0} /\ q \in Nat \ {0} /\ g \in Nat /\ Pow2[e] = 2 * q
      /\ e - 1 \in Nat
  <2>1. e - 1 \in Nat /\ (e - 1) + 1 = e
    BY <1>2
  <2> QED  BY <1>2, <2>1, FloatWidths, Powers, EmptyFraction
<1>6. CASE e + 1 # MaxExponent
  <2>1. Magnitude(t) = (p + g) * Pow2[e]
    <3>1. (e + 1) - 1 = e /\ e + 1 # 0
      BY <1>2
    <3> HIDE DEF t
    <3> QED  BY <1>3, <3>1 DEF Magnitude
  <2>2. (p + g) * (2 * q) = 2 * ((p + g) * q)
    <3> HIDE DEF p, q, g
    <3> QED  BY <1>5
  <2>3. Magnitude(t) = 2 * Magnitude(uf)
    BY <1>4, <1>5, <2>1, <2>2
  <2> HIDE DEF t
  <2>4. Doubled(uf) = s \cup t
    BY <1>3, <1>6, <2>3, DoubledIs
  <2> QED  BY <1>1, <2>4
<1>7. CASE e + 1 = MaxExponent /\ f = {}
  <2>1. Magnitude(uf) = p * q
    <3>1. g = 0
      BY <1>7, UnsignedEmpty
    <3> HIDE DEF p, q, g
    <3> QED  BY <1>4, <1>5, <3>1
  <2>2. ASSUME NEW x \in Below(SignBit), Exponent(x) # MaxExponent
        PROVE  Magnitude(x) # 2 * Magnitude(uf)
    <3> DEFINE d == Exponent(x)
    <3>1. d \in 0 .. MaxExponent /\ Magnitude(x) < p * Pow2[d] /\ Magnitude(x) \in Nat
      BY BodyParts, MagnitudeBounds
    <3> HIDE DEF d
    <3>2. d <= e /\ d \in Nat
      BY <1>2, <1>7, <2>2, <3>1, MaxExponentIs DEF d
    <3>3. Pow2[d] <= Pow2[e] /\ Pow2[d] \in Int /\ Pow2[e] \in Int
      BY <1>2, <3>2, PowersGrow, Powers
    <3>4. p * Pow2[d] <= p * Pow2[e] /\ p * Pow2[d] \in Int
      BY <1>5, <3>3, TimesGrows
    <3>5. p * Pow2[e] = 2 * (p * q) /\ p * q \in Int
      <4> HIDE DEF p, q
      <4> QED  BY <1>5
    <3> QED  BY <2>1, <3>1, <3>4, <3>5
  <2>3. Doubled(uf) = s \cup Inf
    BY <2>2, DoubledTooLarge
  <2>4. t = Inf
    BY <1>7, InfIs
  <2> QED  BY <1>1, <2>3, <2>4
<1>8. CASE e + 1 = MaxExponent /\ f # {}
  <2>1. PassesLargest(uf)
    <3>1. e = MaxExponent - 1
      BY <1>2, <1>8, MaxExponentIs
    <3> QED  BY <1>8, <3>1 DEF PassesLargest
  <2> HIDE DEF t
  <2>2. Exponent(s \cup t) = MaxExponent /\ Fraction(s \cup t) # {}
    BY <1>3, <1>8, SignApart
  <2>3. IsNaN(float_twice(uf))
    BY <1>1, <2>2 DEF IsNaN
  <2> QED  BY <2>1, <2>3
<1> QED  BY <1>6, <1>7, <1>8

(* The greatest denormal: bits.c:552 takes one from the fraction.          *)
LEMMA TwiceGreatestDenormal ==
  ASSUME NEW uf \in Word, Exponent(uf) = 0, Fraction(uf) = 0 .. FracBits - 1
  PROVE  float_twice(uf) = Doubled(uf)
<1> DEFINE p == Pow2[FracBits]
           f == Bits(p - 2)
           t == ShiftLeft(Bits(1), FracBits) \cup f
           s == uf \cap {SignBit}
<1>0. p \in Nat /\ p >= 4
  BY FloatWidths, PowersOfTwoOrMore
<1>1. Unsigned(Fraction(uf)) = p - 1 /\ Fraction(uf) # {}
  <2>1. Unsigned(Fraction(uf)) = p - 1
    BY FloatWidths, UnsignedFull
  <2>2. 0 \in 0 .. FracBits - 1
    BY FloatWidths
  <2> QED  BY <2>1, <2>2
<1>2. float_twice(uf) = s \cup t
  <2>1. float_twice(uf) = s \cup ShiftLeft(Bits(1), FracBits) \cup f
    BY <1>1, MaxExponentIs DEF float_twice
  <2> QED  BY <2>1
<1>3. f \in Below(FracBits) /\ Unsigned(f) = p - 2
  <2>1. PICK y \in Below(FracBits) : Unsigned(y) = p - 2
    <3>1. p - 2 \in 0 .. p - 1
      BY <1>0
    <3> QED  BY <3>1, FloatWidths, WordExists
  <2>2. y \in Word
    BY FloatWidths DEF Below, Word, BitPositions
  <2>3. f = y
    BY <2>1, <2>2, BitsOfUnsigned
  <2> QED  BY <2>1, <2>3
<1>4. t \in Below(SignBit) /\ Exponent(t) = 1 /\ Fraction(t) = f
  <2>1. 1 \in 0 .. MaxExponent
    BY MaxExponentIs
  <2> HIDE DEF f
  <2> DEFINE x == t
  <2>2. x = ShiftLeft(Bits(1), FracBits) \cup f
    OBVIOUS
  <2> HIDE DEF x
  <2>3. x \in Below(SignBit) /\ Exponent(x) = 1 /\ Fraction(x) = f
    BY <1>3, <2>1, <2>2, Packs
  <2> QED  BY <2>3 DEF x
<1>5. Magnitude(uf) = p - 1
  BY <1>1 DEF Magnitude
<1>6. Magnitude(t) = 2 * (p - 1)
  <2>1. Pow2[1 - 1] = 1
    <3>1. 1 - 1 = 0
      OBVIOUS
    <3> QED  BY <3>1, Powers
  <2>2. Magnitude(t) = (p + Unsigned(Fraction(t))) * Pow2[Exponent(t) - 1]
    <3>1. Exponent(t) # 0
      BY <1>4
    <3> QED  BY <3>1 DEF Magnitude
  <2>3. Magnitude(t) = (p + (p - 2)) * 1
    <3> HIDE DEF t, f
    <3> QED  BY <1>3, <1>4, <2>1, <2>2
  <2> HIDE DEF t, p
  <2> QED  BY <1>0, <2>3
<1>7. 0 # MaxExponent /\ 1 # MaxExponent
  BY MaxExponentIs
<1> HIDE DEF t
<1>8. Doubled(uf) = s \cup t
  BY <1>4, <1>5, <1>6, <1>7, DoubledIs
<1> QED  BY <1>2, <1>8

(* Any other denormal is shifted; its last bit may become an exponent of 1.*)
LEMMA TwiceDenormal ==
  ASSUME NEW uf \in Word, Exponent(uf) = 0,
         Fraction(uf) # {}, Fraction(uf) # 0 .. FracBits - 1
  PROVE  float_twice(uf) = Doubled(uf)
<1> DEFINE f == Fraction(uf)
           t == Raised(f, 1)
           s == uf \cap {SignBit}
           p == Pow2[FracBits]
           g == Unsigned(f)
<1>0. p \in Nat \ {0} /\ f \in Below(FracBits) /\ g \in 0 .. p - 1
  BY FloatParts, FloatWidths, Powers
<1>1. t \in Below(SignBit)
  <2>1. \A b \in f : b + 1 \in 0 .. SignBit - 1
    BY <1>0, FloatWidths DEF Below
  <2> QED  BY <2>1 DEF Raised, Below
<1>2. float_twice(uf) = s \cup t
  <2>1. float_twice(uf) = s \cup ShiftLeft(Bits(0), FracBits) \cup ShiftLeft(f, 1)
    BY MaxExponentIs DEF float_twice
  <2>2. ShiftLeft(Bits(0), FracBits) = {}
    BY SmallWords DEF ShiftLeft
  <2>3. ShiftLeft(f, 1) = t
    <3>1. \A b \in BitPositions : b - 1 \in f => b \in t
      <4>1. \A b \in BitPositions : b = (b - 1) + 1
        BY Widths
      <4> QED  BY <4>1 DEF Raised
    <3>2. \A b \in t : b \in BitPositions /\ b - 1 \in f
      <4>1. \A c \in f : c + 1 \in BitPositions /\ (c + 1) - 1 = c
        BY <1>0, FloatWidths DEF Below, BitPositions
      <4> QED  BY <4>1 DEF Raised
    <3> HIDE DEF t, f
    <3> QED  BY <3>1, <3>2 DEF ShiftLeft
  <2> QED  BY <2>1, <2>2, <2>3
<1>3. Unsigned(t) = 2 * g
  <2>1. Pow2[1] = 2
    <3>1. Pow2[0 + 1] = 2 * Pow2[0] /\ Pow2[0] = 1 /\ 0 + 1 = 1
      BY Powers
    <3> QED  BY <3>1
  <2> HIDE DEF f
  <2>2. Unsigned(t) = Pow2[1] * g
    BY <1>0, FloatWidths, UnsignedRaised
  <2> QED  BY <2>1, <2>2
<1>4. Magnitude(uf) = g
  BY DEF Magnitude
<1> DEFINE e == Exponent(t)
           h == Unsigned(Fraction(t))
<1>5. e \in 0 .. MaxExponent /\ h \in 0 .. p - 1 /\ 2 * g = h + p * e /\ e \in Nat
  <2> HIDE DEF t, g
  <2>1. e \in 0 .. MaxExponent /\ h \in 0 .. p - 1 /\ Unsigned(t) = h + p * e
    BY <1>1, BodyParts
  <2> QED  BY <1>3, <2>1, MaxExponentIs
<1> HIDE DEF f, t
<1>6. e \in {0, 1}
  <2> SUFFICES ASSUME e >= 2 PROVE FALSE
    <3> HIDE DEF e
    <3> QED  BY <1>5
  <2> HIDE DEF p, e, g, h
  <2>1. p * 2 <= p * e /\ p * 2 \in Int /\ p * e \in Int
    BY <1>0, <1>5, TimesGrows
  <2> QED  BY <1>0, <1>5, <2>1
<1>7. Magnitude(t) = 2 * g
  <2>1. CASE e = 0
    <3>1. Magnitude(t) = h
      BY <2>1 DEF Magnitude
    <3> HIDE DEF p, e, g, h
    <3> QED  BY <1>0, <1>5, <2>1, <3>1
  <2>2. CASE e = 1
    <3>1. Pow2[1 - 1] = 1
      <4>1. 1 - 1 = 0
        OBVIOUS
      <4> QED  BY <4>1, Powers
    <3>2. Magnitude(t) = (p + h) * Pow2[e - 1]
      BY <2>2 DEF Magnitude
    <3> HIDE DEF p, e, g, h
    <3>3. Magnitude(t) = (p + h) * 1
      BY <2>2, <3>1, <3>2
    <3> QED  BY <1>0, <1>5, <2>2, <3>3
  <2> QED  BY <1>6, <2>1, <2>2
<1>8. 0 # MaxExponent /\ e # MaxExponent
  BY <1>6, MaxExponentIs
<1>9. Doubled(uf) = s \cup t
  BY <1>1, <1>4, <1>7, <1>8, DoubledIs
<1> QED  BY <1>2, <1>9

(* bits.c:535 is 2 * f, but for finite floats of which that passes the     *)
(* largest float: it should be infinite and is not a number.               *)
THEOREM FloatTwiceRight ==
  ASSUME NEW uf \in Word
  PROVE  \/ float_twice(uf) = test_float_twice(uf)
         \/ PassesLargest(uf) /\ IsNaN(float_twice(uf))
<1>1. CASE Exponent(uf) = MaxExponent
  BY <1>1, TwiceInfinite
<1>2. CASE Exponent(uf) # MaxExponent
  <2>1. test_float_twice(uf) = Doubled(uf)
    BY <1>2 DEF test_float_twice, IsNaN
  <2>2. CASE Exponent(uf) # 0
    BY <1>2, <2>1, <2>2, TwiceNormal
  <2>3. CASE Exponent(uf) = 0
    BY <2>1, <2>3, TwiceZero, TwiceGreatestDenormal, TwiceDenormal
  <2> QED  BY <2>2, <2>3
<1> QED  BY <1>1, <1>2

-----------------------------------------------------------------------------
(* What the harness compares.                                              *)

LEMMA RatingsType == Functions = 1 .. 20 /\ \A f \in Functions : test_set[f].rating \in Int
<1>1. Functions = 1 .. 20
  BY DEF Functions, test_set
<1>2. ASSUME NEW f \in 1 .. 20 PROVE test_set[f].rating \in Int
  <2>1. /\ test_set[1].rating = 2 /\ test_set[2].rating = 4
       /\ test_set[3].rating = 1 /\ test_set[4].rating = 3
       /\ test_set[5].rating = 2
    BY DEF test_set
  <2>2. /\ test_set[6].rating = 1 /\ test_set[7].rating = 2
       /\ test_set[8].rating = 2 /\ test_set[9].rating = 4
       /\ test_set[10].rating = 1
    BY DEF test_set
  <2>3. /\ test_set[11].rating = 1 /\ test_set[12].rating = 2
       /\ test_set[13].rating = 2 /\ test_set[14].rating = 4
       /\ test_set[15].rating = 3
    BY DEF test_set
  <2>4. /\ test_set[16].rating = 2 /\ test_set[17].rating = 2
       /\ test_set[18].rating = 4 /\ test_set[19].rating = 2
       /\ test_set[20].rating = 4
    BY DEF test_set
  <2> QED  BY <2>1, <2>2, <2>3, <2>4
<1> QED  BY <1>1, <1>2

(* The two CASE expressions, arm by arm.                                   *)
LEMMA SolutionIs ==
  ASSUME NEW a
  PROVE  /\ Solution("allEvenBits", a) = allEvenBits(a[1])
         /\ Solution("bang", a) = bang(a[1])
         /\ Solution("bitAnd", a) = bitAnd(a[1], a[2])
         /\ Solution("bitMask", a) = bitMask(a[1], a[2])
         /\ Solution("copyLSB", a) = copyLSB(a[1])
         /\ Solution("evenBits", a) = evenBits
         /\ Solution("getByte", a) = getByte(a[1], a[2])
         /\ Solution("leastBitPos", a) = leastBitPos(a[1])
         /\ Solution("logicalNeg", a) = logicalNeg(a[1])
         /\ Solution("minusOne", a) = minusOne
         /\ Solution("tmax", a) = tmax
         /\ Solution("isEqual", a) = isEqual(a[1], a[2])
         /\ Solution("isNegative", a) = isNegative(a[1])
         /\ Solution("isNonZero", a) = isNonZero(a[1])
         /\ Solution("isPositive", a) = isPositive(a[1])
         /\ Solution("negate", a) = negate(a[1])
         /\ Solution("sign", a) = sign(a[1])
         /\ Solution("sm2tc", a) = sm2tc(a[1])
         /\ Solution("float_abs", a) = float_abs(a[1])
         /\ Solution("float_twice", a) = float_twice(a[1])
BY DEF Solution

LEMMA ExpectedIs ==
  ASSUME NEW a
  PROVE  /\ Expected("allEvenBits", a) = test_allEvenBits(a[1])
         /\ Expected("bang", a) = test_bang(a[1])
         /\ Expected("bitAnd", a) = test_bitAnd(a[1], a[2])
         /\ Expected("bitMask", a) = test_bitMask(a[1], a[2])
         /\ Expected("copyLSB", a) = test_copyLSB(a[1])
         /\ Expected("evenBits", a) = test_evenBits
         /\ Expected("getByte", a) = test_getByte(a[1], a[2])
         /\ Expected("leastBitPos", a) = test_leastBitPos(a[1])
         /\ Expected("logicalNeg", a) = test_logicalNeg(a[1])
         /\ Expected("minusOne", a) = test_minusOne
         /\ Expected("tmax", a) = test_tmax
         /\ Expected("isEqual", a) = test_isEqual(a[1], a[2])
         /\ Expected("isNegative", a) = test_isNegative(a[1])
         /\ Expected("isNonZero", a) = test_isNonZero(a[1])
         /\ Expected("isPositive", a) = test_isPositive(a[1])
         /\ Expected("negate", a) = test_negate(a[1])
         /\ Expected("sign", a) = test_sign(a[1])
         /\ Expected("sm2tc", a) = test_sm2tc(a[1])
         /\ Expected("float_abs", a) = test_float_abs(a[1])
         /\ Expected("float_twice", a) = test_float_twice(a[1])
BY DEF Expected

(* What gen_vals gives to the loops.                                       *)
LEMMA ValuesAre ==
  /\ gen_vals("word") \subseteq Word /\ gen_vals("not TMin") \subseteq Word
  /\ gen_vals("float") \subseteq Word /\ gen_vals("one of two words") \subseteq Word
  /\ gen_vals("bit") \subseteq 0 .. W - 1 /\ gen_vals("byte") \subseteq 0 .. 3
<1>1. \A n : Bits(n) \in Word
  BY DEF Bits, Word
<1>2. \A u \in Word : u \cup {SignBit} \in Word
  BY Widths DEF Word
<1>3. FloatTests \subseteq Word
  BY <1>1, <1>2 DEF FloatTests, Inf
<1>4. Sample \subseteq Word
  BY BtestAssumption
<1> QED  BY <1>3, <1>4 DEF gen_vals

LEMMA EntriesAre ==
  /\ test_set[1].name = "allEvenBits"
  /\ test_set[2].name = "bang"
  /\ test_set[3].name = "bitAnd"
  /\ test_set[4].name = "bitMask"
  /\ test_set[5].name = "copyLSB"
  /\ test_set[6].name = "evenBits"
  /\ test_set[7].name = "getByte"
  /\ test_set[8].name = "leastBitPos"
  /\ test_set[9].name = "logicalNeg"
  /\ test_set[10].name = "minusOne"
  /\ test_set[11].name = "tmax"
  /\ test_set[12].name = "isEqual"
  /\ test_set[13].name = "isNegative"
  /\ test_set[14].name = "isNonZero"
  /\ test_set[15].name = "isPositive"
  /\ test_set[16].name = "negate"
  /\ test_set[17].name = "sign"
  /\ test_set[18].name = "sm2tc"
  /\ test_set[19].name = "float_abs"
  /\ test_set[20].name = "float_twice"
BY DEF test_set

LEMMA RangesAre ==
  /\ test_set[1].ranges = <<"word">>
  /\ test_set[2].ranges = <<"word">>
  /\ test_set[3].ranges = <<"one of two words", "one of two words">>
  /\ test_set[4].ranges = <<"bit", "bit">>
  /\ test_set[5].ranges = <<"word">>
  /\ test_set[6].ranges = << >>
  /\ test_set[7].ranges = <<"word", "byte">>
  /\ test_set[8].ranges = <<"word">>
  /\ test_set[9].ranges = <<"word">>
  /\ test_set[10].ranges = << >>
  /\ test_set[11].ranges = << >>
  /\ test_set[12].ranges = <<"one of two words", "one of two words">>
  /\ test_set[13].ranges = <<"word">>
  /\ test_set[14].ranges = <<"word">>
  /\ test_set[15].ranges = <<"word">>
  /\ test_set[16].ranges = <<"word">>
  /\ test_set[17].ranges = <<"not TMin">>
  /\ test_set[18].ranges = <<"word">>
  /\ test_set[19].ranges = <<"float">>
  /\ test_set[20].ranges = <<"float">>
BY DEF test_set

(* The first argument is that of -1, if there is one.                      *)
LEMMA OneArgument ==
  ASSUME NEW f, NEW r, test_set[f].ranges = <<r>>, NEW a \in TestArgs(f)
  PROVE  a[1] \in argval \/ (argval = {} /\ a[1] \in gen_vals(r))
<1> DEFINE values == IF argval # {} THEN argval ELSE gen_vals(r)
<1>1. TestArgs(f) = {<<x>> : x \in values}
  <2>1. <<r>> # << >> /\ Len(<<r>>) = 1 /\ <<r>>[1] = r
    OBVIOUS
  <2> QED  BY <2>1 DEF TestArgs
<1>2. PICK x \in values : a = <<x>>
  BY <1>1
<1> QED  BY <1>2

LEMMA TwoArguments ==
  ASSUME NEW f, NEW r, NEW s, test_set[f].ranges = <<r, s>>, NEW a \in TestArgs(f),
         argval = {}
  PROVE  a[1] \in gen_vals(r) /\ a[2] \in gen_vals(s)
<1>1. TestArgs(f) = {<<x, y>> : x \in gen_vals(r), y \in gen_vals(s)}
  <2>1. <<r, s>> # << >> /\ Len(<<r, s>>) = 2 /\ <<r, s>>[1] = r /\ <<r, s>>[2] = s
    OBVIOUS
  <2> QED  BY <2>1 DEF TestArgs
<1>2. PICK x \in gen_vals(r), y \in gen_vals(s) : a = <<x, y>>
  BY <1>1
<1> QED  BY <1>2

(* -1 goes with a function that takes any word.                            *)
AgreeInv ==
  /\ tested # {} => pc = "testing" /\ tested \subseteq TestArgs(i)
  /\ pc = "testing" => i \in Functions /\ Selected(i)
  /\ argval \subseteq Word
  /\ argval # {} => test_fname \in {"sign", "float_abs", "float_twice"}

LEMMA AgreeInitInv == Init => AgreeInv
<1> SUFFICES ASSUME Init PROVE AgreeInv
  OBVIOUS
<1>1. tested = {} /\ pc = "between"
  BY DEF Init
<1>2. CASE argval = {}
  BY <1>1, <1>2 DEF AgreeInv
<1>3. CASE argval # {}
  <2>1. PICK f \in Functions :
          /\ test_fname = test_set[f].name
          /\ test_set[f].ranges \in {<<"not TMin">>, <<"float">>}
          /\ \E x \in Word : argval = {x}
    BY <1>3 DEF Init
  <2>2. f \in 1 .. 20
    BY RatingsType
  <2>3. f \in {17, 19, 20}
    <3>1. /\ <<"word">> \notin {<<"not TMin">>, <<"float">>}
          /\ << >> \notin {<<"not TMin">>, <<"float">>}
          /\ \A r, s : <<r, s>> \notin {<<"not TMin">>, <<"float">>}
      OBVIOUS
    <3>2. f \notin {1, 2, 5, 8, 9, 13, 14, 15, 16, 18}
      <4>1. \A g \in {1, 2, 5, 8, 9, 13, 14, 15, 16, 18} :
               test_set[g].ranges = <<"word">>
        BY RangesAre
      <4> QED  BY <2>1, <3>1, <4>1
    <3>3. f \notin {6, 10, 11}
      <4>1. \A g \in {6, 10, 11} : test_set[g].ranges = << >>
        BY RangesAre
      <4> QED  BY <2>1, <3>1, <4>1
    <3>4. f \notin {3, 4, 7, 12}
      <4>1. /\ test_set[3].ranges = <<"one of two words", "one of two words">>
            /\ test_set[4].ranges = <<"bit", "bit">>
            /\ test_set[7].ranges = <<"word", "byte">>
            /\ test_set[12].ranges = <<"one of two words", "one of two words">>
        BY RangesAre
      <4>2. \A g \in {3, 4, 7, 12} :
               test_set[g].ranges \notin {<<"not TMin">>, <<"float">>}
        BY <3>1, <4>1
      <4> QED  BY <2>1, <4>2
    <3> QED  BY <2>2, <3>2, <3>3, <3>4
  <2>4. test_fname \in {"sign", "float_abs", "float_twice"}
    BY <2>1, <2>3, EntriesAre
  <2> QED  BY <1>1, <2>1, <2>4 DEF AgreeInv
<1> QED  BY <1>2, <1>3

LEMMA AgreeStep == AgreeInv /\ [Next]_vars => AgreeInv'
<1> SUFFICES ASSUME AgreeInv, [Next]_vars PROVE AgreeInv'
  OBVIOUS
<1>1. CASE Start
  <2>1. /\ pc = "between" /\ pc' = "testing" /\ i \in Functions /\ Selected(i)
        /\ UNCHANGED <<test_fname, argval, i, tested>>
    BY <1>1 DEF Start
  <2>2. tested' = {} /\ Selected(i)'
    BY <2>1 DEF AgreeInv, Selected
  <2> QED  BY <2>1, <2>2 DEF AgreeInv
<1>2. CASE Call
  <2>1. /\ pc = "testing" /\ UNCHANGED <<test_fname, argval, i, pc>>
        /\ \E a \in TestArgs(i) : tested' = {a}
    BY <1>2 DEF Call
  <2>2. TestArgs(i)' = TestArgs(i) /\ (Selected(i)' <=> Selected(i))
    BY <2>1 DEF TestArgs, Selected
  <2> QED  BY <2>1, <2>2 DEF AgreeInv
<1>3. ASSUME UNCHANGED <<test_fname, argval>>, tested' = {},
             pc' # "testing" \/ (pc = "testing" /\ UNCHANGED i)
      PROVE  AgreeInv'
  <2>1. CASE pc' # "testing"
    BY <1>3, <2>1 DEF AgreeInv
  <2>2. CASE pc = "testing" /\ UNCHANGED i
    <3>1. Selected(i)' <=> Selected(i)
      BY <1>3, <2>2 DEF Selected
    <3> QED  BY <1>3, <2>2, <3>1 DEF AgreeInv
  <2> QED  BY <1>3, <2>1, <2>2
<1>4. CASE Compare \/ Return \/ Timeout
  BY <1>3, <1>4 DEF Compare, Return, Timeout
<1>5. CASE Skip \/ LateTimeout \/ Tally \/ End
  <2>1. /\ pc # "testing" /\ pc' # "testing"
        /\ UNCHANGED <<test_fname, argval, tested>>
    BY <1>5 DEF Skip, LateTimeout, Tally, End
  <2> QED  BY <1>3, <2>1 DEF AgreeInv
<1>6. CASE UNCHANGED vars
  <2>1. UNCHANGED <<test_fname, argval, i, pc, tested>>
    BY <1>6 DEF vars
  <2>2. TestArgs(i)' = TestArgs(i) /\ (Selected(i)' <=> Selected(i))
    BY <2>1 DEF TestArgs, Selected
  <2> QED  BY <2>1, <2>2 DEF AgreeInv
<1> QED  BY <1>1, <1>2, <1>4, <1>5, <1>6 DEF Next

(* Each solution agrees with its test function, on every word.             *)
Agrees(f, a) ==
  LET name == test_set[f].name
  IN  \/ Solution(name, a) = Expected(name, a)
      \/ name = "float_twice" /\ PassesLargest(a[1]) /\ IsNaN(Solution(name, a))

LEMMA AgreesOnArguments ==
  ASSUME AgreeInv, i \in Functions, Selected(i), NEW a \in TestArgs(i)
  PROVE  Agrees(i, a)
<1>0. i \in 1 .. 20
  BY RatingsType
<1>1. argval # {} => i \in {17, 19, 20}
  <2> SUFFICES ASSUME argval # {} PROVE i \in {17, 19, 20}
    OBVIOUS
  <2>1. test_set[i].name \in {"sign", "float_abs", "float_twice"}
    BY DEF AgreeInv, Selected
  <2>2. \A g \in (1 .. 20) \ {17, 19, 20} :
          test_set[g].name \notin {"sign", "float_abs", "float_twice"}
    BY EntriesAre
  <2> QED  BY <1>0, <2>1, <2>2
<1>3. argval \subseteq Word
  BY DEF AgreeInv
<1>4. CASE i \in {1, 2, 5, 8, 9}
  <2>1. argval = {}
    BY <1>1, <1>4
  <2>2. test_set[i].ranges = <<"word">>
    BY <1>4, RangesAre
  <2>3. test_set[i].name \in {"allEvenBits", "bang", "copyLSB", "leastBitPos", "logicalNeg"}
    BY <1>4, EntriesAre
  <2>4. a[1] \in Word
    BY <2>1, <2>2, OneArgument, ValuesAre
  <2> QED
    BY <2>3, <2>4, SolutionIs, ExpectedIs, AllEvenBitsRight, BangRight, CopyLSBRight,
       LeastBitPosRight DEF Agrees
<1>5. CASE i \in {13, 14, 15, 16, 18}
  <2>1. argval = {}
    BY <1>1, <1>5
  <2>2. test_set[i].ranges = <<"word">>
    BY <1>5, RangesAre
  <2>3. test_set[i].name \in {"isNegative", "isNonZero", "isPositive", "negate", "sm2tc"}
    BY <1>5, EntriesAre
  <2>4. a[1] \in Word
    BY <2>1, <2>2, OneArgument, ValuesAre
  <2> QED
    BY <2>3, <2>4, SolutionIs, ExpectedIs, IsNegativeRight, IsNonZeroRight,
       IsPositiveRight, NegateRight, Sm2tcRight DEF Agrees
<1>6. CASE i \in {6, 10, 11}
  BY <1>6, EntriesAre, SolutionIs, ExpectedIs, EvenBitsRight, MinusOneRight, TmaxRight
     DEF Agrees
<1>7. CASE i \in {3, 12}
  <2>1. argval = {}
    BY <1>1, <1>7
  <2>2. test_set[i].ranges = <<"one of two words", "one of two words">>
    BY <1>7, RangesAre
  <2>3. a[1] \in Word /\ a[2] \in Word
    BY <2>1, <2>2, TwoArguments, ValuesAre
  <2>4. test_set[i].name \in {"bitAnd", "isEqual"}
    BY <1>7, EntriesAre
  <2>5. /\ bitAnd(a[1], a[2]) = test_bitAnd(a[1], a[2])
        /\ isEqual(a[1], a[2]) = test_isEqual(a[1], a[2])
    BY <2>3, BitAndRight, IsEqualRight
  <2> QED
    BY <2>4, <2>5, SolutionIs, ExpectedIs DEF Agrees
<1>8. CASE i = 4
  <2>1. argval = {}
    BY <1>1, <1>8
  <2>2. test_set[i].ranges = <<"bit", "bit">>
    BY <1>8, RangesAre
  <2>3. a[1] \in 0 .. W - 1 /\ a[2] \in 0 .. W - 1
    BY <2>1, <2>2, TwoArguments, ValuesAre
  <2> QED
    BY <1>8, <2>3, EntriesAre, SolutionIs, ExpectedIs, BitMaskRight DEF Agrees
<1>9. CASE i = 7
  <2>1. argval = {}
    BY <1>1, <1>9
  <2>2. test_set[i].ranges = <<"word", "byte">>
    BY <1>9, RangesAre
  <2>3. a[1] \in Word /\ a[2] \in 0 .. 3
    BY <2>1, <2>2, TwoArguments, ValuesAre
  <2> QED
    BY <1>9, <2>3, EntriesAre, SolutionIs, ExpectedIs, GetByteRight DEF Agrees
<1>10. CASE i \in {17, 19, 20}
  <2>1. test_set[i].ranges = <<"not TMin">> \/ test_set[i].ranges = <<"float">>
    BY <1>10, RangesAre
  <2>2. test_set[i].name \in {"sign", "float_abs", "float_twice"}
    BY <1>10, EntriesAre
  <2>3. a[1] \in Word
    BY <1>3, <2>1, OneArgument, ValuesAre
  <2> QED
    BY <2>2, <2>3, SolutionIs, ExpectedIs, SignRight, FloatAbsRight, FloatTwiceRight
       DEF Agrees
<1> QED  BY <1>0, <1>4, <1>5, <1>6, <1>7, <1>8, <1>9, <1>10

(* On every argument that the harness tries, and every word given by -1,   *)
(* a solution returns what its function of tests.c does, but for the       *)
(* doubles of bits.c:535 that pass the largest float.                      *)
THEOREM SolutionsCorrect == Spec => []SolutionsAgree
<1>1. AgreeInv => SolutionsAgree
  <2> SUFFICES ASSUME AgreeInv, NEW a \in tested PROVE Agrees(i, a)
    BY DEF SolutionsAgree, Agrees
  <2>1. a \in TestArgs(i) /\ i \in Functions /\ Selected(i)
    BY DEF AgreeInv
  <2> QED  BY <2>1, AgreesOnArguments
<1> QED  BY <1>1, AgreeInitInv, AgreeStep, PTL DEF Spec

(* The floats that gen_vals makes: none of them is finite and passes the   *)
(* largest float when it is doubled.                                       *)

Boundary(n) ==
  /\ n \in Nat /\ n < Pow2[SignBit]
  /\ \/ n <= (MaxExponent - 1) * Pow2[FracBits]
     \/ n >= MaxExponent * Pow2[FracBits]

LEMMA BoundaryDoubles ==
  ASSUME NEW n, Boundary(n), NEW u \in {Bits(n), Bits(n) \cup {SignBit}}
  PROVE  ~ PassesLargest(u)
<1> DEFINE t == Bits(n)
           p == Pow2[FracBits]
           g == Unsigned(Fraction(u))
<1>0. SignBit \in Nat /\ n \in 0 .. Pow2[SignBit] - 1
  BY FloatWidths, Powers DEF Boundary
<1>1. t \in Below(SignBit) /\ Unsigned(t) = n
  <2>1. PICK x \in Below(SignBit) : Unsigned(x) = n
    BY <1>0, WordExists
  <2>2. Bits(n) = x
    BY <2>1, BodyIsWord, BitsOfUnsigned
  <2> QED  BY <2>1, <2>2
<1>2. u \in Word /\ u \ {SignBit} = t
  BY <1>1, BodyIsWord, Widths DEF Word
<1> SUFFICES ASSUME PassesLargest(u) PROVE FALSE
  OBVIOUS
<1>3. n = g + p * (MaxExponent - 1) /\ Fraction(u) # {} /\ Fraction(u) \in Below(FracBits)
      /\ g \in 0 .. p - 1
  <2>1. Exponent(u) = MaxExponent - 1 /\ Fraction(u) # {}
    BY DEF PassesLargest
  <2> HIDE DEF t
  <2>2. /\ Unsigned(t) = g + p * Exponent(u) /\ Fraction(u) \in Below(FracBits)
        /\ g \in 0 .. p - 1
    BY <1>2, FloatParts
  <2> QED  BY <1>1, <2>1, <2>2
<1>4. g # 0
  BY <1>3, EmptyFraction
<1>5. p \in Nat /\ MaxExponent \in Nat
  BY FloatWidths, Powers, MaxExponentIs
<1>6. n <= (MaxExponent - 1) * p \/ n >= MaxExponent * p
  BY DEF Boundary
<1> HIDE DEF t, p, g
<1> DEFINE m == MaxExponent
<1>7. /\ p * (m - 1) = (m - 1) * p /\ m * p = (m - 1) * p + p
      /\ (m - 1) * p \in Int
  <2>1. m \in Nat /\ p \in Nat
    BY <1>5
  <2> HIDE DEF m
  <2> QED  BY <2>1
<1> QED  BY <1>3, <1>4, <1>5, <1>6, <1>7

LEMMA FloatTestsDouble ==
  ASSUME NEW u \in FloatTests PROVE ~ PassesLargest(u)
<1> DEFINE p == Pow2[FracBits]
           half == Pow2[ExpBits - 1]
           m == MaxExponent
           one == (half - 1) * p
           largest == (m - 1) * p
           nan == m * p + Pow2[FracBits - 1]
           range == IF TEST_RANGE > p THEN p ELSE TEST_RANGE
           near == UNION {{k, p + k, p - k, one + k, one - k, largest - k} :
                            k \in 0 .. range - 1}
           words == {Bits(n) : n \in near \cup {nan}} \cup {Inf}
<1>1. FloatTests = words \cup {x \cup {SignBit} : x \in words}
  BY DEF FloatTests
<1>2. /\ p \in Nat \ {0} /\ half \in Nat /\ half >= 2 /\ m = 2 * half - 1
      /\ Pow2[SignBit] = p * (2 * half)
  <2>1. ExpBits - 1 \in Nat /\ (ExpBits - 1) + 1 = ExpBits /\ ExpBits \in Nat
        /\ 0 \in Nat /\ 0 + 1 = 1 /\ 1 \in Nat /\ 1 <= ExpBits - 1
    BY FloatWidths
  <2>2. Pow2[ExpBits] = 2 * half /\ half \in Nat
    BY <2>1, Powers
  <2>3. half >= 2
    <3>1. Pow2[1] = 2
      BY <2>1, Powers
    <3>2. Pow2[1] <= half
      BY <2>1, PowersGrow
    <3> QED  BY <3>1, <3>2
  <2>4. Pow2[FracBits + ExpBits] = p * Pow2[ExpBits]
    BY FloatWidths, PowersAdd
  <2>5. p \in Nat \ {0}
    BY FloatWidths, Powers
  <2> QED  BY <2>2, <2>3, <2>4, <2>5, FloatWidths, MaxExponentIs
<1>3. Pow2[FracBits - 1] \in Nat /\ Pow2[FracBits - 1] < p
  <2>1. FracBits - 1 \in Nat /\ (FracBits - 1) + 1 = FracBits
    BY FloatWidths
  <2>2. p = 2 * Pow2[FracBits - 1] /\ Pow2[FracBits - 1] \in Nat \ {0}
    BY <2>1, Powers
  <2> QED  BY <2>2
<1>4. range <= p /\ range \in Int
  BY <1>2, BtestAssumption
<1> HIDE DEF p, half, range
<1> DEFINE h == half * p
<1>5. /\ h \in Int /\ 2 * p <= h /\ one = h - p /\ largest = 2 * h - 2 * p
      /\ m * p = 2 * h - p /\ p * (2 * half) = 2 * h
  <2>1. p * 2 <= p * half /\ p * half = h
    BY <1>2, TimesGrows
  <2>2. h \in Int /\ p \in Int
    BY <1>2
  <2>3. (half - 1) * p = h - p
    BY <1>2
  <2>4. m * p = 2 * h - p /\ (m - 1) * p = 2 * h - 2 * p
    BY <1>2
  <2>5. p * (2 * half) = 2 * h
    BY <1>2
  <2> QED  BY <2>1, <2>2, <2>3, <2>4, <2>5
<1> HIDE DEF h
<1>6. \A n \in Nat : n < 2 * h /\ (n <= 2 * h - 2 * p \/ n >= 2 * h - p) => Boundary(n)
  BY <1>2, <1>5 DEF Boundary, p
<1>7. \A n \in near : Boundary(n)
  <2> SUFFICES ASSUME NEW k \in 0 .. range - 1,
                      NEW n \in {k, p + k, p - k, one + k, one - k, largest - k}
               PROVE  Boundary(n)
    OBVIOUS
  <2>1. k \in Int /\ 0 <= k /\ k < p
    BY <1>2, <1>4
  <2>2. n \in Nat /\ n <= 2 * h - 2 * p /\ n < 2 * h
    <3> HIDE DEF one, largest
    <3> QED  BY <1>2, <1>5, <2>1
  <2> QED  BY <1>6, <2>2
<1>8. Boundary(nan) /\ Boundary(m * p)
  <2>1. nan \in Nat /\ nan < 2 * h /\ nan >= 2 * h - p
    <3>1. nan = 2 * h - p + Pow2[FracBits - 1]
      BY <1>5
    <3> HIDE DEF nan
    <3> QED  BY <1>2, <1>3, <1>5, <3>1
  <2>2. m * p \in Nat /\ m * p < 2 * h /\ m * p >= 2 * h - p
    BY <1>2, <1>5
  <2> HIDE DEF nan, m
  <2> QED  BY <1>6, <2>1, <2>2
<1> HIDE DEF near, nan
<1>9. \A x \in words : \E n : Boundary(n) /\ x = Bits(n)
  <2>1. Inf = Bits(m * p)
    BY DEF Inf, p
  <2> QED  BY <1>7, <1>8, <2>1
<1> HIDE DEF words
<1>10. PICK x \in words : u \in {x, x \cup {SignBit}}
  BY <1>1
<1>11. PICK n : Boundary(n) /\ x = Bits(n)
  BY <1>9
<1> QED  BY <1>10, <1>11, BoundaryDoubles

(* The solutions agree on the arguments that the harness tries by itself.  *)
TestedAgree ==
  argval = {} =>
    \A a \in tested : Solution(test_set[i].name, a) = Expected(test_set[i].name, a)

LEMMA AgreeOnTests == AgreeInv => TestedAgree
<1> SUFFICES ASSUME AgreeInv, argval = {}, NEW a \in tested
             PROVE  Solution(test_set[i].name, a) = Expected(test_set[i].name, a)
  BY DEF TestedAgree
<1>1. a \in TestArgs(i) /\ i \in Functions /\ Selected(i)
  BY DEF AgreeInv
<1>2. Agrees(i, a)
  BY <1>1, AgreesOnArguments
<1>3. ASSUME test_set[i].name = "float_twice" PROVE ~ PassesLargest(a[1])
  <2>1. i \in 1 .. 20
    BY <1>1, RatingsType
  <2>2. i = 20
    <3>1. \A g \in 1 .. 19 : test_set[g].name # "float_twice"
      BY EntriesAre
    <3> QED  BY <1>3, <2>1, <3>1
  <2>3. test_set[i].ranges = <<"float">>
    BY <2>2, RangesAre
  <2>4. a[1] \in gen_vals("float")
    BY <1>1, <2>3, OneArgument
  <2>5. gen_vals("float") = FloatTests
    BY DEF gen_vals
  <2> QED  BY <2>4, <2>5, FloatTestsDouble
<1> QED  BY <1>2, <1>3 DEF Agrees

-----------------------------------------------------------------------------
(* The tally of run_tests.                                                 *)

Ratings == [f \in Functions |-> test_set[f].rating]
Rated(fs) == MapThenSumSet(LAMBDA f : test_set[f].rating, fs)

(* The functions before entry k that are tested.                           *)
ChosenBefore(k) == {f \in 1 .. k - 1 : Selected(f)}

ScoreInv ==
  /\ i \in 1 .. 21 /\ timedout \subseteq 1 .. i
  /\ pc \in {"between", "testing", "tested", "end", "undefined"}
  /\ pc \in {"between", "end", "testing"} => timedout \subseteq 1 .. i - 1
  /\ pc \in {"testing", "tested"} => i \in Functions /\ Selected(i)
  /\ pc = "testing" /\ argval = {} => errors = 0
  /\ pc = "tested" /\ argval = {} => (errors = 0 <=> i \notin timedout)
  /\ pc = "end" => i = 21
  /\ max_points = Rated(ChosenBefore(i))
  /\ argval = {} => points = Rated(ChosenBefore(i) \ timedout)

LEMMA RatedIsSum ==
  ASSUME NEW fs, fs \subseteq Functions
  PROVE  Rated(fs) = SumOf(Ratings, fs)
<1> DEFINE AddsRatings(h) ==
      h = [s \in SUBSET fs |->
             IF s = {} THEN 0 ELSE test_set[Chosen(s)].rating + h[s \ {Chosen(s)}]]
<1>1. Rated(fs) = (CHOOSE h : AddsRatings(h))[fs]
  BY DEF Rated, MapThenSumSet, MapThenFoldSet, Chosen
<1>2. ASSUME NEW s \in SUBSET fs, s # {}
      PROVE  test_set[Chosen(s)].rating = Ratings[Chosen(s)]
  <2>1. Chosen(s) \in Functions
    BY <1>2 DEF Chosen
  <2> QED  BY <2>1 DEF Ratings
<1>3. \A h : AddsRatings(h) <=> Adds(h, Ratings, fs)
  BY <1>2 DEF Adds
<1> HIDE DEF AddsRatings
<1>4. (CHOOSE h : AddsRatings(h)) = (CHOOSE h : Adds(h, Ratings, fs))
  BY <1>3
<1> QED  BY <1>1, <1>4, SumIsChosen

LEMMA FunctionsFinite == IsFiniteSet(Functions)
<1>1. IsFiniteSet(1 .. 20)
  <2>1. 1 \in Int /\ 20 \in Int  OBVIOUS
  <2> QED  BY <2>1, FS_Interval
<1> QED  BY <1>1, RatingsType

LEMMA RatedAdds ==
  ASSUME NEW fs, fs \subseteq Functions, NEW f \in Functions, f \notin fs
  PROVE  Rated(fs \cup {f}) = Rated(fs) + test_set[f].rating
<1> DEFINE gs == fs \cup {f}
<1>1. gs \subseteq Functions /\ f \in gs /\ gs \ {f} = fs
  OBVIOUS
<1>2. IsFiniteSet(gs)
  <2> HIDE DEF gs
  <2>1. gs \in SUBSET Functions
    BY <1>1
  <2> QED  BY <2>1, FunctionsFinite, FS_Subset
<1>3. /\ \A e \in gs : Ratings[e] \in Int
      /\ Ratings[f] = test_set[f].rating /\ Ratings[f] \in Int
  BY <1>1, RatingsType DEF Ratings
<1>4. Rated(gs) = SumOf(Ratings, gs) /\ Rated(fs) = SumOf(Ratings, fs)
  BY <1>1, RatedIsSum
<1> HIDE DEF gs
<1>5. /\ SumOf(Ratings, gs \ {f}) \in Int
      /\ SumOf(Ratings, gs) = Ratings[f] + SumOf(Ratings, gs \ {f})
  BY <1>1, <1>2, <1>3, SumRemoves
<1>6. Rated(gs) = Rated(fs) + test_set[f].rating
  <2>1. SumOf(Ratings, gs \ {f}) = Rated(fs)
    BY <1>1, <1>4
  <2>2. Rated(fs) \in Int /\ Rated(gs) = Ratings[f] + Rated(fs)
    BY <1>4, <1>5, <2>1
  <2> QED  BY <1>3, <2>2
<1> QED  BY <1>6 DEF gs

LEMMA RatedInteger ==
  ASSUME NEW fs, fs \subseteq Functions
  PROVE  Rated(fs) \in Int
<1>1. IsFiniteSet(Functions) /\ \A e \in Functions : Ratings[e] \in Int
  BY RatingsType, FunctionsFinite DEF Ratings
<1>2. PICK h : Adds(h, Ratings, Functions)
  BY <1>1, SumExists
<1>3. SumOf(Ratings, fs) \in Int
  BY <1>1, <1>2, SumOfSubset
<1> QED  BY <1>3, RatedIsSum

LEMMA RatedNothing == Rated({}) = 0
BY RatedIsSum, SumEmpty

LEMMA ChosenNext ==
  ASSUME NEW k \in 1 .. 20
  PROVE  /\ ChosenBefore(k) \subseteq Functions /\ k \notin ChosenBefore(k)
         /\ Selected(k) => ChosenBefore(k + 1) = ChosenBefore(k) \cup {k}
         /\ ~ Selected(k) => ChosenBefore(k + 1) = ChosenBefore(k)
BY RatingsType DEF ChosenBefore

LEMMA ScoreInitInv == Init => ScoreInv
<1> SUFFICES ASSUME Init PROVE ScoreInv
  OBVIOUS
<1>1. /\ i = 1 /\ pc = "between" /\ timedout = {}
      /\ points = 0 /\ max_points = 0
  BY DEF Init
<1>2. ChosenBefore(1) = {}
  BY DEF ChosenBefore
<1>3. ChosenBefore(i) = {} /\ ChosenBefore(i) \ timedout = {}
  BY <1>1, <1>2
<1>4. /\ max_points = Rated(ChosenBefore(i))
      /\ points = Rated(ChosenBefore(i) \ timedout)
  BY <1>1, <1>3, RatedNothing
<1> QED  BY <1>1, <1>4 DEF ScoreInv

LEMMA TallyInv == ScoreInv /\ Tally => ScoreInv'
<1> SUFFICES ASSUME ScoreInv, Tally PROVE ScoreInv'
  OBVIOUS
<1>1. /\ pc = "tested" /\ pc' = "between" /\ i' = i + 1
      /\ points' = points + (IF errors = 0 THEN test_set[i].rating ELSE 0)
      /\ max_points' = max_points + test_set[i].rating
      /\ UNCHANGED <<test_fname, argval, errors, timedout>>
  BY DEF Tally
<1>2. /\ i \in 1 .. 20 /\ i \in Functions /\ Selected(i)
      /\ timedout \subseteq 1 .. i
      /\ max_points = Rated(ChosenBefore(i))
  BY <1>1, RatingsType DEF ScoreInv
<1>3. ChosenBefore(i)' = ChosenBefore(i) \cup {i}
  <2>1. ChosenBefore(i)' = ChosenBefore(i + 1)
    BY <1>1 DEF ChosenBefore, Selected
  <2> QED  BY <1>2, <2>1, ChosenNext
<1>4. ChosenBefore(i) \subseteq Functions /\ i \notin ChosenBefore(i)
  BY <1>2, ChosenNext
<1>5. max_points' = Rated(ChosenBefore(i)')
  BY <1>1, <1>2, <1>3, <1>4, RatedAdds
<1>6. ASSUME argval = {} PROVE points' = Rated(ChosenBefore(i)' \ timedout)
  <2>1. points = Rated(ChosenBefore(i) \ timedout) /\ (errors = 0 <=> i \notin timedout)
    BY <1>1, <1>6 DEF ScoreInv
  <2>2. CASE errors = 0
    <3>1. /\ ChosenBefore(i)' \ timedout = (ChosenBefore(i) \ timedout) \cup {i}
          /\ ChosenBefore(i) \ timedout \subseteq Functions
          /\ i \notin ChosenBefore(i) \ timedout
      BY <1>3, <1>4, <2>1, <2>2
    <3>2. Rated(ChosenBefore(i)' \ timedout)
            = Rated(ChosenBefore(i) \ timedout) + test_set[i].rating
      BY <1>2, <3>1, RatedAdds
    <3>3. points' = points + test_set[i].rating
      BY <1>1, <2>2
    <3>4. points = Rated(ChosenBefore(i) \ timedout)
      BY <2>1
    <3> QED  BY <3>2, <3>3, <3>4, Zenon
  <2>3. CASE errors # 0
    <3>1. ChosenBefore(i)' \ timedout = ChosenBefore(i) \ timedout
      BY <1>3, <2>1, <2>3
    <3>2. points' = points + 0
      BY <1>1, <2>3
    <3>3. points \in Int
      BY <1>4, <2>1, RatedInteger
    <3>4. points' = points
      BY <3>2, <3>3
    <3>5. Rated(ChosenBefore(i)' \ timedout) = Rated(ChosenBefore(i) \ timedout)
      BY <3>1
    <3>6. points = Rated(ChosenBefore(i) \ timedout)
      BY <2>1
    <3> QED  BY <3>4, <3>5, <3>6, Zenon
  <2> QED  BY <2>2, <2>3
<1>7. i' \in 1 .. 21 /\ timedout' \subseteq 1 .. i' /\ timedout' \subseteq 1 .. i' - 1
  BY <1>1, <1>2
<1> QED  BY <1>1, <1>5, <1>6, <1>7 DEF ScoreInv

LEMMA SkipInv == ScoreInv /\ Skip => ScoreInv'
<1> SUFFICES ASSUME ScoreInv, Skip PROVE ScoreInv'
  OBVIOUS
<1>1. /\ pc = "between" /\ pc' = "between" /\ i' = i + 1 /\ ~ Selected(i)
      /\ i \in 1 .. 20
      /\ UNCHANGED <<test_fname, argval, timedout, points, max_points>>
  BY RatingsType DEF Skip
<1>2. /\ timedout \subseteq 1 .. i - 1
      /\ max_points = Rated(ChosenBefore(i))
      /\ argval = {} => points = Rated(ChosenBefore(i) \ timedout)
  BY <1>1 DEF ScoreInv
<1>3. ChosenBefore(i)' = ChosenBefore(i)
  <2>1. ChosenBefore(i)' = ChosenBefore(i + 1)
    BY <1>1 DEF ChosenBefore, Selected
  <2> QED  BY <1>1, <2>1, ChosenNext
<1>4. i' \in 1 .. 21 /\ timedout' \subseteq 1 .. i' /\ timedout' \subseteq 1 .. i' - 1
  BY <1>1, <1>2
<1> QED  BY <1>1, <1>2, <1>3, <1>4 DEF ScoreInv

(* A function that is cut off was not counted yet.                         *)
LEMMA TimeoutInv == ScoreInv /\ Timeout => ScoreInv'
<1> SUFFICES ASSUME ScoreInv, Timeout PROVE ScoreInv'
  OBVIOUS
<1>1. /\ pc = "testing" /\ pc' = "tested" /\ errors' = 1
      /\ timedout' = timedout \cup {i}
      /\ UNCHANGED <<test_fname, argval, i, points, max_points>>
  BY DEF Timeout
<1>2. /\ timedout \subseteq 1 .. i - 1 /\ i \in Functions /\ Selected(i)
      /\ i \in 1 .. 20
      /\ max_points = Rated(ChosenBefore(i))
      /\ argval = {} => points = Rated(ChosenBefore(i) \ timedout)
  BY <1>1, RatingsType DEF ScoreInv
<1>3. ChosenBefore(i)' = ChosenBefore(i) /\ (Selected(i)' <=> Selected(i))
  BY <1>1 DEF ChosenBefore, Selected
<1>4. ChosenBefore(i) \ timedout' = ChosenBefore(i) \ timedout
  BY <1>1, <1>2, ChosenNext
<1>5. timedout' \subseteq 1 .. i' /\ i' \in 1 .. 21
  BY <1>1, <1>2
<1> QED  BY <1>1, <1>2, <1>3, <1>4, <1>5 DEF ScoreInv

LEMMA CompareInv == ScoreInv /\ TestedAgree /\ Compare => ScoreInv'
<1> SUFFICES ASSUME ScoreInv, TestedAgree, Compare PROVE ScoreInv'
  OBVIOUS
<1>1. /\ pc = "testing"
      /\ UNCHANGED <<test_fname, argval, i, timedout, points, max_points>>
      /\ UNCHANGED <<pc, errors>> \/ (pc' = "tested" /\ argval # {})
  BY DEF Compare, TestedAgree
<1>2. ChosenBefore(i)' = ChosenBefore(i) /\ (Selected(i)' <=> Selected(i))
  BY <1>1 DEF ChosenBefore, Selected
<1> QED  BY <1>1, <1>2 DEF ScoreInv

LEMMA ScoreStep == ScoreInv /\ TestedAgree /\ [Next]_vars => ScoreInv'
<1> SUFFICES ASSUME ScoreInv, TestedAgree, [Next]_vars PROVE ScoreInv'
  OBVIOUS
<1>1. ASSUME UNCHANGED <<test_fname, i>>
      PROVE  ChosenBefore(i)' = ChosenBefore(i) /\ (Selected(i)' <=> Selected(i))
  BY <1>1 DEF ChosenBefore, Selected
<1>2. CASE Skip  BY <1>2, SkipInv
<1>3. CASE Start
  <2>1. /\ pc = "between" /\ pc' = "testing" /\ errors' = 0
        /\ i \in Functions /\ Selected(i)
        /\ UNCHANGED <<test_fname, argval, i, timedout, points, max_points>>
    BY <1>3 DEF Start
  <2> QED  BY <1>1, <2>1 DEF ScoreInv
<1>4. CASE Call
  <2>1. UNCHANGED <<test_fname, argval, i, pc, errors, timedout, points, max_points>>
    BY <1>4 DEF Call
  <2> QED  BY <1>1, <2>1 DEF ScoreInv
<1>5. CASE Compare  BY <1>5, CompareInv
<1>6. CASE Return
  <2>1. /\ pc = "testing" /\ pc' = "tested"
        /\ UNCHANGED <<test_fname, argval, i, errors, timedout, points, max_points>>
    BY <1>6 DEF Return
  <2>2. i \notin 1 .. i - 1
    BY DEF ScoreInv
  <2> QED  BY <1>1, <2>1, <2>2 DEF ScoreInv
<1>7. CASE Timeout  BY <1>7, TimeoutInv
<1>8. CASE LateTimeout
  <2>1. /\ pc' = "undefined"
        /\ UNCHANGED <<test_fname, argval, i, errors, timedout, points, max_points>>
    BY <1>8 DEF LateTimeout
  <2> QED  BY <1>1, <2>1 DEF ScoreInv
<1>9. CASE Tally  BY <1>9, TallyInv
<1>10. CASE End
  <2>1. /\ pc = "between" /\ pc' = "end" /\ i \notin 1 .. 20
        /\ UNCHANGED <<test_fname, argval, i, errors, timedout, points, max_points>>
    BY <1>10, RatingsType DEF End
  <2>2. i = 21
    BY <2>1 DEF ScoreInv
  <2> QED  BY <1>1, <2>1, <2>2 DEF ScoreInv
<1>11. CASE UNCHANGED vars
  <2>1. UNCHANGED <<test_fname, argval, i, pc, errors, timedout, points, max_points>>
    BY <1>11 DEF vars
  <2> QED  BY <1>1, <2>1 DEF ScoreInv
<1> QED
  BY <1>2, <1>3, <1>4, <1>5, <1>6, <1>7, <1>8, <1>9, <1>10, <1>11 DEF Next

(* The tally of run_tests is right for every order of functions, named or  *)
(* not, and of timeouts.                                                   *)
THEOREM TallyCorrect == Spec => []ScoresTheRight
<1>1. ScoreInv => ScoresTheRight
  <2> SUFFICES ASSUME ScoreInv, pc = "end"
               PROVE  /\ max_points = Rated({f \in Functions : Selected(f)})
                      /\ argval = {} =>
                           points = Rated({f \in Functions : Selected(f)} \ timedout)
    BY DEF ScoresTheRight, Rated
  <2>1. i = 21
    BY DEF ScoreInv
  <2>2. ChosenBefore(i) = {f \in Functions : Selected(f)}
    BY <2>1, RatingsType DEF ChosenBefore
  <2> QED  BY <2>2 DEF ScoreInv
<1>2. AgreeInv /\ ScoreInv /\ [Next]_vars => (AgreeInv /\ ScoreInv)'
  BY AgreeStep, AgreeOnTests, ScoreStep
<1> QED  BY <1>1, <1>2, AgreeInitInv, ScoreInitInv, PTL DEF Spec

=============================================================================
