------------------------------- MODULE Btest -------------------------------
(***************************************************************************)
(* The test harness of lab1: btest.c runs each solution of bits.c against  *)
(* its function of tests.c, on arguments from the ranges of decl.c, under  *)
(* an alarm, and adds up the ratings of the functions that agree.          *)
(***************************************************************************)
EXTENDS Puzzles, Sequences

CONSTANTS TEST_RANGE,    \* how far the float samples go from a boundary
          Sample,        \* the words that functions of two words are tested on
          MaxTimeouts    \* bounds the functions that are cut off

ASSUME BtestAssumption ==
  TEST_RANGE \in Nat \ {0} /\ Sample \subseteq Word /\ MaxTimeouts \in Nat

VARIABLES
  test_fname,   \* the function named by -f, or ""
  argval,       \* the first argument given by -1: a set of at most one
  i,            \* the entry of test_set that run_tests has reached
  pc,           \* run_tests between two functions, inside test_function,
                \* back from it, at the end, or nowhere a C program can be
  tested,       \* the last arguments of the function under test: a set of
                \* at most one tuple
  errors,       \* of the function under test
  timedout,     \* history: the functions that were cut off
  alarm,        \* an alarm is set
  points, max_points

vars == <<test_fname, argval, i, pc, tested, errors, timedout, alarm,
          points, max_points>>

-----------------------------------------------------------------------------
(* decl.c: name, rating, and how the ranges of the arguments read.         *)

test_set == <<
  [name |-> "allEvenBits", rating |-> 2, ranges |-> <<"word">>],
  [name |-> "bang",        rating |-> 4, ranges |-> <<"word">>],
  [name |-> "bitAnd",      rating |-> 1, ranges |-> <<"one of two words", "one of two words">>],
  [name |-> "bitMask",     rating |-> 3, ranges |-> <<"bit", "bit">>],
  [name |-> "copyLSB",     rating |-> 2, ranges |-> <<"word">>],
  [name |-> "evenBits",    rating |-> 1, ranges |-> << >>],
  [name |-> "getByte",     rating |-> 2, ranges |-> <<"word", "byte">>],
  [name |-> "leastBitPos", rating |-> 2, ranges |-> <<"word">>],
  [name |-> "logicalNeg",  rating |-> 4, ranges |-> <<"word">>],
  [name |-> "minusOne",    rating |-> 1, ranges |-> << >>],
  [name |-> "tmax",        rating |-> 1, ranges |-> << >>],
  [name |-> "isEqual",     rating |-> 2, ranges |-> <<"one of two words", "one of two words">>],
  [name |-> "isNegative",  rating |-> 2, ranges |-> <<"word">>],
  [name |-> "isNonZero",   rating |-> 4, ranges |-> <<"word">>],
  [name |-> "isPositive",  rating |-> 3, ranges |-> <<"word">>],
  [name |-> "negate",      rating |-> 2, ranges |-> <<"word">>],
  [name |-> "sign",        rating |-> 2, ranges |-> <<"not TMin">>],
  [name |-> "sm2tc",       rating |-> 4, ranges |-> <<"word">>],
  [name |-> "float_abs",   rating |-> 2, ranges |-> <<"float">>],
  [name |-> "float_twice", rating |-> 4, ranges |-> <<"float">>] >>

Functions == DOMAIN test_set

(* The calls of test_0_arg, test_1_arg and test_2_arg.                     *)
Solution(name, a) ==
  CASE name = "allEvenBits" -> allEvenBits(a[1])
    [] name = "bang"        -> bang(a[1])
    [] name = "bitAnd"      -> bitAnd(a[1], a[2])
    [] name = "bitMask"     -> bitMask(a[1], a[2])
    [] name = "copyLSB"     -> copyLSB(a[1])
    [] name = "evenBits"    -> evenBits
    [] name = "getByte"     -> getByte(a[1], a[2])
    [] name = "leastBitPos" -> leastBitPos(a[1])
    [] name = "logicalNeg"  -> logicalNeg(a[1])
    [] name = "minusOne"    -> minusOne
    [] name = "tmax"        -> tmax
    [] name = "isEqual"     -> isEqual(a[1], a[2])
    [] name = "isNegative"  -> isNegative(a[1])
    [] name = "isNonZero"   -> isNonZero(a[1])
    [] name = "isPositive"  -> isPositive(a[1])
    [] name = "negate"      -> negate(a[1])
    [] name = "sign"        -> sign(a[1])
    [] name = "sm2tc"       -> sm2tc(a[1])
    [] name = "float_abs"   -> float_abs(a[1])
    [] name = "float_twice" -> float_twice(a[1])

Expected(name, a) ==
  CASE name = "allEvenBits" -> test_allEvenBits(a[1])
    [] name = "bang"        -> test_bang(a[1])
    [] name = "bitAnd"      -> test_bitAnd(a[1], a[2])
    [] name = "bitMask"     -> test_bitMask(a[1], a[2])
    [] name = "copyLSB"     -> test_copyLSB(a[1])
    [] name = "evenBits"    -> test_evenBits
    [] name = "getByte"     -> test_getByte(a[1], a[2])
    [] name = "leastBitPos" -> test_leastBitPos(a[1])
    [] name = "logicalNeg"  -> test_logicalNeg(a[1])
    [] name = "minusOne"    -> test_minusOne
    [] name = "tmax"        -> test_tmax
    [] name = "isEqual"     -> test_isEqual(a[1], a[2])
    [] name = "isNegative"  -> test_isNegative(a[1])
    [] name = "isNonZero"   -> test_isNonZero(a[1])
    [] name = "isPositive"  -> test_isPositive(a[1])
    [] name = "negate"      -> test_negate(a[1])
    [] name = "sign"        -> test_sign(a[1])
    [] name = "sm2tc"       -> test_sm2tc(a[1])
    [] name = "float_abs"   -> test_float_abs(a[1])
    [] name = "float_twice" -> test_float_twice(a[1])

-----------------------------------------------------------------------------
(* gen_vals.  A range of integers is tested whole if it is small, and      *)
(* otherwise near its boundaries, around zero and at random values: either *)
(* way every value of it may be tested.  A float is tested near zero, near *)
(* the least and below the greatest normal number, near one, and at        *)
(* infinity and a value that is not a number.  Functions of two words are  *)
(* tested on the pairs from Sample, a bound of the model.                  *)

FloatTests ==
  LET smallest_norm == Pow2[FracBits]
      one == (Pow2[ExpBits - 1] - 1) * Pow2[FracBits]
      largest_norm == (MaxExponent - 1) * Pow2[FracBits]
      nan == MaxExponent * Pow2[FracBits] + Pow2[FracBits - 1]
      range == IF TEST_RANGE > Pow2[FracBits] THEN Pow2[FracBits] ELSE TEST_RANGE
      near == UNION {{k, smallest_norm + k, smallest_norm - k,
                      one + k, one - k, largest_norm - k} : k \in 0 .. range - 1}
      words == {Bits(n) : n \in near \cup {nan}} \cup {Inf}
  IN  words \cup {u \cup {SignBit} : u \in words}

gen_vals(range) ==
  CASE range = "word"     -> Word
    [] range = "one of two words" -> Sample
    [] range = "not TMin" -> Word \ {{SignBit}}
    [] range = "bit"      -> 0 .. W - 1
    [] range = "byte"     -> 0 .. 3
    [] range = "float"    -> FloatTests

TestArgs(f) ==
  LET ranges == test_set[f].ranges
      Vals(k) == IF k = 1 /\ argval # {} THEN argval ELSE gen_vals(ranges[k])
  IN  IF ranges = << >> THEN {<< >>}
      ELSE IF Len(ranges) = 1 THEN {<<x>> : x \in Vals(1)}
      ELSE {<<x, y>> : x \in Vals(1), y \in Vals(2)}

-----------------------------------------------------------------------------
(* The command line.  -1 goes with -f, and is modelled where it reaches an *)
(* argument that no range does: for sign and the floats.  The first        *)
(* arguments of the others are words, which are tested without it (those   *)
(* of bitAnd and isEqual as far as Sample goes), or the bits of bitMask,   *)
(* which are all tested; outside 0 .. W - 1 its shifts are undefined.  -2  *)
(* is left out: the second arguments are such words and bits, and bytes of *)
(* getByte; -3 has no function.  The timeout is the default, so that the   *)
(* alarm is always set.                                                    *)

Init ==
  /\ \/ test_fname = "" /\ argval = {}
     \/ \E f \in Functions :
          /\ test_fname = test_set[f].name
          /\ \/ argval = {}
             \/ /\ test_set[f].ranges \in {<<"not TMin">>, <<"float">>}
                /\ \E x \in Word : argval = {x}
  /\ i = 1 /\ pc = "between" /\ tested = {}
  /\ errors = 0 /\ timedout = {} /\ alarm = FALSE
  /\ points = 0 /\ max_points = 0

Selected(f) == test_fname \in {"", test_set[f].name}

Skip ==
  /\ pc = "between" /\ i \in Functions /\ ~ Selected(i)
  /\ i' = i + 1
  /\ UNCHANGED <<test_fname, argval, pc, tested, errors, timedout, alarm,
                 points, max_points>>

(* test_function up to its loops: it sets the alarm anew.                  *)
(* Mutant: the errors of the function before are kept.                     *)
StartKeepsErrors ==
  /\ pc = "between" /\ i \in Functions /\ Selected(i)
  /\ pc' = "testing" /\ alarm' = TRUE
  /\ UNCHANGED <<test_fname, argval, i, tested, errors, timedout, points,
                 max_points>>
Start ==
  /\ pc = "between" /\ i \in Functions /\ Selected(i)
  /\ pc' = "testing" /\ alarm' = TRUE /\ errors' = 0
  /\ UNCHANGED <<test_fname, argval, i, tested, timedout, points, max_points>>

(* One round of the loops: a call of the solution and of the test function *)
(* on some arguments, and the comparison of what they return; an error     *)
(* ends the loops, and so does the end of the test values.                 *)
Call ==
  /\ pc = "testing" /\ tested = {}
  /\ \E a \in TestArgs(i) : tested' = {a}
  /\ UNCHANGED <<test_fname, argval, i, pc, errors, timedout, alarm, points,
                 max_points>>

Compare ==
  /\ pc = "testing"
  /\ \E a \in tested :
       IF Solution(test_set[i].name, a) = Expected(test_set[i].name, a)
         THEN UNCHANGED <<pc, errors>>
         ELSE pc' = "tested" /\ errors' = 1
  /\ tested' = {}
  /\ UNCHANGED <<test_fname, argval, i, timedout, alarm, points, max_points>>

Return ==
  /\ pc = "testing" /\ tested = {}
  /\ pc' = "tested"
  /\ UNCHANGED <<test_fname, argval, i, tested, errors, timedout, alarm,
                 points, max_points>>

(* SIGALRM while test_function runs: siglongjmp goes back to where the     *)
(* alarm was set, and the function fails.                                  *)
Timeout ==
  /\ pc = "testing" /\ alarm /\ Cardinality(timedout) < MaxTimeouts
  /\ alarm' = FALSE /\ errors' = 1 /\ timedout' = timedout \cup {i}
  /\ pc' = "tested" /\ tested' = {}
  /\ UNCHANGED <<test_fname, argval, i, points, max_points>>

(* Nothing cancels the alarm when test_function returns.  If it goes off   *)
(* then, siglongjmp jumps into a call that is over, and what follows is    *)
(* undefined.                                                              *)
LateTimeout ==
  /\ pc \in {"tested", "between"} /\ alarm
  /\ alarm' = FALSE /\ pc' = "undefined"
  /\ UNCHANGED <<test_fname, argval, i, tested, errors, timedout, points,
                 max_points>>

(* The tally in run_tests.                                                 *)
Tally ==
  /\ pc = "tested"
  /\ points' = points + (IF errors = 0 THEN test_set[i].rating ELSE 0)
  /\ max_points' = max_points + test_set[i].rating
  /\ i' = i + 1 /\ pc' = "between"
  /\ UNCHANGED <<test_fname, argval, tested, errors, timedout, alarm>>

End ==
  /\ pc = "between" /\ i \notin Functions
  /\ pc' = "end" /\ alarm' = FALSE
  /\ UNCHANGED <<test_fname, argval, i, tested, errors, timedout, points,
                 max_points>>

Next ==
  \/ Skip \/ Start \/ Call \/ Compare \/ Return \/ Timeout \/ LateTimeout \/ Tally \/ End

Spec == Init /\ [][Next]_vars

-----------------------------------------------------------------------------
(* Twice a finite float that is greater than half of the largest, and is   *)
(* no power of two: it has the last exponent but one.                      *)
PassesLargest(u) == Exponent(u) = MaxExponent - 1 /\ Fraction(u) # {}

(* Each solution computes what its function of tests.c says, on every word *)
(* and not only on the samples, but for float_twice (bits.c:535) on floats *)
(* whose double passes the largest one.                                    *)
SolutionsAgree ==
  \A a \in tested :
    LET name == test_set[i].name
    IN  \/ Solution(name, a) = Expected(name, a)
        \/ /\ name = "float_twice" /\ PassesLargest(a[1])
           /\ IsNaN(Solution(name, a))

(* run_tests (btest.c:424) gives the points of exactly the functions that  *)
(* it tested, agree with their test functions and were not cut off; the    *)
(* tests it makes by itself show no error of any solution.                 *)
ScoresTheRight ==
  pc = "end" =>
    LET chosen == {f \in Functions : Selected(f)}
        Rating(fs) == MapThenSumSet(LAMBDA f : test_set[f].rating, fs)
    IN  /\ max_points = Rating(chosen)
        /\ argval = {} => points = Rating(chosen \ timedout)

=============================================================================
