---------------------------- MODULE SamplerProofs ---------------------------
(***************************************************************************)
(* That fcyc keeps the least samples, reads the true cost of each off the  *)
(* two words of the counter, and gives up in time, for every number of     *)
(* samples, width of a word and set of durations.                          *)
(***************************************************************************)
EXTENDS Sampler, TLAPS

(* The first n of v are in order; they are but for the one at "at", which  *)
(* is not above those after it, as the insertion leaves them.              *)
Sorted(v, n) == \A p, q \in 1 .. n : p < q => v[p] <= v[q]

SortedBut(v, n, at) ==
  /\ at \in 1 .. n
  /\ \A p, q \in (1 .. n) \ {at} : p < q => v[p] <= v[q]
  /\ \A q \in 1 .. n : at < q => v[at] <= v[q]

(* The first n of v are samples, each once; the others are not below them. *)
Chosen(v, fr, smp, n) ==
  /\ \A p \in 1 .. n : fr[p] \in 1 .. Len(smp) /\ v[p] = smp[fr[p]]
  /\ \A p, q \in 1 .. n : fr[p] = fr[q] => p = q
  /\ \A s \in 1 .. Len(smp) :
       \/ \E p \in 1 .. n : fr[p] = s
       \/ n = kbest /\ \A p \in 1 .. n : v[p] <= smp[s]

(* What is known of the counter from its start until it is read.           *)
CounterOK ==
  /\ pc \in {"run", "stop"} => cyc_hi = High(begun) /\ cyc_lo = Low(begun)
  /\ pc = "run" => tsc = begun
  /\ pc = "stop" => tsc - begun \in 0 .. Radix * Radix - 1

SamplesOK ==
  /\ Chosen(values, from, samples, Counted)
  /\ IF pc = "insert" THEN SortedBut(values, Counted, pos) ELSE Sorted(values, Counted)

CountOK ==
  /\ samplecount <= maxsamples
  /\ pc \in {"start", "run", "stop"} => samplecount < maxsamples
  /\ pc = "returned" /\ samplecount # 0 =>
       /\ result = values[1]
       /\ has_converged \/ samplecount >= maxsamples

Inv == TypeOK /\ CounterOK /\ SamplesOK /\ CountOK

-----------------------------------------------------------------------------
(* Multiplying by a natural number keeps the order. *)
LEMMA TimesMonotonic ==
  ASSUME NEW n \in Nat, NEW a \in Int, NEW b \in Int, a <= b
  PROVE  n * a <= n * b
<1>1. n * (b - a) >= 0 /\ n * (b - a) = n * b - n * a
  BY SMTT(20)
<1> QED BY <1>1

(* k and a are the quotient and the remainder of x by r.                   *)
Divided(x, r, k, a) ==
  /\ r \in Nat \ {0} /\ x \in Int /\ k \in Int /\ a \in 0 .. r - 1
  /\ x = r * k + a

(* Division with remainder, for every divisor.                             *)
LEMMA DivMod ==
  ASSUME NEW r \in Nat \ {0}, NEW x \in Int
  PROVE  Divided(x, r, x \div r, x % r)
<1>1. x = r * (x \div r) + (x % r) /\ x % r \in 0 .. r - 1 /\ x \div r \in Int
  BY SMTT(30)
<1> QED BY <1>1 DEF Divided

(* Quotient and remainder are the only ones.                               *)
LEMMA DivModUnique ==
  ASSUME NEW r, NEW x, NEW k, NEW m, NEW a, NEW b,
         Divided(x, r, k, a), Divided(x, r, m, b)
  PROVE  k = m /\ a = b
<1>0. /\ r \in Nat \ {0} /\ k \in Int /\ m \in Int /\ a \in 0 .. r - 1 /\ b \in 0 .. r - 1
      /\ r * k + a = r * m + b
  BY DEF Divided
<1>1. r * (k - m) = b - a
  BY <1>0, SMTT(30)
<1>2. CASE k - m >= 1
  <2>1. r * 1 <= r * (k - m)
    BY <1>0, <1>2, TimesMonotonic
  <2> QED BY <1>0, <1>1, <2>1
<1>3. CASE k - m <= -1
  <2>1. r * (k - m) <= r * (-1)
    BY <1>0, <1>3, TimesMonotonic
  <2> QED BY <1>0, <1>1, <2>1
<1>4. CASE k = m
  BY <1>0, <1>1, <1>4, SMTT(30)
<1> QED BY <1>0, <1>2, <1>3, <1>4

(* So a number that has them has them as \div and % find them.            *)
LEMMA ModIs ==
  ASSUME NEW r, NEW x, NEW k, NEW a, Divided(x, r, k, a)
  PROVE  x \div r = k /\ x % r = a
<1>1. r \in Nat \ {0} /\ x \in Int
  BY DEF Divided
<1>2. Divided(x, r, x \div r, x % r)
  BY <1>1, DivMod
<1> QED BY <1>2, DivModUnique

(* A number below r * r has a quotient below r. *)
LEMMA QuotientBound ==
  ASSUME NEW r \in Nat \ {0}, NEW k \in Int, NEW a \in 0 .. r - 1,
         r * k + a \in 0 .. r * r - 1
  PROVE  k \in 0 .. r - 1
<1>1. CASE k <= -1
  <2>1. r * k <= r * (-1) /\ r * k \in Int
    BY <1>1, TimesMonotonic
  <2> QED BY <2>1
<1>2. CASE k >= r
  <2>1. r * r <= r * k /\ r * k \in Int /\ r * r \in Int
    BY <1>2, TimesMonotonic
  <2> QED BY <2>1
<1> QED BY <1>1, <1>2

(* The difference of two remainders is that of the numbers, modulo r.      *)
LEMMA ModOfDifference ==
  ASSUME NEW r, NEW x, NEW k, NEW a, NEW y, NEW m, NEW b, NEW c \in Int, NEW d \in 0 .. r - 1,
         Divided(x, r, k, a), Divided(y, r, m, b), x - y - c = d
  PROVE  Divided(a - b - c, r, m - k, d)
<1>1. /\ r \in Nat \ {0} /\ x \in Int /\ y \in Int /\ k \in Int /\ m \in Int
      /\ a \in 0 .. r - 1 /\ b \in 0 .. r - 1 /\ x = r * k + a /\ y = r * m + b
  BY DEF Divided
<1>2. r * (m - k) = r * m - r * k
  BY <1>1, SMTT(20)
<1>3. r * m \in Int /\ r * k \in Int /\ m - k \in Int
  BY <1>1
<1>4. a - b - c = r * (m - k) + d
  BY <1>1, <1>2, <1>3
<1> QED BY <1>1, <1>3, <1>4 DEF Divided

(* The two words of the counter and the borrow give the cycles that passed *)
(* if they were fewer than the counter counts, wraps of the lower word and *)
(* of the counter included.                                                *)
LEMMA GetCounterRight ==
  ASSUME SamplerAssumption, tsc \in Nat, NEW b \in Nat,
         tsc - b \in 0 .. Radix * Radix - 1
  PROVE  get_counter(High(b), Low(b)) = tsc - b
<1> DEFINE r == Radix
           T == tsc \div r
           B == b \div r
           tl == tsc % r
           bl == b % r
           low == (tl - bl) % r
           borrow == IF low > tl THEN 1 ELSE 0
           high == ((T % r) - (B % r) - borrow) % r
<1>1. r \in Nat \ {0}
  BY DEF SamplerAssumption
<1>2. get_counter(High(b), Low(b)) = r * high + low
  BY DEF get_counter, High, Low
<1>3. tsc - b \in 0 .. r * r - 1
  OBVIOUS
<1> HIDE DEF r
<1>4. Divided(tsc, r, T, tl) /\ Divided(b, r, B, bl)
  <2>1. tsc \in Int /\ b \in Int
    OBVIOUS
  <2> QED BY <1>1, <2>1, DivMod
<1> HIDE DEF T, B, tl, bl
<1>5. /\ tsc = r * T + tl /\ tl \in 0 .. r - 1 /\ T \in Int
      /\ b = r * B + bl /\ bl \in 0 .. r - 1 /\ B \in Int
  BY <1>4 DEF Divided
<1>6. Divided(T, r, T \div r, T % r) /\ Divided(B, r, B \div r, B % r)
  BY <1>1, <1>5, DivMod
<1>7. r * (T - B) = r * T - r * B /\ r * (T - B - 1) = r * T - r * B - r
  BY <1>1, <1>5, SMTT(20)
<1>8. r * T \in Int /\ r * B \in Int
  BY <1>1, <1>5
<1>9. CASE bl <= tl
  <2> DEFINE d == tl - bl
  <2>1. d \in 0 .. r - 1 /\ d = r * 0 + d
    BY <1>1, <1>5, <1>9
  <2>2. low = d
    <3>1. Divided(d, r, 0, d)
      BY <1>1, <2>1 DEF Divided
    <3> HIDE DEF d
    <3>2. d % r = d
      BY <3>1, ModIs
    <3> QED BY <3>2 DEF d
  <2> HIDE DEF low
  <2>3. borrow = 0
    BY <1>5, <1>9, <2>2
  <2> DEFINE k == T - B
  <2>4. r * k + d = tsc - b /\ k \in Int
    BY <1>1, <1>5, <1>7, <1>8
  <2> HIDE DEF d, k
  <2>5. k \in 0 .. r - 1
    BY <1>1, <1>3, <2>1, <2>4, QuotientBound
  <2>6. high = k
    <3>1. T - B - borrow = k /\ borrow \in Int
      BY <1>5, <2>3 DEF k
    <3> HIDE DEF borrow
    <3>2. Divided((T % r) - (B % r) - borrow, r, (B \div r) - (T \div r), k)
      BY <1>6, <2>5, <3>1, ModOfDifference
    <3> QED BY <3>2, ModIs
  <2> HIDE DEF high
  <2> QED BY <1>2, <2>2, <2>4, <2>6
<1>10. CASE ~(bl <= tl)
  <2> DEFINE d == tl - bl + r
  <2>1. d \in 0 .. r - 1 /\ tl - bl = r * (-1) + d /\ tl - bl \in Int /\ d > tl
    BY <1>1, <1>5, <1>10
  <2>2. low = d
    <3>1. Divided(tl - bl, r, -1, d)
      BY <1>1, <2>1 DEF Divided
    <3> HIDE DEF d
    <3> QED BY <3>1, ModIs
  <2> HIDE DEF low
  <2>3. borrow = 1
    BY <2>1, <2>2
  <2> DEFINE k == T - B - 1
  <2>4. r * k + d = tsc - b /\ k \in Int
    BY <1>1, <1>5, <1>7, <1>8
  <2> HIDE DEF d, k
  <2>5. k \in 0 .. r - 1
    BY <1>1, <1>3, <2>1, <2>4, QuotientBound
  <2>6. high = k
    <3>1. T - B - borrow = k /\ borrow \in Int
      BY <1>5, <2>3 DEF k
    <3> HIDE DEF borrow
    <3>2. Divided((T % r) - (B % r) - borrow, r, (B \div r) - (T \div r), k)
      BY <1>6, <2>5, <3>1, ModOfDifference
    <3> QED BY <3>2, ModIs
  <2> HIDE DEF high
  <2> QED BY <1>2, <2>2, <2>4, <2>6
<1> QED BY <1>9, <1>10

-----------------------------------------------------------------------------
(* A list that is not full takes one more sample at its end.               *)
LEMMA TakenAtTheEnd ==
  ASSUME kbest \in Nat, NEW v \in [1 .. kbest -> Int], NEW fr \in [1 .. kbest -> Nat],
         NEW smp \in Seq(Int), NEW c \in Int, NEW n \in 1 .. kbest, Len(smp) = n - 1,
         Chosen(v, fr, smp, n - 1), Sorted(v, n - 1)
  PROVE  /\ Chosen([v EXCEPT ![n] = c], [fr EXCEPT ![n] = n], Append(smp, c), n)
         /\ SortedBut([v EXCEPT ![n] = c], n, n)
<1> DEFINE w == [v EXCEPT ![n] = c]
           gr == [fr EXCEPT ![n] = n]
           smq == Append(smp, c)
<1>0. Len(smq) = n
  OBVIOUS
<1>1. n \in Nat \ {0} /\ n - 1 # kbest
  OBVIOUS
<1>2. \A p \in 1 .. n - 1 : w[p] = v[p] /\ gr[p] = fr[p]
  <2>1. ASSUME NEW p \in 1 .. n - 1
        PROVE  w[p] = v[p] /\ gr[p] = fr[p]
    <3>1. p \in 1 .. kbest /\ p # n
      OBVIOUS
    <3> QED BY <3>1
  <2> QED BY <2>1
<1>3. w[n] = c /\ gr[n] = n
  OBVIOUS
<1>4. \A s \in 1 .. n - 1 : smq[s] = smp[s]
  BY <1>1
<1>5. smq[n] = c
  BY <1>1
<1> HIDE DEF w, gr, smq
<1>6. /\ \A p \in 1 .. n - 1 : fr[p] \in 1 .. n - 1 /\ v[p] = smp[fr[p]]
      /\ \A p, q \in 1 .. n - 1 : fr[p] = fr[q] => p = q
      /\ \A s \in 1 .. n - 1 : \E p \in 1 .. n - 1 : fr[p] = s
  BY <1>1 DEF Chosen
<1>7. \A p, q \in 1 .. n - 1 : p < q => v[p] <= v[q]
  BY DEF Sorted
<1>8. Chosen(w, gr, smq, n)
  <2>0. /\ \A p \in 1 .. n : p = n \/ p \in 1 .. n - 1
        /\ \A p \in 1 .. n - 1 : p \in 1 .. n
    BY <1>1
  <2>1. ASSUME NEW p \in 1 .. n
        PROVE  gr[p] \in 1 .. n /\ w[p] = smq[gr[p]]
    <3>1. CASE p = n
      BY <1>1, <1>3, <1>5, <3>1
    <3>2. CASE p \in 1 .. n - 1
      <4>1. fr[p] \in 1 .. n - 1
        BY <1>6, <3>2
      <4>2. gr[p] = fr[p] /\ w[p] = v[p] /\ v[p] = smp[fr[p]]
        BY <1>2, <1>6, <3>2
      <4>3. fr[p] \in 1 .. n
        BY <2>0, <4>1
      <4> QED BY <1>4, <4>1, <4>2, <4>3
    <3> QED BY <2>0, <3>1, <3>2
  <2>2. ASSUME NEW p \in 1 .. n, NEW q \in 1 .. n, gr[p] = gr[q]
        PROVE  p = q
    <3>1. ASSUME NEW l \in 1 .. n - 1
          PROVE  gr[l] # n
      <4>1. fr[l] \in 1 .. n - 1
        BY <1>6
      <4>2. fr[l] # n
        BY <4>1
      <4> QED BY <1>2, <4>2
    <3>2. CASE p = n
      BY <1>3, <2>0, <2>2, <3>1, <3>2
    <3>3. CASE q = n
      BY <1>3, <2>0, <2>2, <3>1, <3>3
    <3>4. CASE p \in 1 .. n - 1 /\ q \in 1 .. n - 1
      BY <1>2, <1>6, <2>2, <3>4
    <3> QED BY <2>0, <3>2, <3>3, <3>4
  <2>3. ASSUME NEW s \in 1 .. n
        PROVE  \E p \in 1 .. n : gr[p] = s
    <3>1. CASE s = n
      BY <1>3, <3>1
    <3>2. CASE s \in 1 .. n - 1
      <4>1. PICK p \in 1 .. n - 1 : fr[p] = s
        BY <1>6, <3>2
      <4>2. gr[p] = s
        BY <1>2, <4>1
      <4>3. p \in 1 .. n
        BY <2>0
      <4> QED BY <4>2, <4>3
    <3> QED BY <2>0, <3>1, <3>2
  <2> QED BY <1>0, <2>1, <2>2, <2>3 DEF Chosen
<1>9. SortedBut(w, n, n)
  BY <1>1, <1>2, <1>7 DEF SortedBut
<1> QED BY <1>8, <1>9 DEF w, gr, smq

(* A full list takes it in the place of its last value, if that is larger. *)
LEMMA TakenForTheLast ==
  ASSUME kbest \in Nat \ {0}, NEW v \in [1 .. kbest -> Int], NEW fr \in [1 .. kbest -> Nat],
         NEW smp \in Seq(Int), NEW c \in Int, c < v[kbest],
         Chosen(v, fr, smp, kbest), Sorted(v, kbest)
  PROVE  LET w == [v EXCEPT ![kbest] = c] IN
         /\ Chosen(w, [fr EXCEPT ![kbest] = Len(smp) + 1], Append(smp, c), kbest)
         /\ SortedBut(w, kbest, kbest)
<1> DEFINE n == Len(smp) + 1
           w == [v EXCEPT ![kbest] = c]
           gr == [fr EXCEPT ![kbest] = n]
           smq == Append(smp, c)
<1>0. Len(smq) = n
  OBVIOUS
<1>1. n \in Nat \ {0} /\ Len(smp) = n - 1
  OBVIOUS
<1>2. \A p \in 1 .. kbest - 1 : w[p] = v[p] /\ gr[p] = fr[p]
  OBVIOUS
<1>3. w[kbest] = c /\ gr[kbest] = n
  OBVIOUS
<1>4. \A s \in 1 .. n - 1 : smq[s] = smp[s] /\ smp[s] \in Int
  BY <1>1
<1>5. smq[n] = c
  BY <1>1
<1>6. /\ \A p \in 1 .. kbest : fr[p] \in 1 .. n - 1 /\ v[p] = smp[fr[p]]
      /\ \A p, q \in 1 .. kbest : fr[p] = fr[q] => p = q
      /\ \A s \in 1 .. n - 1 : (\E p \in 1 .. kbest : fr[p] = s)
                                  \/ \A p \in 1 .. kbest : v[p] <= smp[s]
  BY <1>1 DEF Chosen
<1>7. \A p, q \in 1 .. kbest : p < q => v[p] <= v[q]
  BY DEF Sorted
<1>10. \A p \in 1 .. kbest : v[p] \in Int
  OBVIOUS
<1> HIDE DEF n, w, gr, smq
<1>8. Chosen(w, gr, smq, kbest)
  <2>0. \A p \in 1 .. kbest : p = kbest \/ p \in 1 .. kbest - 1
    OBVIOUS
  <2>1. ASSUME NEW p \in 1 .. kbest
        PROVE  gr[p] \in 1 .. n /\ w[p] = smq[gr[p]]
    <3>1. CASE p = kbest
      BY <1>1, <1>3, <1>5, <3>1
    <3>2. CASE p \in 1 .. kbest - 1
      <4>1. fr[p] \in 1 .. n - 1
        BY <1>6
      <4>2. gr[p] = fr[p] /\ w[p] = v[p] /\ v[p] = smp[fr[p]]
        BY <1>2, <1>6, <3>2
      <4>3. fr[p] \in 1 .. n
        BY <1>1, <4>1
      <4> QED BY <1>4, <4>1, <4>2, <4>3
    <3> QED BY <2>0, <3>1, <3>2
  <2>2. ASSUME NEW p \in 1 .. kbest, NEW q \in 1 .. kbest, gr[p] = gr[q]
        PROVE  p = q
    <3>1. \A l \in 1 .. kbest : fr[l] # n
      BY <1>1, <1>6
    <3> QED BY <1>2, <1>3, <1>6, <2>0, <2>2, <3>1
  <2>3. ASSUME NEW s \in 1 .. n
        PROVE  (\E p \in 1 .. kbest : gr[p] = s) \/ \A p \in 1 .. kbest : w[p] <= smq[s]
    <3>1. CASE s = n
      BY <1>3, <3>1
    <3>2. CASE s # n /\ \E p \in 1 .. kbest - 1 : fr[p] = s
      <4>1. PICK p \in 1 .. kbest - 1 : fr[p] = s
        BY <3>2
      <4>2. p \in 1 .. kbest /\ gr[p] = s
        BY <1>2, <4>1
      <4> QED BY <4>2
    <3>3. CASE s # n /\ ~ \E p \in 1 .. kbest - 1 : fr[p] = s
      <4>1. s \in 1 .. n - 1
        BY <1>1, <3>3
      <4>2. fr[kbest] = s \/ \A p \in 1 .. kbest : v[p] <= smp[s]
        BY <1>6, <2>0, <3>3, <4>1
      <4>3. ASSUME NEW p \in 1 .. kbest
            PROVE  v[p] <= smp[s]
        <5>1. CASE fr[kbest] = s
          <6>1. v[kbest] = smp[s] /\ v[kbest] \in Int
            BY <1>6, <1>10, <5>1
          <6>2. p = kbest \/ v[p] <= v[kbest]
            BY <1>7
          <6> QED BY <6>1, <6>2
        <5> QED BY <4>2, <5>1
      <4>4. ASSUME NEW p \in 1 .. kbest
            PROVE  w[p] <= smq[s]
        <5>1. smq[s] = smp[s] /\ smp[s] \in Int /\ v[kbest] \in Int /\ v[kbest] <= smp[s]
          BY <1>4, <1>10, <4>1, <4>3
        <5>2. CASE p = kbest
          BY <1>3, <5>1, <5>2
        <5>3. CASE p \in 1 .. kbest - 1
          BY <1>2, <4>3, <5>1, <5>3
        <5> QED BY <2>0, <5>2, <5>3
      <4> QED BY <4>4
    <3> QED BY <3>1, <3>2, <3>3
  <2> QED BY <1>0, <2>1, <2>2, <2>3 DEF Chosen
<1>9. SortedBut(w, kbest, kbest)
  BY <1>1, <1>2, <1>7 DEF SortedBut
<1> QED BY <1>8, <1>9 DEF n, w, gr, smq

(* Otherwise it is dropped.                                                *)
LEMMA Dropped ==
  ASSUME kbest \in Nat \ {0}, NEW v \in [1 .. kbest -> Int], NEW fr \in [1 .. kbest -> Nat],
         NEW smp \in Seq(Int), NEW c \in Int, ~(c < v[kbest]),
         Chosen(v, fr, smp, kbest), Sorted(v, kbest)
  PROVE  Chosen(v, fr, Append(smp, c), kbest) /\ SortedBut(v, kbest, 1)
<1> DEFINE n == Len(smp) + 1
           smq == Append(smp, c)
<1>0. Len(smq) = n
  OBVIOUS
<1>1. n \in Nat \ {0} /\ Len(smp) = n - 1
  OBVIOUS
<1>2. \A s \in 1 .. n - 1 : smq[s] = smp[s]
  BY <1>1
<1>3. smq[n] = c
  BY <1>1
<1>4. /\ \A p \in 1 .. kbest : fr[p] \in 1 .. n - 1 /\ v[p] = smp[fr[p]]
      /\ \A p, q \in 1 .. kbest : fr[p] = fr[q] => p = q
      /\ \A s \in 1 .. n - 1 : (\E p \in 1 .. kbest : fr[p] = s)
                                  \/ \A p \in 1 .. kbest : v[p] <= smp[s]
  BY <1>1 DEF Chosen
<1>5. \A p, q \in 1 .. kbest : p < q => v[p] <= v[q]
  BY DEF Sorted
<1>6. \A p \in 1 .. kbest : v[p] \in Int /\ v[p] <= c
  BY <1>5
<1> HIDE DEF n, smq
<1>7. Chosen(v, fr, smq, kbest)
  <2>1. ASSUME NEW p \in 1 .. kbest
        PROVE  fr[p] \in 1 .. n /\ v[p] = smq[fr[p]]
    <3>1. fr[p] \in 1 .. n - 1 /\ v[p] = smp[fr[p]]
      BY <1>4
    <3>2. fr[p] \in 1 .. n
      BY <1>1, <3>1
    <3> QED BY <1>2, <3>1, <3>2
  <2>2. ASSUME NEW s \in 1 .. n
        PROVE  (\E p \in 1 .. kbest : fr[p] = s) \/ \A p \in 1 .. kbest : v[p] <= smq[s]
    <3>1. CASE s = n
      BY <1>3, <1>6, <3>1
    <3>2. CASE s # n
      <4>1. s \in 1 .. n - 1
        BY <1>1, <3>2
      <4> QED BY <1>2, <1>4, <4>1
    <3> QED BY <3>1, <3>2
  <2> QED BY <1>0, <1>4, <2>1, <2>2 DEF Chosen
<1>8. SortedBut(v, kbest, 1)
  BY <1>5 DEF SortedBut
<1> QED BY <1>7, <1>8 DEF smq

(* A step of the insertion moves the one value that is out of order down,  *)
(* and each value keeps the run it is from.                                *)
LEMMA SwapKeeps ==
  ASSUME kbest \in Nat, NEW v \in [1 .. kbest -> Int], NEW fr \in [1 .. kbest -> Nat],
         NEW smp \in Seq(Int), NEW n \in 1 .. kbest, NEW at \in 2 .. n,
         Chosen(v, fr, smp, n), SortedBut(v, n, at), v[at - 1] > v[at]
  PROVE  /\ Chosen(Swapped(v, at), Swapped(fr, at), smp, n)
         /\ SortedBut(Swapped(v, at), n, at - 1)
<1> DEFINE w == Swapped(v, at)
           gr == Swapped(fr, at)
<1>0. at - 1 \in 1 .. kbest /\ at \in 1 .. kbest /\ at - 1 # at
  OBVIOUS
<1>1. /\ w[at] = v[at - 1] /\ w[at - 1] = v[at]
      /\ gr[at] = fr[at - 1] /\ gr[at - 1] = fr[at]
      /\ \A p \in (1 .. kbest) \ {at, at - 1} : w[p] = v[p] /\ gr[p] = fr[p]
  BY <1>0 DEF Swapped
<1>2. \A p \in 1 .. kbest : v[p] \in Int
  OBVIOUS
<1>3. /\ \A p, q \in (1 .. n) \ {at} : p < q => v[p] <= v[q]
      /\ \A q \in 1 .. n : at < q => v[at] <= v[q]
  BY DEF SortedBut
<1>4. /\ \A p \in 1 .. n : fr[p] \in 1 .. Len(smp) /\ v[p] = smp[fr[p]]
      /\ \A p, q \in 1 .. n : fr[p] = fr[q] => p = q
      /\ \A s \in 1 .. Len(smp) : (\E p \in 1 .. n : fr[p] = s)
                                     \/ (n = kbest /\ \A p \in 1 .. n : v[p] <= smp[s])
  BY DEF Chosen
<1> HIDE DEF w, gr
<1>5. \A p \in 1 .. n : p = at \/ p = at - 1 \/ p \in (1 .. kbest) \ {at, at - 1}
  OBVIOUS
<1>6. at \in 1 .. n /\ at - 1 \in 1 .. n
  OBVIOUS
<1> DEFINE len == Len(smp)
<1> HIDE DEF len
<1>10. /\ \A p \in 1 .. n : fr[p] \in 1 .. len /\ v[p] = smp[fr[p]]
      /\ \A p, q \in 1 .. n : fr[p] = fr[q] => p = q
  BY <1>4 DEF len
<1>7. Chosen(w, gr, smp, n)
  <2>1. ASSUME NEW p \in 1 .. n
        PROVE  gr[p] \in 1 .. len /\ w[p] = smp[gr[p]]
    <3>1. CASE p = at
      <4>1. fr[at - 1] \in 1 .. len /\ v[at - 1] = smp[fr[at - 1]]
        BY <1>10, <1>6
      <4> QED BY <1>1, <3>1, <4>1
    <3>2. CASE p = at - 1
      <4>1. fr[at] \in 1 .. len /\ v[at] = smp[fr[at]]
        BY <1>10, <1>6
      <4> QED BY <1>1, <3>2, <4>1
    <3>3. CASE p \in (1 .. kbest) \ {at, at - 1}
      BY <1>1, <1>10, <3>3
    <3> QED BY <1>5, <3>1, <3>2, <3>3
  <2>2. ASSUME NEW p \in 1 .. n, NEW q \in 1 .. n, gr[p] = gr[q]
        PROVE  p = q
    <3> DEFINE Moved(l) == IF l = at THEN at - 1 ELSE IF l = at - 1 THEN at ELSE l
    <3>1. ASSUME NEW l \in 1 .. n
          PROVE  Moved(l) \in 1 .. n /\ gr[l] = fr[Moved(l)]
      BY <1>1, <1>5, <1>6
    <3>2. fr[Moved(p)] = fr[Moved(q)]
      BY <2>2, <3>1
    <3>3. Moved(p) = Moved(q)
      <4> HIDE DEF Moved
      <4> QED BY <1>10, <3>1, <3>2
    <3> QED BY <1>0, <3>3
  <2>3. ASSUME NEW s \in 1 .. Len(smp)
        PROVE  \/ \E p \in 1 .. n : gr[p] = s
               \/ n = kbest /\ \A p \in 1 .. n : w[p] <= smp[s]
    <3>1. ASSUME NEW p \in 1 .. n, fr[p] = s
          PROVE  \E q \in 1 .. n : gr[q] = s
      BY <1>1, <1>5, <1>6, <3>1
    <3>2. CASE n = kbest /\ \A p \in 1 .. n : v[p] <= smp[s]
      <4>1. ASSUME NEW p \in 1 .. n
            PROVE  w[p] <= smp[s]
        BY <1>1, <1>5, <1>6, <3>2
      <4> QED BY <3>2, <4>1
    <3> QED BY <1>4, <3>1, <3>2
  <2> QED BY <2>1, <2>2, <2>3 DEF Chosen, len
<1>8. SortedBut(w, n, at - 1)
  <2>0. v[at] \in Int /\ v[at - 1] \in Int /\ v[at] <= v[at - 1]
    BY <1>0, <1>2
  <2>1. ASSUME NEW p \in (1 .. n) \ {at - 1}, NEW q \in (1 .. n) \ {at - 1}, p < q
        PROVE  w[p] <= w[q]
    <3>1. CASE p = at
      <4>1. q \in (1 .. n) \ {at} /\ at - 1 \in (1 .. n) \ {at} /\ at - 1 < q
        BY <2>1, <3>1
      <4>2. v[at - 1] <= v[q]
        BY <1>3, <4>1
      <4>3. w[p] = v[at - 1] /\ w[q] = v[q]
        BY <1>1, <1>5, <3>1, <4>1
      <4> QED BY <4>2, <4>3
    <3>2. CASE q = at
      <4>1. p \in (1 .. n) \ {at} /\ at - 1 \in (1 .. n) \ {at} /\ p < at - 1
        BY <2>1, <3>2
      <4>2. v[p] <= v[at - 1]
        BY <1>3, <4>1
      <4>3. w[q] = v[at - 1] /\ w[p] = v[p]
        BY <1>1, <1>5, <3>2, <4>1
      <4> QED BY <4>2, <4>3
    <3>3. CASE p # at /\ q # at
      <4>1. v[p] <= v[q]
        BY <1>3, <2>1, <3>3
      <4>2. w[p] = v[p] /\ w[q] = v[q]
        BY <1>1, <1>5, <3>3
      <4> QED BY <4>1, <4>2
    <3> QED BY <3>1, <3>2, <3>3
  <2>2. ASSUME NEW q \in 1 .. n, at - 1 < q
        PROVE  w[at - 1] <= w[q]
    <3>1. CASE q = at
      BY <1>1, <2>0, <3>1
    <3>2. CASE q # at
      <4>1. at < q
        BY <2>2, <3>2
      <4>2. w[q] = v[q]
        <5>1. q # at - 1
          BY <2>2
        <5>2. q \in (1 .. kbest) \ {at, at - 1}
          BY <1>5, <3>2, <5>1
        <5> QED BY <1>1, <5>2
      <4>3. v[at] <= v[q]
        BY <1>3, <4>1
      <4> QED BY <1>1, <4>2, <4>3
    <3> QED BY <3>1, <3>2
  <2> QED BY <1>6, <2>1, <2>2 DEF SortedBut
<1> QED BY <1>7, <1>8 DEF w, gr

(* When the insertion ends the list is in order.                           *)
LEMMA InsertionSorts ==
  ASSUME kbest \in Nat, NEW v \in [1 .. kbest -> Int], NEW n \in 1 .. kbest,
         NEW at \in 1 .. n, SortedBut(v, n, at), ~(at > 1 /\ v[at - 1] > v[at])
  PROVE  Sorted(v, n)
<1>1. \A p \in 1 .. n : v[p] \in Int
  OBVIOUS
<1>2. /\ \A p, q \in (1 .. n) \ {at} : p < q => v[p] <= v[q]
      /\ \A q \in 1 .. n : at < q => v[at] <= v[q]
  BY DEF SortedBut
<1>3. ASSUME NEW p \in 1 .. n, p < at
      PROVE  v[p] <= v[at]
  <2>1. at - 1 \in 1 .. n /\ at > 1 /\ at - 1 # at
    BY <1>3
  <2>2. v[at - 1] <= v[at] /\ v[at - 1] \in Int /\ v[at] \in Int /\ v[p] \in Int
    BY <1>1, <2>1
  <2>3. p = at - 1 \/ v[p] <= v[at - 1]
    BY <1>2, <1>3, <2>1
  <2> QED BY <2>2, <2>3
<1> QED BY <1>2, <1>3 DEF Sorted

-----------------------------------------------------------------------------
(* The words of the counter are numbers below Radix.                       *)
LEMMA WordsBounded ==
  ASSUME SamplerAssumption, NEW t \in Nat
  PROVE  High(t) \in 0 .. Radix - 1 /\ Low(t) \in 0 .. Radix - 1
<1>1. Radix \in Nat \ {0}
  BY DEF SamplerAssumption
<1>5. t \in Int
  OBVIOUS
<1>2. Divided(t, Radix, t \div Radix, t % Radix)
  BY <1>1, <1>5, DivMod
<1>3. t \div Radix \in Int
  BY <1>2 DEF Divided
<1>4. Divided(t \div Radix, Radix, (t \div Radix) \div Radix, (t \div Radix) % Radix)
  BY <1>1, <1>3, DivMod
<1> QED BY <1>2, <1>4 DEF Divided, High, Low

(* What the assumption says of each constant.                              *)
LEMMA Constants == SamplerAssumption => /\ kbest \in Nat \ {0} /\ maxsamples \in Nat \ {0}
                                        /\ Radix \in Nat \ {0} /\ EpsDen \in Nat \ {0}
                                        /\ EpsNum \in Nat /\ Calls \in Nat
BY DEF SamplerAssumption

(* What the code reads off its counters is what the run cost.              *)
LEMMA ReadsTheCost ==
  ASSUME SamplerAssumption, TypeOK, CounterOK, pc = "stop"
  PROVE  /\ get_counter(cyc_hi, cyc_lo) = tsc - begun
         /\ (IF compensate THEN get_comp_counter(cyc_hi, cyc_lo)
                           ELSE get_counter(cyc_hi, cyc_lo)) = TrueCost
         /\ TrueCost \in Int
<1>1. tsc \in Nat /\ begun \in Nat /\ utime \in Nat /\ start_tick \in Nat /\ cyc_per_tick \in Nat
  BY DEF TypeOK
<1>2. cyc_hi = High(begun) /\ cyc_lo = Low(begun) /\ tsc - begun \in 0 .. Radix * Radix - 1
  BY DEF CounterOK
<1>3. get_counter(cyc_hi, cyc_lo) = tsc - begun
  BY <1>1, <1>2, GetCounterRight
<1>4. (utime - start_tick) * cyc_per_tick \in Int
  BY <1>1
<1> QED BY <1>1, <1>3, <1>4 DEF get_comp_counter, TrueCost

(* The program starts with no sample.                                      *)
LEMMA InitEstablishes == SamplerAssumption /\ Init => Inv
<1> SUFFICES ASSUME SamplerAssumption, Init
             PROVE  Inv
  OBVIOUS
<1> USE Constants DEF Init
<1>1. TypeOK
  <2>1. Durations \subseteq Nat
    BY DEF SamplerAssumption
  <2> QED BY <2>1 DEF TypeOK
<1>2. Counted = 0
  BY DEF Counted
<1>3. SamplesOK
  BY <1>2 DEF SamplesOK, Chosen, Sorted
<1> QED BY <1>1, <1>3 DEF Inv, CounterOK, CountOK

(* A call of fcyc forgets the samples of the one before.                   *)
LEMMA CallKeeps ==
  ASSUME SamplerAssumption, Inv, Call
  PROVE  Inv'
<1> USE Constants DEF Call, init_sampler, counters, clocks
<1>1. TypeOK'
  BY DEF Inv, TypeOK
<1>2. Counted' = 0
  BY DEF Counted
<1>3. SamplesOK'
  BY <1>2 DEF SamplesOK, Chosen, Sorted
<1>4. CounterOK' /\ CountOK'
  BY DEF CounterOK, CountOK
<1> QED BY <1>1, <1>3, <1>4 DEF Inv

(* The two words of the counter are stored.                                *)
LEMMA StartCounterKeeps ==
  ASSUME SamplerAssumption, Inv, StartCounter
  PROVE  Inv'
<1> USE DEF StartCounter, start_counter, clocks, sampler
<1>1. TypeOK'
  <2>1. High(tsc) \in 0 .. Radix - 1 /\ Low(tsc) \in 0 .. Radix - 1
    BY WordsBounded DEF Inv, TypeOK
  <2>2. start_tick' \in Nat /\ cyc_per_tick' \in Nat
    <3>1. TickCosts \subseteq Nat
      BY DEF SamplerAssumption
    <3> QED BY <3>1 DEF Inv, TypeOK
  <2> QED BY <2>1, <2>2 DEF Inv, TypeOK
<1>2. CounterOK'
  BY DEF CounterOK, High, Low
<1>3. SamplesOK'
  BY DEF Inv, SamplesOK, Counted
<1>4. CountOK'
  BY DEF Inv, CountOK
<1> QED BY <1>1, <1>2, <1>3, <1>4 DEF Inv

(* A run moves the counter on by less than it counts.                      *)
LEMMA RunKeeps ==
  ASSUME SamplerAssumption, Inv, Run
  PROVE  Inv'
<1> USE DEF Run, counters, sampler
<1>0. PICK d \in Durations : tsc' = tsc + d
  OBVIOUS
<1>1. TypeOK'
  <2>1. d \in Nat /\ Ticks \subseteq Nat
    BY DEF SamplerAssumption
  <2> QED BY <1>0, <2>1 DEF Inv, TypeOK
<1>2. CounterOK'
  <2>1. tsc = begun /\ cyc_hi = High(begun) /\ cyc_lo = Low(begun)
    BY DEF Inv, CounterOK
  <2>2. d \in 0 .. Radix * Radix - 1 /\ tsc \in Nat
    BY DEF SamplerAssumption, Inv, TypeOK
  <2>3. tsc' - begun = d
    BY <1>0, <2>1, <2>2
  <2> QED BY <2>1, <2>2, <2>3 DEF CounterOK, High, Low
<1>3. SamplesOK'
  BY DEF Inv, SamplesOK, Counted
<1>4. CountOK'
  BY DEF Inv, CountOK
<1> QED BY <1>1, <1>2, <1>3, <1>4 DEF Inv

(* What add_sample reads is what the run cost, and it is stored or not.    *)
LEMMA AddSampleKeeps ==
  ASSUME SamplerAssumption, Inv, AddSample
  PROVE  Inv'
<1> DEFINE val == IF compensate THEN get_comp_counter(cyc_hi, cyc_lo)
                                ELSE get_counter(cyc_hi, cyc_lo)
           last == IF samplecount < kbest THEN samplecount + 1 ELSE kbest
<1>1. /\ kbest \in Nat \ {0} /\ values \in [1 .. kbest -> Int] /\ from \in [1 .. kbest -> Nat]
      /\ samples \in Seq(Int) /\ samplecount = Len(samples) /\ samplecount \in Nat
      /\ pc = "stop" /\ pc' = "insert" /\ maxsamples \in Nat
  <2>1. kbest \in Nat \ {0} /\ maxsamples \in Nat
    BY Constants
  <2>2. /\ values \in [1 .. kbest -> Int] /\ from \in [1 .. kbest -> Nat]
        /\ samples \in Seq(Int) /\ samplecount = Len(samples)
    BY DEF Inv, TypeOK
  <2>3. pc = "stop" /\ pc' = "insert"
    BY DEF AddSample
  <2>4. Len(samples) \in Nat
    BY <2>2
  <2> QED BY <2>1, <2>2, <2>3, <2>4
<1>2. val = TrueCost /\ TrueCost \in Int
  BY ReadsTheCost, <1>1 DEF Inv
<1> HIDE DEF val
<1>3. Chosen(values, from, samples, Counted) /\ Sorted(values, Counted)
  BY <1>1 DEF Inv, SamplesOK
<1>4. samples' = Append(samples, val) /\ samplecount' = samplecount + 1
  BY <1>2 DEF AddSample
<1>5. IF samplecount < kbest \/ val < values[kbest]
      THEN /\ values' = [values EXCEPT ![last] = val]
           /\ from' = [from EXCEPT ![last] = Len(samples) + 1]
           /\ pos' = last
      ELSE values' = values /\ from' = from /\ pos' = 1
  BY DEF AddSample, val
<1>6. /\ Chosen(values', from', samples', Counted')
      /\ SortedBut(values', Counted', pos')
      /\ pos' \in 1 .. kbest
  <2>1. CASE samplecount < kbest
    <3> DEFINE n == samplecount + 1
    <3>1. n \in 1 .. kbest /\ Len(samples) = n - 1 /\ Counted = n - 1 /\ Counted' = n /\ last = n
          /\ Len(samples) + 1 = n
      BY <1>1, <1>4, <2>1 DEF Counted
    <3> HIDE DEF n, last
    <3>2. /\ values' = [values EXCEPT ![n] = val] /\ from' = [from EXCEPT ![n] = n] /\ pos' = n
      BY <1>5, <2>1, <3>1
    <3>3. Chosen(values, from, samples, n - 1) /\ Sorted(values, n - 1)
      BY <1>3, <3>1
    <3>4. val \in Int
      BY <1>2
    <3>5. /\ Chosen([values EXCEPT ![n] = val], [from EXCEPT ![n] = n], Append(samples, val), n)
          /\ SortedBut([values EXCEPT ![n] = val], n, n)
      BY <1>1, <3>1, <3>3, <3>4, TakenAtTheEnd
    <3> QED BY <1>4, <3>1, <3>2, <3>5
  <2>2. CASE ~(samplecount < kbest) /\ val < values[kbest]
    <3>1. Counted = kbest /\ Counted' = kbest /\ last = kbest
      BY <1>1, <1>4, <2>2 DEF Counted
    <3> HIDE DEF last
    <3>2. /\ values' = [values EXCEPT ![kbest] = val] /\ pos' = kbest
          /\ from' = [from EXCEPT ![kbest] = Len(samples) + 1]
      BY <1>5, <2>2, <3>1
    <3>3. /\ Chosen([values EXCEPT ![kbest] = val], [from EXCEPT ![kbest] = Len(samples) + 1],
                    Append(samples, val), kbest)
          /\ SortedBut([values EXCEPT ![kbest] = val], kbest, kbest)
      BY <1>1, <1>2, <1>3, <2>2, <3>1, TakenForTheLast
    <3>4. kbest \in 1 .. kbest
      BY <1>1
    <3> QED BY <1>4, <3>1, <3>2, <3>3, <3>4
  <2>3. CASE ~(samplecount < kbest) /\ ~(val < values[kbest])
    <3>1. Counted = kbest /\ Counted' = kbest
      BY <1>1, <1>4, <2>3 DEF Counted
    <3>2. values' = values /\ from' = from /\ pos' = 1
      BY <1>5, <2>3
    <3>3. Chosen(values, from, Append(samples, val), kbest) /\ SortedBut(values, kbest, 1)
      BY <1>1, <1>2, <1>3, <2>3, <3>1, Dropped
    <3>4. 1 \in 1 .. kbest
      BY <1>1
    <3> QED BY <1>4, <3>1, <3>2, <3>3, <3>4
  <2> QED BY <2>1, <2>2, <2>3
<1>7. values' \in [1 .. kbest -> Int] /\ from' \in [1 .. kbest -> Nat]
  <2> HIDE DEF last
  <2>1. val \in Int /\ Len(samples) + 1 \in Nat
    BY <1>1, <1>2
  <2> QED BY <1>1, <1>5, <2>1
<1>8. samples' \in Seq(Int) /\ samplecount' = Len(samples')
  BY <1>1, <1>2, <1>4
<1>9. TypeOK'
  BY <1>1, <1>6, <1>7, <1>8 DEF Inv, TypeOK, AddSample, clocks, counters
<1>10. SamplesOK'
  BY <1>1, <1>6 DEF SamplesOK
<1>11. CountOK'
  <2>1. samplecount < maxsamples
    BY <1>1 DEF Inv, CountOK
  <2> QED BY <1>1, <1>4, <2>1 DEF CountOK
<1>12. CounterOK'
  BY <1>1 DEF CounterOK
<1> QED BY <1>9, <1>10, <1>11, <1>12 DEF Inv

(* A step of add_sample's insertion.                                       *)
LEMMA InsertKeeps ==
  ASSUME SamplerAssumption, Inv, Insert
  PROVE  Inv'
<1>1. /\ kbest \in Nat \ {0} /\ values \in [1 .. kbest -> Int] /\ from \in [1 .. kbest -> Nat]
      /\ samples \in Seq(Int) /\ pos \in 1 .. kbest /\ samplecount \in Nat
      /\ pc = "insert" /\ pc' = "insert"
  BY Constants DEF Inv, TypeOK, Insert
<1>2. /\ pos > 1 /\ values[pos - 1] > values[pos]
      /\ values' = Swapped(values, pos) /\ from' = Swapped(from, pos) /\ pos' = pos - 1
  BY DEF Insert, OutOfOrder
<1>3. UNCHANGED <<samples, samplecount, result, calls, clocks, compensate, counters>>
  BY DEF Insert
<1>4. Chosen(values, from, samples, Counted) /\ SortedBut(values, Counted, pos)
  BY <1>1 DEF Inv, SamplesOK
<1>5. Counted' = Counted /\ Counted \in 0 .. kbest
  BY <1>1, <1>3 DEF Counted
<1>6. Chosen(values', from', samples', Counted') /\ SortedBut(values', Counted', pos')
  <2> DEFINE n == Counted
  <2>1. pos \in 1 .. n
    BY <1>4 DEF SortedBut
  <2>2. n \in 1 .. kbest /\ pos \in 2 .. n
    BY <1>1, <1>2, <1>5, <2>1
  <2> HIDE DEF n
  <2>3. Chosen(values, from, samples, n) /\ SortedBut(values, n, pos)
    BY <1>4 DEF n
  <2>4. Chosen(Swapped(values, pos), Swapped(from, pos), samples, n)
        /\ SortedBut(Swapped(values, pos), n, pos - 1)
    BY <1>1, <1>2, <2>2, <2>3, SwapKeeps
  <2> QED BY <1>2, <1>3, <1>5, <2>4 DEF n
<1>7. values' \in [1 .. kbest -> Int] /\ from' \in [1 .. kbest -> Nat] /\ pos' \in 1 .. kbest
  <2>1. pos - 1 \in 1 .. kbest
    BY <1>1, <1>2
  <2> QED BY <1>1, <1>2, <2>1 DEF Swapped
<1>8. TypeOK'
  BY <1>1, <1>3, <1>7 DEF Inv, TypeOK, clocks, counters
<1>9. SamplesOK'
  BY <1>1, <1>6 DEF SamplesOK
<1>10. CountOK'
  BY <1>1, <1>3 DEF Inv, CountOK
<1>11. CounterOK'
  BY <1>1 DEF CounterOK
<1> QED BY <1>8, <1>9, <1>10, <1>11 DEF Inv

(* When nothing is out of order the list is sorted.                        *)
LEMMA ListSorted ==
  ASSUME SamplerAssumption, Inv, pc = "insert", ~ OutOfOrder
  PROVE  Chosen(values, from, samples, Counted) /\ Sorted(values, Counted)
<1>1. /\ kbest \in Nat \ {0} /\ values \in [1 .. kbest -> Int]
      /\ pos \in 1 .. kbest /\ samplecount \in Nat
  BY Constants DEF Inv, TypeOK
<1>2. Chosen(values, from, samples, Counted) /\ SortedBut(values, Counted, pos)
  BY DEF Inv, SamplesOK
<1>3. pos \in 1 .. Counted
  BY <1>2 DEF SortedBut
<1>4. Counted \in 1 .. kbest
  BY <1>1, <1>3 DEF Counted
<1>5. ~(pos > 1 /\ values[pos - 1] > values[pos])
  BY DEF OutOfOrder
<1> HIDE DEF Counted
<1> QED BY <1>1, <1>2, <1>3, <1>4, <1>5, InsertionSorts

(* The next run of the same call.                                          *)
LEMMA AgainKeeps ==
  ASSUME SamplerAssumption, Inv, Again
  PROVE  Inv'
<1> USE DEF Again, clocks, counters, sampler
<1>1. Chosen(values, from, samples, Counted) /\ Sorted(values, Counted)
  BY ListSorted
<1>2. TypeOK'
  BY DEF Inv, TypeOK
<1>3. SamplesOK'
  BY <1>1 DEF SamplesOK, Counted
<1>4. CounterOK' /\ CountOK'
  BY DEF CounterOK, CountOK, Inv
<1> QED BY <1>2, <1>3, <1>4 DEF Inv

(* fcyc returns the least value.                                           *)
LEMMA ReturnKeeps ==
  ASSUME SamplerAssumption, Inv, Return
  PROVE  Inv'
<1> USE DEF Return, clocks, counters, sampler
<1>1. Chosen(values, from, samples, Counted) /\ Sorted(values, Counted)
  BY ListSorted
<1>2. TypeOK'
  <2>1. values[1] \in Int
    BY Constants DEF Inv, TypeOK
  <2> QED BY <2>1 DEF Inv, TypeOK
<1>3. SamplesOK'
  BY <1>1 DEF SamplesOK, Counted
<1>4. CounterOK'
  BY DEF CounterOK
<1>5. CountOK'
  BY DEF CountOK, Inv, has_converged
<1> QED BY <1>2, <1>3, <1>4, <1>5 DEF Inv

(* Nothing happens.                                                        *)
LEMMA StutterKeeps ==
  ASSUME Inv, UNCHANGED vars
  PROVE  Inv'
<1> USE DEF vars, clocks, counters, sampler
<1>1. TypeOK' /\ CounterOK'
  BY DEF Inv, TypeOK, CounterOK, High, Low
<1>2. SamplesOK' /\ CountOK'
  BY DEF Inv, SamplesOK, CountOK, Counted, has_converged
<1> QED BY <1>1, <1>2 DEF Inv

(* The inductive invariant holds in every state (fcyc.c:64, 129).          *)
THEOREM InvCorrect == Spec => []Inv
<1>1. Init => Inv
  BY InitEstablishes, SamplerAssumption
<1>2. Inv /\ [Next]_vars => Inv'
  <2> SUFFICES ASSUME Inv, [Next]_vars
               PROVE  Inv'
    OBVIOUS
  <2> QED BY SamplerAssumption, CallKeeps, StartCounterKeeps, RunKeeps, AddSampleKeeps,
             InsertKeeps, AgainKeeps, ReturnKeeps, StutterKeeps DEF Next
<1> QED BY <1>1, <1>2, PTL DEF Spec

(* Every variable of fcyc and of its counter stays in its type.            *)
THEOREM TypeCorrect == Spec => []TypeOK
<1>1. Inv => TypeOK
  BY DEF Inv
<1> QED BY <1>1, InvCorrect, PTL

(* The invariant says all that KBest says.                                 *)
LEMMA InvImpliesKBest == SamplerAssumption /\ Inv => KBest
<1> SUFFICES ASSUME SamplerAssumption, Inv, pc # "insert"
             PROVE  /\ \A p \in 1 .. Counted : /\ from[p] \in DOMAIN samples
                                               /\ values[p] = samples[from[p]]
                    /\ \A p, q \in 1 .. Counted :
                         p < q => values[p] <= values[q] /\ from[p] # from[q]
                    /\ \A s \in DOMAIN samples :
                         \/ \E p \in 1 .. Counted : from[p] = s
                         \/ Counted = kbest /\ values[kbest] <= samples[s]
                    /\ pc = "returned" /\ samples # << >> =>
                         \A s \in DOMAIN samples : result <= samples[s]
  BY DEF KBest
<1>1. /\ kbest \in Nat \ {0} /\ values \in [1 .. kbest -> Int]
      /\ samples \in Seq(Int) /\ samplecount = Len(samples)
  BY Constants DEF Inv, TypeOK
<1>2. Chosen(values, from, samples, Counted) /\ Sorted(values, Counted)
  BY DEF Inv, SamplesOK
<1>3. Counted \in 0 .. kbest /\ (samplecount # 0 => Counted \in 1 .. kbest)
  BY <1>1 DEF Counted
<1>4. DOMAIN samples = 1 .. Len(samples)
  BY <1>1
<1> DEFINE n == Counted
<1> HIDE DEF n
<1>5. /\ \A p \in 1 .. n : from[p] \in DOMAIN samples /\ values[p] = samples[from[p]]
      /\ \A p, q \in 1 .. n : from[p] = from[q] => p = q
      /\ \A s \in DOMAIN samples :
           \/ \E p \in 1 .. n : from[p] = s
           \/ n = kbest /\ \A p \in 1 .. n : values[p] <= samples[s]
      /\ \A p, q \in 1 .. n : p < q => values[p] <= values[q]
  BY <1>2, <1>4 DEF Chosen, Sorted, n
<1>6. n \in 0 .. kbest /\ (samplecount # 0 => n \in 1 .. kbest)
  BY <1>3 DEF n
<1>7. \A p, q \in 1 .. n : p < q => values[p] <= values[q] /\ from[p] # from[q]
  BY <1>5, <1>6
<1>8. \A s \in DOMAIN samples : \/ \E p \in 1 .. n : from[p] = s
                                \/ n = kbest /\ values[kbest] <= samples[s]
  BY <1>1, <1>5
<1>9. ASSUME pc = "returned", samples # << >>, NEW s \in DOMAIN samples
      PROVE  result <= samples[s]
  <2>1. samplecount # 0
    BY <1>1, <1>4, <1>9
  <2>2. result = values[1]
    BY <1>9, <2>1 DEF Inv, CountOK
  <2>3. 1 \in 1 .. n /\ n \in 1 .. kbest
    BY <1>1, <1>6, <2>1
  <2>4. \A p \in 1 .. n : values[p] \in Int
    BY <1>1, <2>3
  <2>5. \A p \in 1 .. n : values[1] <= values[p]
    <3>1. ASSUME NEW p \in 1 .. n
          PROVE  values[1] <= values[p]
      <4>1. CASE p = 1
        BY <2>3, <2>4, <4>1
      <4>2. CASE p # 1
        BY <1>5, <2>3, <4>2
      <4> QED BY <4>1, <4>2
    <3> QED BY <3>1
  <2>6. CASE \E p \in 1 .. n : from[p] = s
    BY <1>5, <2>2, <2>5, <2>6
  <2>7. CASE \A p \in 1 .. n : values[p] <= samples[s]
    BY <2>2, <2>3, <2>7
  <2> QED BY <1>5, <2>6, <2>7
<1> QED BY <1>5, <1>7, <1>8, <1>9 DEF n

(* For every kbest, width of a word and sequence of runs, fcyc keeps the   *)
(* kbest least true costs in order and returns the least (fcyc.c:64, 90;   *)
(* clock.c:52).                                                            *)
THEOREM KBestCorrect == Spec => []KBest
<1>1. Inv => KBest
  BY InvImpliesKBest, SamplerAssumption
<1> QED BY <1>1, InvCorrect, PTL

(* The invariant says all that GivesUpInTime says: the runs the values are *)
(* from are the witnesses.                                                 *)
LEMMA InvImpliesGivesUp == SamplerAssumption /\ Inv => GivesUpInTime
<1> SUFFICES ASSUME SamplerAssumption, Inv
             PROVE  GivesUpInTime
  OBVIOUS
<1>1. /\ kbest \in Nat \ {0} /\ values \in [1 .. kbest -> Int] /\ from \in [1 .. kbest -> Nat]
      /\ samples \in Seq(Int) /\ samplecount = Len(samples)
      /\ EpsDen \in Nat \ {0} /\ EpsNum \in Nat /\ maxsamples \in Nat
  BY Constants DEF Inv, TypeOK
<1>2. Len(samples) <= maxsamples
  BY <1>1 DEF Inv, CountOK
<1>3. ASSUME pc = "returned", samples # << >>, Len(samples) < maxsamples
      PROVE  \E p \in [1 .. kbest -> DOMAIN samples] :
               /\ \A k, l \in 1 .. kbest : p[k] = p[l] => k = l
               /\ \A k \in 1 .. kbest :
                    EpsDen * samples[p[k]] <= (EpsDen + EpsNum) * result
  <2>1. samplecount # 0 /\ ~(samplecount >= maxsamples)
    BY <1>1, <1>3
  <2>2. result = values[1] /\ has_converged
    BY <1>3, <2>1 DEF Inv, CountOK
  <2>3. Counted = kbest
    BY <1>1, <2>2 DEF Counted, has_converged
  <2>4. Chosen(values, from, samples, kbest) /\ Sorted(values, kbest)
    BY <1>3, <2>3 DEF Inv, SamplesOK
  <2>5. /\ \A p \in 1 .. kbest : from[p] \in DOMAIN samples /\ values[p] = samples[from[p]]
        /\ \A p, q \in 1 .. kbest : from[p] = from[q] => p = q
    BY <1>1, <2>4 DEF Chosen
  <2>6. from \in [1 .. kbest -> DOMAIN samples]
    BY <1>1, <2>5
  <2>7. ASSUME NEW k \in 1 .. kbest
        PROVE  EpsDen * samples[from[k]] <= (EpsDen + EpsNum) * result
    <3>1. k \in Int /\ kbest \in 1 .. kbest /\ values[k] \in Int /\ values[kbest] \in Int
          /\ values[1] \in Int
      BY <1>1
    <3>2. values[k] <= values[kbest]
      BY <2>4, <3>1 DEF Sorted
    <3>3. EpsDen * values[k] <= EpsDen * values[kbest]
      BY <1>1, <3>1, <3>2, TimesMonotonic
    <3>4. EpsDen * values[kbest] <= (EpsDen + EpsNum) * values[1]
      BY <1>1, <2>2, <3>1 DEF has_converged
    <3>5. /\ EpsDen * values[k] \in Int /\ EpsDen * values[kbest] \in Int
          /\ (EpsDen + EpsNum) * values[1] \in Int
      BY <1>1, <3>1
    <3>6. EpsDen * values[k] <= (EpsDen + EpsNum) * values[1]
      BY <3>3, <3>4, <3>5
    <3> QED BY <2>2, <2>5, <3>6
  <2> QED BY <2>5, <2>6, <2>7
<1> QED BY <1>2, <1>3 DEF GivesUpInTime

(* fcyc never measures more than maxsamples times, and fewer times only if *)
(* kbest measurements lie within epsilon (fcyc.c:90, 138).                 *)
THEOREM GivesUpCorrect == Spec => []GivesUpInTime
<1>1. Inv => GivesUpInTime
  BY InvImpliesGivesUp, SamplerAssumption
<1> QED BY <1>1, InvCorrect, PTL

=============================================================================
