------------------------------ MODULE Sampler -------------------------------
(***************************************************************************)
(* The K-best scheme of lab3/fcyc.c on the cycle counter of clock.c: fcyc  *)
(* runs a function again and again, keeps the kbest least measurements in  *)
(* order, and returns the least when they agree or after maxsamples runs.  *)
(* values[p] of this module is values[p - 1] of the code, and pos is one   *)
(* more than the code's.                                                   *)
(***************************************************************************)
EXTENDS Integers, Sequences

CONSTANTS
  kbest, maxsamples,
  EpsNum, EpsDen,       \* epsilon, a fraction
  Radix,                \* 2^32: a word of the counter counts modulo Radix
  Durations, Ticks,     \* the cycles and the timer ticks a run may take
  TickCosts,            \* what callibrate may find; 0 is nothing
  Calls                 \* bound: how often fcyc is called

ASSUME SamplerAssumption ==
  /\ {kbest, maxsamples, EpsDen, Radix} \subseteq Nat \ {0}
  /\ EpsNum \in Nat /\ Calls \in Nat
  /\ Durations \subseteq 0 .. Radix * Radix - 1
  /\ Ticks \subseteq Nat /\ TickCosts \subseteq Nat

VARIABLES
  tsc, utime,           \* the processor's counter, and the ticks so far
  compensate,
  cyc_hi, cyc_lo, start_tick, cyc_per_tick,
  values, samplecount, pos, result,
  pc, calls,
  samples,              \* history: the true costs of the runs of this call
  from,                 \* history: which of them each value is
  begun                 \* history: the counter when the run began

clocks == <<tsc, utime>>
counters == <<cyc_hi, cyc_lo, start_tick, cyc_per_tick, begun>>
sampler == <<values, samplecount, pos, samples, from>>
vars == <<clocks, compensate, counters, sampler, result, pc, calls>>

-----------------------------------------------------------------------------
(* The two words of the counter. *)
High(t) == (t \div Radix) % Radix
Low(t) == t % Radix

(* The difference of two words each, with a borrow.                        *)
(* Mutant: the borrow is forgotten. *)
get_counterNoBorrow(hi, lo) ==
  Radix * ((High(tsc) - hi) % Radix) + ((Low(tsc) - lo) % Radix)
get_counter(hi, lo) ==
  LET low == (Low(tsc) - lo) % Radix
      borrow == IF low > Low(tsc) THEN 1 ELSE 0
  IN  Radix * ((High(tsc) - hi - borrow) % Radix) + low

get_comp_counter(hi, lo) ==
  get_counter(hi, lo) - (utime - start_tick) * cyc_per_tick

(* Mutant: a full list is not needed. *)
has_convergedEarly ==
  (EpsDen + EpsNum) * values[1] >= EpsDen * values[kbest]
has_converged ==
  /\ samplecount >= kbest
  /\ (EpsDen + EpsNum) * values[1] >= EpsDen * values[kbest]

init_sampler ==
  /\ values' = [p \in 1 .. kbest |-> 0] /\ samplecount' = 0
  /\ samples' = << >> /\ from' = [p \in 1 .. kbest |-> 0]

-----------------------------------------------------------------------------
Init ==
  /\ tsc \in Durations /\ utime = 0
  /\ compensate \in BOOLEAN
  /\ cyc_hi = 0 /\ cyc_lo = 0 /\ start_tick = 0 /\ cyc_per_tick = 0 /\ begun = 0
  /\ values = [p \in 1 .. kbest |-> 0] /\ from = [p \in 1 .. kbest |-> 0]
  /\ samplecount = 0 /\ pos = 1 /\ samples = << >>
  /\ result = 0 /\ pc = "returned" /\ calls = 0

(* fcyc, or its next call. *)
Call ==
  /\ pc = "returned" /\ calls < Calls
  /\ calls' = calls + 1
  /\ init_sampler
  /\ pc' = "start"
  /\ UNCHANGED <<clocks, compensate, counters, pos, result>>

start_counter ==
  cyc_hi' = High(tsc) /\ cyc_lo' = Low(tsc) /\ begun' = tsc

(* start_counter, or start_comp_counter: its first call finds out what a   *)
(* tick of the timer costs, and so does the next one if that failed.       *)
StartCounter ==
  /\ pc = "start"
  /\ start_counter
  /\ IF compensate
     THEN /\ start_tick' = utime
          /\ IF cyc_per_tick = 0 THEN cyc_per_tick' \in TickCosts
                                 ELSE UNCHANGED cyc_per_tick
     ELSE UNCHANGED <<start_tick, cyc_per_tick>>
  /\ pc' = "run"
  /\ UNCHANGED <<clocks, compensate, sampler, result, calls>>

Run ==
  /\ pc = "run"
  /\ \E d \in Durations : tsc' = tsc + d
  /\ \E t \in Ticks : utime' = utime + t
  /\ pc' = "stop"
  /\ UNCHANGED <<compensate, counters, sampler, result, calls>>

(* What the run cost, as the processor knows it. *)
TrueCost ==
  (tsc - begun) - (IF compensate THEN (utime - start_tick) * cyc_per_tick ELSE 0)

(* The counter is read, and add_sample stores the value at the end of the  *)
(* list, or over the last of a full list if that is larger.                *)
AddSample ==
  /\ pc = "stop"
  /\ LET val == IF compensate THEN get_comp_counter(cyc_hi, cyc_lo)
                              ELSE get_counter(cyc_hi, cyc_lo)
         last == IF samplecount < kbest THEN samplecount + 1 ELSE kbest
     IN  IF samplecount < kbest \/ val < values[kbest]
         THEN /\ values' = [values EXCEPT ![last] = val]
              /\ from' = [from EXCEPT ![last] = Len(samples) + 1]
              /\ pos' = last
         ELSE UNCHANGED <<values, from>> /\ pos' = 1
  /\ samples' = Append(samples, TrueCost)
  /\ samplecount' = samplecount + 1
  /\ pc' = "insert"
  /\ UNCHANGED <<clocks, compensate, counters, result, calls>>

OutOfOrder == pos > 1 /\ values[pos - 1] > values[pos]

Swapped(f, p) == [f EXCEPT ![p - 1] = f[p], ![p] = f[p - 1]]

(* One step of the insertion. *)
Insert ==
  /\ pc = "insert" /\ OutOfOrder
  /\ values' = Swapped(values, pos) /\ from' = Swapped(from, pos)
  /\ pos' = pos - 1
  /\ UNCHANGED <<clocks, compensate, counters, samplecount, samples, result,
                 pc, calls>>

Again ==
  /\ pc = "insert" /\ ~ OutOfOrder
  /\ ~ has_converged /\ samplecount < maxsamples
  /\ pc' = "start"
  /\ UNCHANGED <<clocks, compensate, counters, sampler, result, calls>>

Return ==
  /\ pc = "insert" /\ ~ OutOfOrder
  /\ has_converged \/ samplecount >= maxsamples
  /\ result' = values[1] /\ pc' = "returned"
  /\ UNCHANGED <<clocks, compensate, counters, sampler, calls>>

Next == Call \/ StartCounter \/ Run \/ AddSample \/ Insert \/ Again \/ Return

(* One process, and f returns. *)
Spec == Init /\ [][Next]_vars /\ WF_vars(Next)

-----------------------------------------------------------------------------
Counted == IF samplecount < kbest THEN samplecount ELSE kbest

TypeOK ==
  /\ tsc \in Nat /\ utime \in Nat /\ compensate \in BOOLEAN
  /\ cyc_hi \in 0 .. Radix - 1 /\ cyc_lo \in 0 .. Radix - 1
  /\ start_tick \in Nat /\ cyc_per_tick \in Nat /\ begun \in Nat
  /\ values \in [1 .. kbest -> Int] /\ from \in [1 .. kbest -> Nat]
  /\ samples \in Seq(Int) /\ samplecount = Len(samples)
  /\ pos \in 1 .. kbest /\ result \in Int /\ calls \in 0 .. Calls
  /\ pc \in {"start", "run", "stop", "insert", "returned"}

(* Between two insertions values holds, in order, the least costs of this  *)
(* call's runs, each once, and fcyc returns the least of all (fcyc.c:68,   *)
(* 90): neither the two words of the counter (clock.c:55), nor a tick, nor *)
(* a list that was full, nor the call before has changed one.              *)
KBest ==
  pc # "insert" =>
    /\ \A p \in 1 .. Counted : /\ from[p] \in DOMAIN samples
                               /\ values[p] = samples[from[p]]
    /\ \A p, q \in 1 .. Counted :
         p < q => values[p] <= values[q] /\ from[p] # from[q]
    /\ \A s \in DOMAIN samples :
         \/ \E p \in 1 .. Counted : from[p] = s
         \/ Counted = kbest /\ values[kbest] <= samples[s]
    /\ pc = "returned" /\ samples # << >> =>
         \A s \in DOMAIN samples : result <= samples[s]

(* However the runs differ, fcyc gives up after maxsamples (fcyc.c:138),   *)
(* and before that only when kbest of its measurements lie within epsilon. *)
GivesUpInTime ==
  /\ Len(samples) <= maxsamples
  /\ pc = "returned" /\ samples # << >> /\ Len(samples) < maxsamples =>
       \E p \in [1 .. kbest -> DOMAIN samples] :
         /\ \A k, l \in 1 .. kbest : p[k] = p[l] => k = l
         /\ \A k \in 1 .. kbest :
              EpsDen * samples[p[k]] <= (EpsDen + EpsNum) * result

=============================================================================
