--------------------------- MODULE JobListProofs ---------------------------
(***************************************************************************)
(* Lemmas about the helper routines of the job list.  The searches and     *)
(* maxjid are defined with CHOOSE; the lemmas show that the value they     *)
(* choose exists, for every length of the array.  Induction over the array *)
(* is done by the least counterexample, since the provers cannot           *)
(* instantiate an induction theorem.                                       *)
(***************************************************************************)
EXTENDS JobList, WellFoundedInduction, TLAPS

(* A nonempty set of natural numbers has a least element. *)
LEMMA LeastElement ==
  ASSUME NEW S, S \subseteq Nat, S # {}
  PROVE  \E x \in S : \A y \in S : x <= y
<1> DEFINE R == OpToRel(<, Nat)
<1>1. IsWellFoundedOn(R, Nat)
  BY NatLessThanWellFounded
<1>2. PICK x \in S : \A y \in S : ~ (<<y, x>> \in R)
  <2> HIDE DEF R
  <2> QED BY <1>1, WFMin, Zenon
<1>3. \A y \in S : x <= y
  <2> SUFFICES ASSUME NEW y \in S PROVE x <= y
    OBVIOUS
  <2>1. ~ (<<y, x>> \in R)
    BY <1>2
  <2>2. x \in Nat /\ y \in Nat
    OBVIOUS
  <2>3. ~ (y < x)
    BY <2>1, <2>2 DEF OpToRel
  <2> QED BY <2>2, <2>3
<1> QED BY <1>3

(* Every search returns NULL exactly when no slot matches, and otherwise   *)
(* the first slot that does.                                               *)
LEMMA FirstSlotFinds ==
  ASSUME NEW S, S \subseteq Slots
  PROVE  /\ FirstSlot(S) = NULL <=> S = {}
         /\ S # {} => FirstSlot(S) \in S /\ \A j \in S : FirstSlot(S) <= j
<1>1. S \subseteq Nat
  BY MaxJobsAssumption DEF Slots
<1>2. CASE S = {}
  BY <1>2 DEF FirstSlot
<1>3. CASE S # {}
  <2>1. \E x \in S : \A y \in S : x <= y
    BY <1>1, <1>3, LeastElement
  <2>2. FirstSlot(S) \in S /\ \A j \in S : FirstSlot(S) <= j
    BY <1>3, <2>1 DEF FirstSlot
  <2>3. FirstSlot(S) # NULL
    BY <2>2, MaxJobsAssumption DEF Slots, NULL
  <2> QED BY <1>3, <2>2, <2>3
<1> QED BY <1>2, <1>3

(* getjobpid returns NULL exactly when the process is not listed. *)
LEMMA GetjobpidFinds ==
  ASSUME NEW t \in [Slots -> Job], NEW p \in Nat
  PROVE  /\ getjobpid(t, p) \in Slots \union {NULL}
         /\ getjobpid(t, p) # NULL =>
              /\ getjobpid(t, p) \in Slots
              /\ t[getjobpid(t, p)].pid = p
              /\ p # 0
         /\ getjobpid(t, p) = NULL => \A i \in Slots : t[i].pid = p => p = 0
<1>1. CASE p < 1
  BY <1>1 DEF getjobpid, NULL
<1>2. CASE ~(p < 1)
  <2>1. getjobpid(t, p) = FirstSlot(WithPid(t, p))
    BY <1>2 DEF getjobpid
  <2>2. WithPid(t, p) \subseteq Slots
    BY DEF WithPid
  <2>3. CASE WithPid(t, p) = {}
    BY <1>2, <2>1, <2>2, <2>3, FirstSlotFinds DEF WithPid
  <2>4. CASE WithPid(t, p) # {}
    BY <1>2, <2>1, <2>2, <2>4, FirstSlotFinds DEF WithPid
  <2> QED BY <2>3, <2>4
<1> QED BY <1>1, <1>2

(* addjob takes a slot that holds no process. *)
LEMMA FreeSlotIsFree ==
  ASSUME NEW t \in [Slots -> Job], FreeSlot(t) # NULL
  PROVE  FreeSlot(t) \in Slots /\ t[FreeSlot(t)].pid = 0
<1>1. WithPid(t, 0) \subseteq Slots
  BY DEF WithPid
<1>2. WithPid(t, 0) # {}
  BY <1>1, FirstSlotFinds DEF FreeSlot
<1>3. FirstSlot(WithPid(t, 0)) \in WithPid(t, 0)
  BY <1>1, <1>2, FirstSlotFinds
<1> QED BY <1>3 DEF FreeSlot, WithPid

(* fgpid returns 0 or the process of a slot in state FG. *)
LEMMA FgpidFinds ==
  ASSUME NEW t \in [Slots -> Job]
  PROVE  /\ fgpid(t) \in Nat
         /\ fgpid(t) # 0 =>
              \E i \in Slots : t[i].state = FG /\ t[i].pid = fgpid(t)
<1> DEFINE S == {k \in Slots : t[k].state = FG}
<1>1. CASE S = {}
  BY <1>1 DEF fgpid, FirstSlot
<1>2. CASE S # {}
  <2>1. FirstSlot(S) \in S /\ FirstSlot(S) # NULL
    BY <1>2, FirstSlotFinds
  <2>2. fgpid(t) = t[FirstSlot(S)].pid
    BY <2>1 DEF fgpid
  <2> QED BY <2>1, <2>2 DEF Job
<1> QED BY <1>1, <1>2

(* The array has a largest job ID: the fold of maxjid's loop, by the least *)
(* prefix of the array without one.                                        *)
LEMMA LargestJid ==
  ASSUME NEW t \in [Slots -> Job]
  PROVE  \E m \in {0} \union {t[i].jid : i \in Slots} :
           \A i \in Slots : t[i].jid <= m
<1> DEFINE Top(n) == \E m \in {0} \union {t[i].jid : i \in 1 .. n} :
                        \A i \in 1 .. n : t[i].jid <= m
           Bad == {n \in 0 .. MAXJOBS : ~Top(n)}
<1>0. MAXJOBS \in Nat
  BY MaxJobsAssumption
<1>1. \A i \in Slots : t[i].jid \in Nat
  BY DEF Job
<1>2. ASSUME Bad # {} PROVE FALSE
  <2>1. Bad \subseteq Nat
    BY <1>0
  <2>2. PICK n \in Bad : \A k \in Bad : n <= k
    <3> HIDE DEF Bad
    <3> QED BY <1>2, <2>1, LeastElement
  <2>3. n # 0
    <3>1. Top(0)
      OBVIOUS
    <3> QED BY <3>1
  <2>4. n \in Slots /\ n - 1 \in 0 .. MAXJOBS
    BY <1>0, <2>3 DEF Slots
  <2>5. n - 1 \notin Bad
    <3> HIDE DEF Bad
    <3> QED BY <2>1, <2>2, <2>4
  <2>6. Top(n - 1)
    BY <2>4, <2>5
  <2>7. PICK m \in {0} \union {t[i].jid : i \in 1 .. n - 1} :
               \A i \in 1 .. n - 1 : t[i].jid <= m
    BY <2>6
  <2>8. 1 .. n - 1 \subseteq Slots /\ 1 .. n = (1 .. n - 1) \union {n}
    BY <1>0, <2>4 DEF Slots
  <2>9. m \in Nat
    BY <1>1, <2>7, <2>8
  <2>10. Top(n)
    <3>1. CASE t[n].jid <= m
      BY <2>7, <2>8, <3>1
    <3>2. CASE ~(t[n].jid <= m)
      <4>1. \A i \in 1 .. n : t[i].jid <= t[n].jid
        BY <1>1, <2>4, <2>7, <2>8, <2>9, <3>2
      <4>2. n \in 1 .. n
        BY <1>0, <2>4 DEF Slots
      <4> QED BY <4>1, <4>2
    <3> QED BY <3>1, <3>2
  <2> QED BY <2>2, <2>10
<1>3. Top(MAXJOBS)
  <2>1. Bad = {}
    BY <1>2
  <2>2. MAXJOBS \in 0 .. MAXJOBS
    BY <1>0
  <2>3. MAXJOBS \in {n \in 0 .. MAXJOBS : ~Top(n)} <=> ~Top(MAXJOBS)
    <3> HIDE DEF Top
    <3> QED BY <2>2
  <2> HIDE DEF Top
  <2> QED BY <2>1, <2>3
<1> QED BY <1>3 DEF Slots

LEMMA MaxjidIsLargest ==
  ASSUME NEW t \in [Slots -> Job]
  PROVE  /\ maxjid(t) \in Nat
         /\ maxjid(t) \in {0} \union {t[i].jid : i \in Slots}
         /\ \A i \in Slots : t[i].jid <= maxjid(t)
<1>1. /\ maxjid(t) \in {0} \union {t[i].jid : i \in Slots}
      /\ \A i \in Slots : t[i].jid <= maxjid(t)
  BY LargestJid DEF maxjid
<1> QED BY <1>1 DEF Job

(* addjob and deletejob leave nextjid a valid job ID. *)
LEMMA NextJidType ==
  ASSUME NEW n \in Nat
  PROVE  NextJid(n) \in Nat \ {0}
BY MaxJobsAssumption DEF NextJid

(* deletejob clears the slot it finds and changes no other. *)
LEMMA DeletedType ==
  ASSUME NEW t \in [Slots -> Job], NEW p \in Nat, NEW n \in Nat \ {0}
  PROVE  /\ Deleted(t, p) \in [Slots -> Job]
         /\ JidAfterDelete(t, p, n) \in Nat \ {0}
         /\ \A i \in Slots : Deleted(t, p)[i] = t[i] \/ Deleted(t, p)[i] = clearjob
<1>1. clearjob \in Job
  BY DEF clearjob, Job, States, UNDEF
<1>2. getjobpid(t, p) \in Slots \union {NULL}
  BY GetjobpidFinds
<1>3. Deleted(t, p) \in [Slots -> Job]
  BY <1>1, <1>2 DEF Deleted
<1>4. \A i \in Slots : Deleted(t, p)[i] = t[i] \/ Deleted(t, p)[i] = clearjob
  BY <1>1, <1>2 DEF Deleted
<1>5. JidAfterDelete(t, p, n) \in Nat \ {0}
  BY <1>3, MaxjidIsLargest DEF JidAfterDelete
<1> QED BY <1>3, <1>4, <1>5

=============================================================================
