-------------------------- MODULE JobTableProofs --------------------------
(***************************************************************************)
(* What the job list guarantees when its routines are not interrupted, for *)
(* every number of slots and every set of processes.                       *)
(***************************************************************************)
EXTENDS JobTable, JobListProofs

Inv == TypeOK /\ UniquePids /\ SlotsAreWhole /\ NoJidSkipped

LEMMA InitInv == Init => Inv
<1> SUFFICES ASSUME Init PROVE Inv
  OBVIOUS
<1>1. TypeOK
  BY DEF Init, TypeOK, initjobs, clearjob, Job, States, UNDEF
<1>2. UniquePids /\ SlotsAreWhole
  BY DEF Init, UniquePids, SlotsAreWhole, initjobs, clearjob
<1>3. NoJidSkipped
  <2>1. maxjid(jobs) \in Nat
    BY <1>1, MaxjidIsLargest DEF TypeOK
  <2> QED BY <2>1 DEF Init, NoJidSkipped
<1> QED BY <1>1, <1>2, <1>3 DEF Inv

LEMMA AddjobInv ==
  ASSUME Inv, NEW p \in Pids, NEW state \in {FG, BG}, addjob(p, state)
  PROVE  Inv'
<1> DEFINE k == FreeSlot(jobs)
           job == [pid |-> p, jid |-> nextjid, state |-> state]
<1>0. jobs \in [Slots -> Job] /\ nextjid \in Nat \ {0} /\ p \in Nat \ {0}
  BY PidsAssumption DEF Inv, TypeOK
<1>1. k \in Slots /\ jobs[k].pid = 0
  BY <1>0, FreeSlotIsFree DEF addjob
<1>2. job \in Job /\ state # UNDEF
  BY <1>0 DEF Job, States, FG, BG, UNDEF
<1>3. jobs' = [jobs EXCEPT ![k] = job] /\ nextjid' = NextJid(nextjid)
  BY DEF addjob
<1>4. \A i \in Slots : jobs[i].pid # p
  BY <1>0 DEF addjob, Listed
<1> HIDE DEF k, job
<1>5. TypeOK'
  BY <1>0, <1>1, <1>2, <1>3, NextJidType DEF TypeOK
<1>6. jobs'[k] = job /\ \A i \in Slots \ {k} : jobs'[i] = jobs[i]
  BY <1>0, <1>1, <1>3
<1>7. job.pid = p /\ job.jid = nextjid /\ job.state = state
  BY DEF job
<1>8. UniquePids'
  BY <1>4, <1>6, <1>7 DEF Inv, UniquePids
<1>9. SlotsAreWhole'
  BY <1>0, <1>2, <1>6, <1>7 DEF Inv, SlotsAreWhole
<1>10. NoJidSkipped'
  <2>1. maxjid(jobs') \in Nat /\ nextjid <= maxjid(jobs')
    BY <1>1, <1>5, <1>6, <1>7, MaxjidIsLargest DEF TypeOK
  <2> QED BY <1>0, <1>3, <2>1 DEF NoJidSkipped, NextJid
<1> QED BY <1>5, <1>8, <1>9, <1>10 DEF Inv

LEMMA DeletejobInv ==
  ASSUME Inv, NEW p \in Pids, deletejob(p)
  PROVE  Inv'
<1>0. jobs \in [Slots -> Job] /\ nextjid \in Nat \ {0} /\ p \in Nat \ {0}
  BY PidsAssumption DEF Inv, TypeOK
<1>1. jobs' = Deleted(jobs, p) /\ nextjid' = JidAfterDelete(jobs, p, nextjid)
  BY DEF deletejob
<1>2. TypeOK'
  BY <1>0, <1>1, DeletedType DEF TypeOK
<1>3. \A i \in Slots : jobs'[i] = jobs[i] \/ jobs'[i] = clearjob
  BY <1>0, <1>1, DeletedType
<1>4. clearjob.pid = 0
  BY DEF clearjob
<1>5. UniquePids'
  BY <1>3, <1>4 DEF Inv, UniquePids
<1>6. SlotsAreWhole'
  BY <1>3, <1>4 DEF Inv, SlotsAreWhole
<1>7. NoJidSkipped'
  <2>1. CASE getjobpid(jobs, p) = NULL
    BY <1>1, <2>1 DEF Deleted, JidAfterDelete, Inv, NoJidSkipped
  <2>2. CASE getjobpid(jobs, p) # NULL
    <3>1. nextjid' = maxjid(jobs') + 1
      BY <1>1, <2>2 DEF JidAfterDelete
    <3> QED BY <1>2, <3>1 DEF NoJidSkipped, TypeOK
  <2> QED BY <2>1, <2>2
<1> QED BY <1>2, <1>5, <1>6, <1>7 DEF Inv

LEMMA SetStateInv ==
  ASSUME Inv, NEW p \in Pids, NEW state \in {FG, BG, ST}, SetState(p, state)
  PROVE  Inv'
<1> DEFINE k == getjobpid(jobs, p)
<1>0. jobs \in [Slots -> Job] /\ nextjid \in Nat \ {0} /\ p \in Nat \ {0}
  BY PidsAssumption DEF Inv, TypeOK
<1>1. k \in Slots /\ jobs[k].pid = p
  BY <1>0, GetjobpidFinds DEF SetState
<1>2. state \in States /\ state # UNDEF
  BY DEF States, FG, BG, ST, UNDEF
<1>3. jobs' = [jobs EXCEPT ![k].state = state] /\ nextjid' = nextjid
  BY DEF SetState
<1> HIDE DEF k
<1>4. TypeOK'
  BY <1>0, <1>1, <1>2, <1>3 DEF TypeOK, Job
<1>5. \A i \in Slots : jobs'[i].pid = jobs[i].pid /\ jobs'[i].jid = jobs[i].jid
  BY <1>0, <1>1, <1>3 DEF Job
<1>6. \A i \in Slots : i # k => jobs'[i] = jobs[i]
  BY <1>0, <1>1, <1>3
<1>7. jobs'[k].state = state
  BY <1>0, <1>1, <1>3 DEF Job
<1>8. UniquePids'
  BY <1>5 DEF Inv, UniquePids
<1>9. SlotsAreWhole'
  <2>1. SlotsAreWhole
    BY DEF Inv
  <2> QED BY <1>0, <1>1, <1>2, <1>5, <1>6, <1>7, <2>1 DEF SlotsAreWhole
<1>10. NoJidSkipped'
  <2>1. maxjid(jobs) = 0 \/ \E i \in Slots : maxjid(jobs) = jobs[i].jid
    BY <1>0, MaxjidIsLargest
  <2>2. /\ maxjid(jobs) \in Nat /\ maxjid(jobs') \in Nat
        /\ \A j \in Slots : jobs'[j].jid <= maxjid(jobs')
    BY <1>0, <1>4, MaxjidIsLargest DEF TypeOK
  <2>3. maxjid(jobs) <= maxjid(jobs')
    BY <1>5, <2>1, <2>2
  <2>4. nextjid <= maxjid(jobs) + 1
    BY DEF Inv, NoJidSkipped
  <2> QED BY <1>0, <1>3, <2>2, <2>3, <2>4 DEF NoJidSkipped
<1> QED BY <1>4, <1>8, <1>9, <1>10 DEF Inv

(* The inductive invariant holds of every behaviour. *)
THEOREM Invariance == Spec => []Inv
<1>1. Inv /\ UNCHANGED vars => Inv'
  BY DEF Inv, vars, TypeOK, UniquePids, SlotsAreWhole, NoJidSkipped
<1>2. Inv /\ Next => Inv'
  BY AddjobInv, DeletejobInv, SetStateInv DEF Next
<1> QED BY InitInv, <1>1, <1>2, PTL DEF Spec

(* The job list holds well-formed jobs whatever the calls. *)
THEOREM TypeCorrect == Spec => []TypeOK
<1>1. Inv => TypeOK
  BY DEF Inv
<1> QED BY Invariance, <1>1, PTL

(* addjob, deletejob and the state changes never list a process twice, and *)
(* leave no half-written slot behind: for every number of slots.           *)
THEOREM ListSound == Spec => []ListIsSound
<1>1. Inv => ListIsSound
  BY DEF Inv, ListIsSound
<1> QED BY Invariance, <1>1, PTL

(* nextjid never passes the largest job ID in use by more than one. *)
THEOREM JidsDense == Spec => []NoJidSkipped
<1>1. Inv => NoJidSkipped
  BY DEF Inv
<1> QED BY Invariance, <1>1, PTL

=============================================================================
