------------------------------ MODULE JobList ------------------------------
(***************************************************************************)
(* The job list of the tiny shell (lab4/tsh.c): the array jobs[MAXJOBS]    *)
(* and the helper routines that read and write it.  The routines are       *)
(* operators on the value of the array, so that the sequential module      *)
(* JobTable and the concurrent module Shell use the same definitions.      *)
(*                                                                         *)
(* A slot of the array is a number of 1..MAXJOBS (the code counts from 0), *)
(* a pointer to a slot is the slot, and NULL is 0.  The command line kept  *)
(* in a job is text that nothing but printf reads, and is left out.        *)
(***************************************************************************)
EXTENDS Naturals

CONSTANT MAXJOBS    \* the length of the array, 16 in the code

ASSUME MaxJobsAssumption == MAXJOBS \in Nat \ {0}

UNDEF == 0
FG == 1
BG == 2
ST == 3

States == {UNDEF, FG, BG, ST}
Slots == 1 .. MAXJOBS
NULL == 0

Job == [pid : Nat, jid : Nat, state : States]

clearjob == [pid |-> 0, jid |-> 0, state |-> UNDEF]

initjobs == [i \in Slots |-> clearjob]

(***************************************************************************)
(* Every search of the code walks the array upwards and returns at the     *)
(* first slot that matches.                                                *)
(***************************************************************************)
FirstSlot(S) == IF S = {} THEN NULL
                ELSE CHOOSE i \in S : \A j \in S : i <= j

WithPid(t, p) == {i \in Slots : t[i].pid = p}

getjobpid(t, p) == IF p < 1 THEN NULL ELSE FirstSlot(WithPid(t, p))

getjobjid(t, j) == IF j < 1 THEN NULL
                   ELSE FirstSlot({i \in Slots : t[i].jid = j})

(* Mutant: the first job in any state counts as the foreground job. *)
fgpidAnyState(t) == LET i == FirstSlot({k \in Slots : t[k].state # UNDEF})
                    IN  IF i = NULL THEN 0 ELSE t[i].pid

fgpid(t) == LET i == FirstSlot({k \in Slots : t[k].state = FG})
            IN  IF i = NULL THEN 0 ELSE t[i].pid

FreeSlot(t) == FirstSlot(WithPid(t, 0))     \* the slot addjob takes

maxjid(t) == CHOOSE m \in {0} \union {t[i].jid : i \in Slots} :
                \A i \in Slots : t[i].jid <= m

(* Mutant: job IDs wrap to 0. *)
NextJidFromZero(n) == (n + 1) % (MAXJOBS + 1)

(***************************************************************************)
(* addjob increments nextjid after using it, and wraps it to 1.            *)
(***************************************************************************)
NextJid(n) == IF n + 1 > MAXJOBS THEN 1 ELSE n + 1

(* Mutants: a field of the deleted job stays behind. *)
DeletedButState(t, p) ==
  IF getjobpid(t, p) = NULL THEN t
  ELSE [t EXCEPT ![getjobpid(t, p)] = [clearjob EXCEPT !.state = t[getjobpid(t, p)].state]]

DeletedButPid(t, p) ==
  IF getjobpid(t, p) = NULL THEN t
  ELSE [t EXCEPT ![getjobpid(t, p)] = [clearjob EXCEPT !.pid = p]]

(***************************************************************************)
(* deletejob of a process that is not listed changes nothing.              *)
(***************************************************************************)
Deleted(t, p) == IF getjobpid(t, p) = NULL THEN t
                 ELSE [t EXCEPT ![getjobpid(t, p)] = clearjob]

(* Mutant: the largest job ID is taken before the job is deleted. *)
JidBeforeDelete(t, p, n) == IF getjobpid(t, p) = NULL THEN n ELSE maxjid(t) + 1

JidAfterDelete(t, p, n) == IF getjobpid(t, p) = NULL THEN n
                           ELSE maxjid(Deleted(t, p)) + 1

jobsInBackgroundOrStopped(t) == \E i \in Slots : t[i].state \in {BG, ST}

(***************************************************************************)
(* A listed job is a slot with a process; the code can also leave a state  *)
(* in a slot without one.                                                  *)
(***************************************************************************)
Listed(t) == {t[i].pid : i \in Slots} \ {0}

=============================================================================
