----------------------------- MODULE JobTable -----------------------------
(***************************************************************************)
(* The job list used by one thread at a time: every routine of tsh.c that  *)
(* writes the list runs to its end before the next one starts.  This is    *)
(* what the comments of eval promise by blocking SIGCHLD; module Shell     *)
(* shows what happens when a handler interrupts addjob.                    *)
(***************************************************************************)
EXTENDS JobList

CONSTANT Pids       \* the process IDs fork may return

ASSUME PidsAssumption == Pids \subseteq Nat \ {0}

VARIABLES jobs, nextjid

vars == <<jobs, nextjid>>

TypeOK ==
  /\ jobs \in [Slots -> Job]
  /\ nextjid \in Nat \ {0}

Init ==
  /\ jobs = initjobs
  /\ nextjid = 1

(***************************************************************************)
(* addjob when there is room.  The caller is eval, whose process is new.   *)
(***************************************************************************)
addjob(p, state) ==
  /\ p \notin Listed(jobs)
  /\ FreeSlot(jobs) # NULL
  /\ jobs' = [jobs EXCEPT ![FreeSlot(jobs)] =
                 [pid |-> p, jid |-> nextjid, state |-> state]]
  /\ nextjid' = NextJid(nextjid)

(***************************************************************************)
(* deletejob, called by sigchld_handler when a child is gone.              *)
(***************************************************************************)
deletejob(p) ==
  /\ jobs' = Deleted(jobs, p)
  /\ nextjid' = JidAfterDelete(jobs, p, nextjid)

(***************************************************************************)
(* The writes of job->state by sigchld_handler (to ST) and by do_bgfg (to  *)
(* BG and FG), each through getjobpid.                                     *)
(***************************************************************************)
SetState(p, state) ==
  /\ getjobpid(jobs, p) # NULL
  /\ jobs' = [jobs EXCEPT ![getjobpid(jobs, p)].state = state]
  /\ UNCHANGED nextjid

Next ==
  \E p \in Pids :
    \/ \E state \in {FG, BG} : addjob(p, state)
    \/ deletejob(p)
    \/ \E state \in {FG, BG, ST} : SetState(p, state)

Spec == Init /\ [][Next]_vars

-----------------------------------------------------------------------------
(* No two slots hold the same process. *)
UniquePids ==
  \A i, j \in Slots : jobs[i].pid # 0 /\ jobs[i].pid = jobs[j].pid => i = j

(* A slot is a complete job or completely clear: fgpid, getjobjid and      *)
(* jobsInBackgroundOrStopped, which do not look at pid, see only jobs.     *)
SlotsAreWhole ==
  \A i \in Slots :
    IF jobs[i].pid = 0 THEN jobs[i] = clearjob
    ELSE jobs[i].state # UNDEF /\ jobs[i].jid # 0

(* The list is a partial map from processes to complete jobs, after every  *)
(* order of additions, removals and changes of state.                      *)
ListIsSound == UniquePids /\ SlotsAreWhole

(* Job IDs are handed out without gaps above the largest one in use, also  *)
(* after nextjid wrapped and after deletejob moved it back.                *)
NoJidSkipped == nextjid <= maxjid(jobs) + 1

(* "getjobjid - Find a job (by JID) on the job list": every listed job is  *)
(* found by its own job ID.  It fails because nextjid wraps to 1 while     *)
(* job 1 may still be listed.                                              *)
FoundByJid ==
  \A i \in Slots : jobs[i].pid # 0 => getjobjid(jobs, jobs[i].jid) = i

=============================================================================
