------------------------------- MODULE Shell -------------------------------
(***************************************************************************)
(* The tiny shell of lab4/tsh.c with its signal handlers, the children it  *)
(* forks, and the signals the keyboard (or sdriver.pl) sends it.           *)
(*                                                                         *)
(* The shell is one thread.  Its main loop runs only while no handler      *)
(* does, a handler runs until it returns or until a handler of another     *)
(* signal interrupts it, and the only shared state is the job list and     *)
(* nextjid.  Each access main makes to that state is a step of its own;    *)
(* a search of the list is one step.  A search that a handler interrupts   *)
(* finds what it would have found had the handler run just before or just  *)
(* after it, because a handler can only clear a slot or set its state.     *)
(*                                                                         *)
(* A child is a process group of one process.  A process that its program  *)
(* forks itself (mysplit.c) is not modelled.                               *)
(***************************************************************************)
EXTENDS JobList, Sequences

CONSTANTS
  Pids,         \* the process IDs fork may return: bounds the commands run
  Keyboard,     \* the signals sent to the shell from outside
  Programs      \* what a child may do by itself

ASSUME PidsAssumption == Pids \subseteq Nat \ {0}
ASSUME KeyboardAssumption == Keyboard \subseteq {"INT", "TSTP", "QUIT"}
ASSUME ProgramsAssumption == Programs \subseteq {"exit", "int", "stop"}

VARIABLES
  jobs,         \* the job list
  nextjid,      \* the next job ID
  pc,           \* where the main loop is
  cmd,          \* the locals of eval, do_bgfg and addjob
  masked,       \* SIGTSTP is blocked by eval
  pending,      \* signals sent to the shell and not delivered yet
  stack,        \* the handlers that run, the innermost first
  chld,         \* the locals of sigchld_handler
  target,       \* pid of sigint_handler and sigtstp_handler, 0 when idle
  proc,         \* the state of every process
  intr,         \* stopped processes with a SIGINT pending
  status        \* of the shell itself

table == <<jobs, nextjid>>
main == <<pc, cmd, masked>>
handlers == <<stack, chld, target>>
children == <<proc, intr>>
vars == <<table, main, pending, handlers, children, status>>

(***************************************************************************)
(* A process that was forked shares the shell's group until it calls       *)
(* setpgrp, and keeps the shell's handlers until it calls execvp.  It is   *)
(* stopped until waitpid has told the shell, told from then on.  An exited *)
(* or killed process is a zombie until waitpid reaps it.                   *)
(***************************************************************************)
Zombie == {"exited", "killed"}
Phases == {"none", "forked", "ownpg", "running", "stopped", "told", "reaped"}
            \union Zombie

Signals == {"CHLD", "INT", "TSTP", "QUIT"}

PCs == {"read", "add_pid", "add_state", "add_load", "add_jid", "add_next",
        "unblock", "kill_arg", "kill", "set_state", "wait_arg", "waitfg",
        "waiting"}

Pids0 == Pids \union {0}      \* 0 is no process

Cmd == [pid : Pids0, bg : BOOLEAN, slot : Slots \union {NULL}, jid : Nat]

Chld == [pc : {"idle", "wait", "update"}, pid : Pids0, stopped : BOOLEAN]
Idle == [pc |-> "idle", pid |-> 0, stopped |-> FALSE]
Wait == [pc |-> "wait", pid |-> 0, stopped |-> FALSE]

TypeOK ==
  /\ jobs \in [Slots -> Job]
  /\ \A i \in Slots : jobs[i].pid \in Pids0
  /\ nextjid \in Nat \ {0}
  /\ pc \in PCs
  /\ cmd \in Cmd
  /\ masked \in BOOLEAN
  /\ pending \subseteq Signals
  /\ stack \in Seq({"CHLD", "INT", "TSTP"})
  /\ chld \in Chld
  /\ target \in [{"INT", "TSTP"} -> Pids0]
  /\ proc \in [Pids -> Phases]
  /\ intr \subseteq Pids
  /\ status \in {"running", "exit0", "exit1"}

Init ==
  /\ jobs = initjobs
  /\ nextjid = 1
  /\ pc = "read"
  /\ cmd = [pid |-> 0, bg |-> FALSE, slot |-> NULL, jid |-> 0]
  /\ masked = FALSE
  /\ pending = {}
  /\ stack = <<>>
  /\ chld = Idle
  /\ target = [s \in {"INT", "TSTP"} |-> 0]
  /\ proc = [p \in Pids |-> "none"]
  /\ intr = {}
  /\ status = "running"

-----------------------------------------------------------------------------
(***************************************************************************)
(* kill(-p, sig) by the shell.  The group exists from setpgrp until the    *)
(* process is reaped; otherwise kill fails with ESRCH, and unix_error ends *)
(* the shell.  For p = 0 the call reaches only the shell's own group,      *)
(* where SIGCONT does nothing.                                             *)
(***************************************************************************)
NoGroup(p) == p # 0 /\ proc[p] \in {"none", "forked", "reaped"}

Exit(code) ==
  /\ status' = code
  /\ UNCHANGED <<table, main, pending, handlers, children>>

(***************************************************************************)
(* The default actions.  Before execvp the shell's own handlers catch the  *)
(* signal in the child and find no job to send it to: it is lost.  A       *)
(* SIGINT stays pending at a stopped process until it is continued.        *)
(* Every change of state sends SIGCHLD to the shell.                       *)
(***************************************************************************)
Becomes(p, phase) ==
  /\ proc' = [proc EXCEPT ![p] = phase]
  /\ pending' = pending \union {"CHLD"}

Interrupt(p) ==
  \/ /\ proc[p] = "running"
     /\ Becomes(p, "killed")
     /\ UNCHANGED intr
  \/ /\ proc[p] \in {"stopped", "told"}
     /\ intr' = intr \union {p}
     /\ UNCHANGED <<proc, pending>>
  \/ /\ proc[p] \in {"ownpg"} \union Zombie
     /\ UNCHANGED <<children, pending>>

Suspend(p) ==
  \/ /\ proc[p] = "running"
     /\ Becomes(p, "stopped")
     /\ UNCHANGED intr
  \/ /\ proc[p] # "running"
     /\ UNCHANGED <<children, pending>>

Continue(p) ==
  \/ /\ p # 0 /\ proc[p] \in {"stopped", "told"}
     /\ Becomes(p, IF p \in intr THEN "killed" ELSE "running")
     /\ intr' = intr \ {p}
  \/ /\ p # 0 => proc[p] \notin {"stopped", "told"}
     /\ UNCHANGED <<children, pending>>

-----------------------------------------------------------------------------
(***************************************************************************)
(* The main loop: eval, builtin_cmd, do_bgfg, addjob and waitfg.           *)
(***************************************************************************)
At(label) == status = "running" /\ stack = <<>> /\ pc = label

Goto(label) == pc' = label

(* End of file exits, and so does do_bgfg when its argument is ''. *)
ReadEof == At("read") /\ Exit("exit0")

Quit ==
  /\ At("read")
  /\ ~jobsInBackgroundOrStopped(jobs)
  /\ Exit("exit0")

(***************************************************************************)
(* Block SIGTSTP and fork.  The children are numbered in order.            *)
(***************************************************************************)
Fork(bg) ==
  /\ At("read")
  /\ \E p \in Pids :
       /\ proc[p] = "none"
       /\ \A q \in Pids : q < p => proc[q] # "none"
       /\ proc' = [proc EXCEPT ![p] = "forked"]
       /\ cmd' = [pid |-> p, bg |-> bg, slot |-> NULL, jid |-> 0]
  /\ masked' = TRUE
  /\ Goto("add_pid")
  /\ UNCHANGED <<table, pending, handlers, intr, status>>

ForkFails == At("read") /\ Exit("exit1")

(* Mutant: the search for a free slot does not stop at the first one. *)
AddPidEverywhere ==
  /\ At("add_pid")
  /\ FreeSlot(jobs) # NULL
  /\ jobs' = [i \in Slots |-> IF jobs[i].pid = 0 THEN [jobs[i] EXCEPT !.pid = cmd.pid]
                              ELSE jobs[i]]
  /\ cmd' = [cmd EXCEPT !.slot = FreeSlot(jobs)]
  /\ Goto("add_state")
  /\ UNCHANGED <<nextjid, masked, pending, handlers, children, status>>

(***************************************************************************)
(* addjob writes the fields of the first free slot one after the other.    *)
(* nextjid is an ordinary int: the compiled code loads it once, stores the *)
(* job ID and stores the new value, wrapped.                               *)
(***************************************************************************)
AddPid ==
  /\ At("add_pid")
  /\ FreeSlot(jobs) # NULL
  /\ jobs' = [jobs EXCEPT ![FreeSlot(jobs)].pid = cmd.pid]
  /\ cmd' = [cmd EXCEPT !.slot = FreeSlot(jobs)]
  /\ Goto("add_state")
  /\ UNCHANGED <<nextjid, masked, pending, handlers, children, status>>

AddFails == At("add_pid") /\ FreeSlot(jobs) = NULL /\ Exit("exit1")

AddState ==
  /\ At("add_state")
  /\ jobs' = [jobs EXCEPT ![cmd.slot].state = IF cmd.bg THEN BG ELSE FG]
  /\ Goto("add_load")
  /\ UNCHANGED <<nextjid, cmd, masked, pending, handlers, children, status>>

AddLoad ==
  /\ At("add_load")
  /\ cmd' = [cmd EXCEPT !.jid = nextjid]
  /\ Goto("add_jid")
  /\ UNCHANGED <<table, masked, pending, handlers, children, status>>

AddJid ==
  /\ At("add_jid")
  /\ jobs' = [jobs EXCEPT ![cmd.slot].jid = cmd.jid]
  /\ Goto("add_next")
  /\ UNCHANGED <<nextjid, cmd, masked, pending, handlers, children, status>>

AddNext ==
  /\ At("add_next")
  /\ nextjid' = NextJid(cmd.jid)
  /\ Goto("unblock")
  /\ UNCHANGED <<jobs, cmd, masked, pending, handlers, children, status>>

(* Mutant: eval does not wait for a foreground job. *)
UnblockOnly ==
  /\ At("unblock")
  /\ masked' = FALSE
  /\ Goto("read")
  /\ UNCHANGED <<table, cmd, pending, handlers, children, status>>

Unblock ==
  /\ At("unblock")
  /\ masked' = FALSE
  /\ Goto(IF cmd.bg THEN "read" ELSE "waitfg")
  /\ UNCHANGED <<table, cmd, pending, handlers, children, status>>

(***************************************************************************)
(* fg and bg find a slot by the PID or the job ID in their argument.  An   *)
(* argument that names no job changes nothing.  For the argument % alone   *)
(* the code uses an uninitialised job ID: any slot the second disjunct     *)
(* allows.                                                                 *)
(***************************************************************************)
Named(i) ==
  \/ jobs[i].pid # 0 /\ getjobpid(jobs, jobs[i].pid) = i
  \/ jobs[i].jid # 0 /\ getjobjid(jobs, jobs[i].jid) = i

BgFg(bg, i) ==
  /\ At("read")
  /\ Named(i)
  /\ cmd' = [pid |-> 0, bg |-> bg, slot |-> i, jid |-> 0]
  /\ Goto("kill_arg")
  /\ UNCHANGED <<table, masked, pending, handlers, children, status>>

KillArg ==
  /\ At("kill_arg")
  /\ cmd' = [cmd EXCEPT !.pid = jobs[cmd.slot].pid]
  /\ Goto("kill")
  /\ UNCHANGED <<table, masked, pending, handlers, children, status>>

Kill ==
  /\ At("kill")
  /\ ~NoGroup(cmd.pid)
  /\ Continue(cmd.pid)
  /\ Goto("set_state")
  /\ UNCHANGED <<table, cmd, masked, handlers, status>>

KillFails == At("kill") /\ NoGroup(cmd.pid) /\ Exit("exit1")

(* Mutant: bg continues the job and leaves its state alone. *)
SetStateOfFg ==
  /\ At("set_state")
  /\ jobs' = IF cmd.bg THEN jobs ELSE [jobs EXCEPT ![cmd.slot].state = FG]
  /\ Goto(IF cmd.bg THEN "read" ELSE "wait_arg")
  /\ UNCHANGED <<nextjid, cmd, masked, pending, handlers, children, status>>

SetState ==
  /\ At("set_state")
  /\ jobs' = [jobs EXCEPT ![cmd.slot].state = IF cmd.bg THEN BG ELSE FG]
  /\ Goto(IF cmd.bg THEN "read" ELSE "wait_arg")
  /\ UNCHANGED <<nextjid, cmd, masked, pending, handlers, children, status>>

WaitArg ==
  /\ At("wait_arg")
  /\ cmd' = [cmd EXCEPT !.pid = jobs[cmd.slot].pid]
  /\ Goto("waitfg")
  /\ UNCHANGED <<table, masked, pending, handlers, children, status>>

(***************************************************************************)
(* waitfg keeps the slot it found, and sleeps while that slot still is the *)
(* foreground job pid.                                                     *)
(***************************************************************************)
Foreground == jobs[cmd.slot].state = FG /\ jobs[cmd.slot].pid = cmd.pid

WaitfgFind ==
  /\ At("waitfg")
  /\ LET i == getjobpid(jobs, cmd.pid)
     IN  /\ cmd' = [cmd EXCEPT !.slot = IF i = NULL THEN cmd.slot ELSE i]
         /\ Goto(IF i = NULL THEN "read" ELSE "waiting")
  /\ UNCHANGED <<table, masked, pending, handlers, children, status>>

WaitfgSleep == At("waiting") /\ Foreground /\ UNCHANGED vars

WaitfgReturn ==
  /\ At("waiting")
  /\ ~Foreground
  /\ Goto("read")
  /\ UNCHANGED <<table, cmd, masked, pending, handlers, children, status>>

-----------------------------------------------------------------------------
(***************************************************************************)
(* The handlers.  The kernel delivers a pending signal that is not blocked *)
(* and whose handler is not running: sa_mask is empty.  Pending signals of *)
(* one kind are one.                                                       *)
(***************************************************************************)
Delivered(sig) ==
  /\ status = "running"
  /\ sig \in pending
  /\ \A k \in 1 .. Len(stack) : stack[k] # sig
  /\ pending' = pending \ {sig}

Running(sig) == status = "running" /\ stack # <<>> /\ Head(stack) = sig

SigchldEnter ==
  /\ Delivered("CHLD")
  /\ stack' = <<"CHLD">> \o stack
  /\ chld' = Wait
  /\ UNCHANGED <<table, main, target, children, status>>

(***************************************************************************)
(* waitpid(-1, WNOHANG|WUNTRACED) reports any child that is a zombie or    *)
(* has stopped since the last report, and the handler's loop ends when     *)
(* there is none.                                                          *)
(***************************************************************************)
Waitpid(p) ==
  /\ Running("CHLD")
  /\ chld.pc = "wait"
  /\ proc[p] \in {"stopped"} \union Zombie
  /\ chld' = [pc |-> "update", pid |-> p, stopped |-> proc[p] = "stopped"]
  /\ proc' = [proc EXCEPT ![p] = IF @ = "stopped" THEN "told" ELSE "reaped"]
  /\ UNCHANGED <<table, main, pending, stack, target, intr, status>>

SigchldReturn ==
  /\ stack' = Tail(stack)
  /\ chld' = Idle
  /\ UNCHANGED <<table, main, pending, target, children, status>>

WaitpidNone ==
  /\ Running("CHLD")
  /\ chld.pc = "wait"
  /\ \A p \in Pids : proc[p] \notin {"stopped"} \union Zombie
  /\ SigchldReturn

(* Mutant: a stopped child is deleted like one that is gone. *)
ChildStoppedDeleted ==
  /\ Running("CHLD")
  /\ chld.pc = "update" /\ chld.stopped
  /\ getjobpid(jobs, chld.pid) # NULL
  /\ jobs' = Deleted(jobs, chld.pid)
  /\ nextjid' = JidAfterDelete(jobs, chld.pid, nextjid)
  /\ chld' = Wait
  /\ UNCHANGED <<main, pending, stack, target, children, status>>

ChildStopped ==
  /\ Running("CHLD")
  /\ chld.pc = "update" /\ chld.stopped
  /\ getjobpid(jobs, chld.pid) # NULL
  /\ jobs' = [jobs EXCEPT ![getjobpid(jobs, chld.pid)].state = ST]
  /\ chld' = Wait
  /\ UNCHANGED <<nextjid, main, pending, stack, target, children, status>>

(* A stopped child that is not listed ends the handler, not the round. *)
ChildUnknown ==
  /\ Running("CHLD")
  /\ chld.pc = "update" /\ chld.stopped
  /\ getjobpid(jobs, chld.pid) = NULL
  /\ SigchldReturn

(* Mutants: one child for each SIGCHLD, if where the code has while; and a *)
(* handler without deletejob.                                              *)
ChildGoneOnce ==
  /\ Running("CHLD")
  /\ chld.pc = "update" /\ ~chld.stopped
  /\ jobs' = Deleted(jobs, chld.pid)
  /\ nextjid' = JidAfterDelete(jobs, chld.pid, nextjid)
  /\ stack' = Tail(stack)
  /\ chld' = Idle
  /\ UNCHANGED <<main, pending, target, children, status>>

ChildGoneKept ==
  /\ Running("CHLD")
  /\ chld.pc = "update" /\ ~chld.stopped
  /\ chld' = Wait
  /\ UNCHANGED <<table, main, pending, stack, target, children, status>>

ChildGone ==
  /\ Running("CHLD")
  /\ chld.pc = "update" /\ ~chld.stopped
  /\ jobs' = Deleted(jobs, chld.pid)
  /\ nextjid' = JidAfterDelete(jobs, chld.pid, nextjid)
  /\ chld' = Wait
  /\ UNCHANGED <<main, pending, stack, target, children, status>>

(***************************************************************************)
(* sigint_handler and sigtstp_handler read fgpid as they are entered;      *)
(* without a foreground job they print a message and return.               *)
(***************************************************************************)
Blocked(sig) == sig = "TSTP" /\ masked

KeyEnter(sig) ==
  /\ ~Blocked(sig)
  /\ Delivered(sig)
  /\ stack' = IF fgpid(jobs) = 0 THEN stack ELSE <<sig>> \o stack
  /\ target' = [target EXCEPT ![sig] = fgpid(jobs)]
  /\ UNCHANGED <<table, main, chld, children, status>>

KeyForward(sig) ==
  /\ Running(sig)
  /\ ~NoGroup(target[sig])
  /\ IF sig = "INT" THEN Interrupt(target[sig]) ELSE Suspend(target[sig])
  /\ stack' = Tail(stack)
  /\ target' = [target EXCEPT ![sig] = 0]
  /\ UNCHANGED <<table, main, chld, status>>

KeyFails(sig) ==
  /\ Running(sig)
  /\ NoGroup(target[sig])
  /\ Exit("exit1")

SigquitHandler ==
  /\ status = "running"
  /\ "QUIT" \in pending
  /\ Exit("exit1")

-----------------------------------------------------------------------------
(***************************************************************************)
(* The children, in eval after fork and then in the program they run.      *)
(***************************************************************************)
Setpgrp(p) ==
  /\ status = "running"
  /\ proc[p] = "forked"
  /\ proc' = [proc EXCEPT ![p] = "ownpg"]
  /\ UNCHANGED <<table, main, pending, handlers, intr, status>>

Exec(p) ==
  /\ status = "running"
  /\ proc[p] = "ownpg"
  /\ proc' = [proc EXCEPT ![p] = "running"]
  /\ UNCHANGED <<table, main, pending, handlers, intr, status>>

ExecFails(p) ==
  /\ status = "running"
  /\ proc[p] = "ownpg"
  /\ Becomes(p, "exited")
  /\ UNCHANGED <<table, main, handlers, intr, status>>

(* The test programs end (myspin), kill themselves (myint) or stop (mystop). *)
Outcome == [exit |-> "exited", int |-> "killed", stop |-> "stopped"]

ProgramStep(p) ==
  /\ status = "running"
  /\ proc[p] = "running"
  /\ \E what \in Programs : Becomes(p, Outcome[what])
  /\ UNCHANGED <<table, main, handlers, intr, status>>

(* sdriver.pl, or a user at the keyboard, sends a signal to the shell. *)
Press(sig) ==
  /\ status = "running"
  /\ pending' = pending \union {sig}
  /\ UNCHANGED <<table, main, handlers, children, status>>

Exited == status # "running" /\ UNCHANGED vars

-----------------------------------------------------------------------------
MainStep ==
  \/ AddPid \/ AddFails \/ AddState \/ AddLoad \/ AddJid \/ AddNext \/ Unblock
  \/ KillArg \/ Kill \/ KillFails \/ SetState
  \/ WaitArg \/ WaitfgFind \/ WaitfgSleep \/ WaitfgReturn

Command ==
  \/ ReadEof \/ Quit \/ ForkFails
  \/ \E bg \in BOOLEAN : Fork(bg)
  \/ \E bg \in BOOLEAN, i \in Slots : BgFg(bg, i)

SigchldStep ==
  \/ SigchldEnter \/ WaitpidNone
  \/ \E p \in Pids : Waitpid(p)
  \/ ChildStopped \/ ChildUnknown \/ ChildGone

KeyStep ==
  \/ \E sig \in {"INT", "TSTP"} :
       KeyEnter(sig) \/ KeyForward(sig) \/ KeyFails(sig)
  \/ SigquitHandler

ChildStep(p) == Setpgrp(p) \/ Exec(p) \/ ExecFails(p) \/ ProgramStep(p)

Next ==
  \/ MainStep
  \/ Command
  \/ SigchldStep
  \/ KeyStep
  \/ \E p \in Pids : ChildStep(p)
  \/ \E sig \in Keyboard : Press(sig)
  \/ Exited

Spec == Init /\ [][Next]_vars

-----------------------------------------------------------------------------
(***************************************************************************)
(* Safety.                                                                 *)
(***************************************************************************)
Adding == pc \in {"add_pid", "add_state", "add_load", "add_jid"}

(* Two slots never hold the same process: getjobpid is unambiguous and     *)
(* deletejob clears the whole job, however a handler interrupts addjob.    *)
UniquePids ==
  \A i, j \in Slots : jobs[i].pid # 0 /\ jobs[i].pid = jobs[j].pid => i = j

(* "At most 1 job can be in the FG state" (the comment at the job states), *)
(* and none while the shell reads a command: waitfg does not return early. *)
OneForeground ==
  \A i \in Slots : jobs[i].pid # 0 /\ jobs[i].state = FG =>
    /\ pc # "read"
    /\ \A j \in Slots : jobs[j].pid # 0 /\ jobs[j].state = FG => i = j

(* A child that has not been reaped is in the job list, except before      *)
(* addjob has stored its PID: jobs, fg and bg miss no process, whatever    *)
(* sigchld_handler did to the list meanwhile.                              *)
NoLostChild ==
  \A p \in Pids : proc[p] \notin {"none", "reaped"} =>
    p \in Listed(jobs) \/ (pc = "add_pid" /\ cmd.pid = p)

(* A job shown as stopped is stopped, except between do_bgfg's SIGCONT and *)
(* its write of job->state.                                                *)
StoppedJobsAreStopped ==
  \A i \in Slots : jobs[i].pid # 0 /\ jobs[i].state = ST =>
    \/ proc[jobs[i].pid] \in {"stopped", "told"}
    \/ pc = "set_state" /\ cmd.slot = i

(* Outside addjob a listed job has a job ID and a state: listjobs cannot   *)
(* reach its "Internal error" case.                                        *)
ListedJobsAreComplete ==
  ~Adding => \A i \in Slots :
    jobs[i].pid # 0 => jobs[i].state # UNDEF /\ jobs[i].jid # 0

(* "These signal handlers [...] just forward the signal to the current     *)
(* foreground job": ctrl-c and ctrl-z reach only the job that eval is      *)
(* starting or waiting for, and never a job in the background, save in one *)
(* place.  addjob and the fg command write a state without looking at the  *)
(* slot again, so that a job reaped just before leaves an empty slot with  *)
(* the state FG.  The next addjob stores its PID there before its state,   *)
(* and in between fgpid takes even a job started with & for the foreground *)
(* job.                                                                    *)
KeysSpareBackground ==
  \A sig \in {"INT", "TSTP"} : target[sig] # 0 =>
    /\ target[sig] = cmd.pid /\ pc # "read"
    /\ cmd.bg => pc = "add_state"

(* A job leaves the list only after its process was reaped.                *)
RemovedOnlyIfReaped ==
  [][\A p \in Listed(jobs) \ Listed(jobs') : proc[p] = "reaped"]_vars

(* "The handler reaps all available zombie children": a zombie always has  *)
(* a SIGCHLD pending or a handler at work.  This fails once children can   *)
(* stop: ChildUnknown leaves the loop with zombies unreaped.               *)
ZombiesAreNoticed ==
  \A p \in Pids : proc[p] \in Zombie =>
    "CHLD" \in pending \/ chld.pc # "idle"

-----------------------------------------------------------------------------
(***************************************************************************)
(* What comments of tsh.c promise and the code does not do.                *)
(***************************************************************************)
(* eval blocks SIGCHLD so that a child is listed before it can be reaped:  *)
(* no job is left in the list for a process that is gone, which waitfg     *)
(* would wait for ever and kill would fail on.                             *)
NoGhostJob ==
  \A i \in Slots : jobs[i].pid # 0 =>
    \/ proc[jobs[i].pid] # "reaped"
    \/ chld.pc = "update" /\ chld.pid = jobs[i].pid

(* sigint_handler and sigtstp_handler "just forward the signal": no ctrl-c *)
(* or ctrl-z ends the shell itself.                                        *)
KeysNeverEndShell ==
  [][stack # <<>> /\ Head(stack) \in {"INT", "TSTP"} => status' = status]_vars

-----------------------------------------------------------------------------
(***************************************************************************)
(* Liveness.  The shell and the kernel make progress; a child runs as far  *)
(* as its program, which may run for ever; the user need not type.         *)
(***************************************************************************)
Fairness ==
  /\ WF_vars(MainStep)
  /\ WF_vars(SigchldStep)
  /\ \A p \in Pids : WF_vars(Setpgrp(p) \/ Exec(p) \/ ExecFails(p))

FairSpec == Spec /\ Fairness

Live == status = "running"

(* Every zombie is reaped, and one SIGCHLD that stands for several         *)
(* children is enough.                                                     *)
ZombiesAreReaped ==
  \A p \in Pids : proc[p] \in Zombie /\ Live ~> proc[p] = "reaped" \/ ~Live

(* When the foreground job is over the shell returns to its prompt.        *)
ForegroundReturns ==
  \A p \in Pids :
    pc = "waiting" /\ cmd.pid = p /\ proc[p] \in Zombie /\ Live
      ~> pc = "read" \/ ~Live

=============================================================================
