---------------------------- MODULE ShellProofs ----------------------------
(***************************************************************************)
(* The safety of the shell for any number of job slots, any processes, any *)
(* keyboard and any programs, however its handlers interrupt main and each *)
(* other.                                                                  *)
(*                                                                         *)
(* The properties of Shell are not inductive one by one.  The invariant    *)
(* Inv adds what main knows at each point about the slot and the process   *)
(* in its locals (CmdOK), what a handler in progress knows about the child *)
(* it has reaped (ChldOK), and that a handler in progress is on the stack, *)
(* so that main does not run (StackOK).                                    *)
(***************************************************************************)
EXTENDS Shell, JobListProofs, SequenceTheorems

-----------------------------------------------------------------------------
(* From the search to the end of its use, cmd.slot is the only slot that   *)
(* can hold cmd.pid, and holds nothing else.                               *)
SlotPCs == {"add_state", "add_load", "add_jid", "add_next", "unblock",
            "kill", "set_state", "wait_arg", "waiting"}

CmdOK ==
  /\ pc \notin {"read", "add_pid"} => cmd.slot \in Slots
  /\ pc = "add_pid" =>
       /\ cmd.pid \in Pids
       /\ proc[cmd.pid] # "none"
       /\ \A i \in Slots : jobs[i].pid # cmd.pid
  /\ pc \in SlotPCs => \A i \in Slots :
       jobs[i].pid # 0 => (jobs[i].pid = cmd.pid <=> i = cmd.slot)
  /\ pc \in {"add_jid", "add_next"} => cmd.jid # 0

(* A listed process was forked. *)
ListedOK == \A i \in Slots : jobs[i].pid # 0 => proc[jobs[i].pid] # "none"

On(sig) == \E k \in 1 .. Len(stack) : stack[k] = sig

StackOK ==
  /\ \A j, k \in 1 .. Len(stack) : stack[j] = stack[k] => j = k
  /\ chld.pc # "idle" => On("CHLD")
  /\ \A sig \in {"INT", "TSTP"} : target[sig] # 0 <=> On(sig)

ChldOK ==
  chld.pc = "update" =>
    /\ chld.pid \in Pids
    /\ proc[chld.pid] = IF chld.stopped THEN "told" ELSE "reaped"

(* The foreground job is the one main starts or waits for. *)
FgPCs == {"add_load", "add_jid", "add_next", "unblock", "wait_arg", "waitfg",
          "waiting"}

FgOK ==
  \A i \in Slots : jobs[i].pid # 0 /\ jobs[i].state = FG =>
    /\ jobs[i].pid = cmd.pid
    /\ pc = "add_state" \/ (pc \in FgPCs /\ ~cmd.bg)

(* How far addjob has come with the fields of its slot. *)
FieldsOK ==
  \A i \in Slots :
    /\ jobs[i].pid = 0 => jobs[i].state # ST
    /\ jobs[i].pid # 0 /\ jobs[i].state = UNDEF =>
         pc = "add_state" /\ cmd.slot = i
    /\ jobs[i].pid # 0 /\ jobs[i].jid = 0 =>
         pc \in {"add_state", "add_load", "add_jid"} /\ cmd.slot = i

Inv ==
  /\ TypeOK /\ CmdOK /\ ListedOK /\ StackOK /\ ChldOK /\ FgOK /\ FieldsOK
  /\ UniquePids /\ NoLostChild /\ StoppedJobsAreStopped /\ KeysSpareBackground

-----------------------------------------------------------------------------
(* Facts about the stack of handlers. *)
LEMMA PushStack ==
  ASSUME NEW S, NEW s \in Seq(S), NEW x \in S
  PROVE  /\ <<x>> \o s \in Seq(S)
         /\ <<x>> \o s # <<>>
         /\ Len(<<x>> \o s) = Len(s) + 1
         /\ (<<x>> \o s)[1] = x
         /\ \A k \in 1 .. Len(s) : (<<x>> \o s)[k + 1] = s[k]
<1>1. <<x>> \in Seq(S) /\ Len(<<x>>) = 1 /\ <<x>>[1] = x
  OBVIOUS
<1>2. Len(s) \in Nat
  OBVIOUS
<1> DEFINE t == <<x>> \o s
<1>3. /\ t \in Seq(S)
      /\ Len(t) = Len(<<x>>) + Len(s)
      /\ \A i \in 1 .. Len(<<x>>) + Len(s) :
           t[i] = IF i <= Len(<<x>>) THEN <<x>>[i] ELSE s[i - Len(<<x>>)]
  BY <1>1, ConcatProperties, Zenon
<1> HIDE DEF t
<1>4. Len(t) = Len(s) + 1
  BY <1>1, <1>2, <1>3
<1>5. t[1] = x
  BY <1>1, <1>2, <1>3
<1>6. \A k \in 1 .. Len(s) : t[k + 1] = s[k]
  BY <1>1, <1>2, <1>3
<1>7. t # <<>>
  BY <1>2, <1>4
<1> QED BY <1>3, <1>4, <1>5, <1>6, <1>7 DEF t

LEMMA PopStack ==
  ASSUME NEW S, NEW s \in Seq(S), s # <<>>
  PROVE  /\ Tail(s) \in Seq(S)
         /\ \A k \in 1 .. Len(s) : s[k] = Head(s) \/
              (k - 1 \in 1 .. Len(Tail(s)) /\ Tail(s)[k - 1] = s[k])
<1>1. /\ Tail(s) \in Seq(S)
      /\ Len(Tail(s)) = Len(s) - 1
      /\ \A i \in 1 .. Len(Tail(s)) : Tail(s)[i] = s[i + 1]
  BY HeadTailProperties
<1>2. Len(s) \in Nat /\ Head(s) = s[1]
  OBVIOUS
<1>3. ASSUME NEW k \in 1 .. Len(s)
      PROVE  s[k] = Head(s) \/
               (k - 1 \in 1 .. Len(Tail(s)) /\ Tail(s)[k - 1] = s[k])
  BY <1>1, <1>2
<1> QED BY <1>1, <1>3

-----------------------------------------------------------------------------
(***************************************************************************)
(* Which steps change which part of the state.                             *)
(***************************************************************************)
TableStep ==
  \/ AddPid \/ AddState \/ AddJid \/ AddNext \/ SetState
  \/ ChildStopped \/ ChildGone

LocalsStep ==
  \/ AddPid \/ AddState \/ AddLoad \/ AddJid \/ AddNext \/ Unblock
  \/ KillArg \/ Kill \/ SetState \/ WaitArg \/ WaitfgFind \/ WaitfgReturn
  \/ \E bg \in BOOLEAN : Fork(bg)
  \/ \E bg \in BOOLEAN, i \in Slots : BgFg(bg, i)

HandlerStep ==
  \/ SigchldStep
  \/ \E sig \in {"INT", "TSTP"} : KeyEnter(sig) \/ KeyForward(sig)

ProcessStep ==
  \/ Kill
  \/ \E bg \in BOOLEAN : Fork(bg)
  \/ \E p \in Pids : Waitpid(p)
  \/ \E sig \in {"INT", "TSTP"} : KeyForward(sig)
  \/ \E p \in Pids : ChildStep(p)

LEMMA Frames ==
  ASSUME [Next]_vars
  PROVE  /\ UNCHANGED table \/ TableStep
         /\ UNCHANGED main \/ LocalsStep
         /\ UNCHANGED handlers \/ HandlerStep
         /\ UNCHANGED children \/ ProcessStep
<1>1. CASE UNCHANGED vars \/ Exited
  BY <1>1 DEF vars, Exited
<1>2. CASE MainStep
  <2>1. UNCHANGED handlers
    BY <1>2 DEF MainStep, AddPid, AddFails, AddState, AddLoad, AddJid,
         AddNext, Unblock, KillArg, Kill, KillFails, SetState, WaitArg,
         WaitfgFind, WaitfgSleep, WaitfgReturn, Exit, vars
  <2>2. UNCHANGED children \/ Kill
    BY <1>2 DEF MainStep, AddPid, AddFails, AddState, AddLoad, AddJid,
         AddNext, Unblock, KillArg, KillFails, SetState, WaitArg, WaitfgFind,
         WaitfgSleep, WaitfgReturn, Exit, vars
  <2>3. UNCHANGED table \/ TableStep
    BY <1>2 DEF MainStep, TableStep, AddFails, AddLoad, Unblock, KillArg, Kill,
         KillFails, WaitArg, WaitfgFind, WaitfgSleep, WaitfgReturn, Exit, vars
  <2>4. UNCHANGED main \/ LocalsStep
    BY <1>2 DEF MainStep, LocalsStep, AddFails, KillFails, WaitfgSleep, Exit,
         vars
  <2> QED BY <2>1, <2>2, <2>3, <2>4 DEF ProcessStep
<1>3. CASE Command
  BY <1>3 DEF Command, ReadEof, Quit, ForkFails, Fork, BgFg, Exit, LocalsStep,
              ProcessStep
<1>4. CASE SigchldStep
  BY <1>4 DEF SigchldStep, HandlerStep, TableStep, ProcessStep, SigchldEnter,
       WaitpidNone, Waitpid, ChildStopped, ChildUnknown, ChildGone,
       SigchldReturn
<1>5. CASE KeyStep
  BY <1>5 DEF KeyStep, HandlerStep, ProcessStep, KeyEnter, KeyForward, KeyFails,
       SigquitHandler, Exit
<1>6. CASE \E p \in Pids : ChildStep(p)
  BY <1>6 DEF ChildStep, ProcessStep, Setpgrp, Exec, ExecFails, ProgramStep
<1>7. CASE \E sig \in Keyboard : Press(sig)
  BY <1>7 DEF Press
<1> QED BY <1>1, <1>2, <1>3, <1>4, <1>5, <1>6, <1>7 DEF Next

(* What a step can do to a process: it never becomes unborn, a reaped one  *)
(* stays reaped, and only main's SIGCONT moves a stopped one.              *)
LEMMA ProcStep ==
  ASSUME TypeOK, [Next]_vars, NEW p \in Pids
  PROVE  /\ proc[p] # "none" => proc'[p] # "none"
         /\ proc[p] = "reaped" => proc'[p] = "reaped"
         /\ proc[p] = "told" => proc'[p] = "told" \/ (Kill /\ p = cmd.pid)
         /\ proc[p] = "stopped" =>
              proc'[p] \in {"stopped", "told"} \/ (Kill /\ p = cmd.pid)
         /\ proc[p] = "none" /\ proc'[p] # "none" =>
              pc' = "add_pid" /\ cmd'.pid = p
<1>0. proc \in [Pids -> Phases]
  BY DEF TypeOK
<1>1. CASE proc' = proc
  BY <1>1
<1>2. CASE \E bg \in BOOLEAN : Fork(bg)
  <2>1. PICK bg \in BOOLEAN : Fork(bg)
    BY <1>2
  <2>2. PICK q \in Pids : /\ proc[q] = "none"
                          /\ proc' = [proc EXCEPT ![q] = "forked"]
                          /\ cmd' = [pid |-> q, bg |-> bg, slot |-> NULL, jid |-> 0]
    BY <2>1 DEF Fork
  <2>3. pc' = "add_pid" /\ cmd'.pid = q
    BY <2>1, <2>2 DEF Fork, Goto
  <2> QED BY <1>0, <2>2, <2>3
<1>3. CASE Kill
  <2>1. \/ proc' = proc
        \/ \E phase : proc[cmd.pid] \in {"stopped", "told"} /\ cmd.pid # 0
             /\ phase \in {"killed", "running"}
             /\ proc' = [proc EXCEPT ![cmd.pid] = phase]
    BY <1>3, Zenon DEF Kill, Continue, Becomes, children
  <2>2. cmd.pid \in Pids0
    BY DEF TypeOK, Cmd
  <2> QED BY <1>0, <1>3, <2>1, <2>2
<1>4. CASE \E q \in Pids : Waitpid(q)
  BY <1>0, <1>4 DEF Waitpid, Zombie
<1>5. CASE \E sig \in {"INT", "TSTP"} : KeyForward(sig)
  BY <1>0, <1>5 DEF KeyForward, Interrupt, Suspend, Becomes, children
<1>6. CASE \E q \in Pids : ChildStep(q)
  <2>1. PICK q \in Pids : ChildStep(q)
    BY <1>6
  <2>2. CASE Setpgrp(q) \/ Exec(q) \/ ExecFails(q)
    BY <1>0, <2>2 DEF Setpgrp, Exec, ExecFails, Becomes
  <2>3. CASE ProgramStep(q)
    <3>1. PICK what \in Programs :
            proc' = [proc EXCEPT ![q] = Outcome[what]]
      BY <2>3 DEF ProgramStep, Becomes
    <3>2. Outcome[what] \in {"exited", "killed", "stopped"}
      BY ProgramsAssumption DEF Outcome
    <3> QED BY <1>0, <2>3, <3>1, <3>2 DEF ProgramStep
  <2> QED BY <2>1, <2>2, <2>3 DEF ChildStep
<1>7. proc' = proc \/ ProcessStep
  BY Frames DEF children
<1> QED BY <1>1, <1>2, <1>3, <1>4, <1>5, <1>6, <1>7 DEF ProcessStep

-----------------------------------------------------------------------------
(* Processes are natural numbers. *)
LEMMA PidsAreNat == Pids0 \subseteq Nat
BY PidsAssumption DEF Pids0

LEMMA ZeroIsNoPid == 0 \in Pids0 /\ 0 \notin Pids /\ Pids \subseteq Pids0
BY PidsAssumption DEF Pids0

LEMMA FramesOfSigchld == Wait \in Chld /\ Idle \in Chld
BY ZeroIsNoPid DEF Wait, Idle, Chld

LEMMA InitInv == Init => Inv
<1> SUFFICES ASSUME Init PROVE Inv
  OBVIOUS
<1>1. \A i \in Slots : jobs[i] = clearjob
  BY DEF Init, initjobs
<1>2. clearjob \in Job /\ clearjob.pid = 0 /\ clearjob.state # ST
  BY DEF clearjob, Job, States, UNDEF, ST
<1>3. TypeOK
  <2>1. jobs \in [Slots -> Job] /\ \A i \in Slots : jobs[i].pid \in Pids0
    BY <1>1, <1>2, ZeroIsNoPid DEF Init, initjobs
  <2>2. cmd \in Cmd /\ pc \in PCs
    BY ZeroIsNoPid DEF Init, Cmd, PCs
  <2>3. stack \in Seq({"CHLD", "INT", "TSTP"}) /\ chld \in Chld
    BY FramesOfSigchld DEF Init
  <2>4. target \in [{"INT", "TSTP"} -> Pids0] /\ proc \in [Pids -> Phases]
    BY ZeroIsNoPid DEF Init, Phases
  <2>5. /\ nextjid \in Nat \ {0} /\ pending \subseteq Signals
        /\ intr \subseteq Pids /\ status \in {"running", "exit0", "exit1"}
    BY SMT DEF Init
  <2>6. masked \in BOOLEAN
    BY Zenon DEF Init
  <2> QED BY <2>1, <2>2, <2>3, <2>4, <2>5, <2>6 DEF TypeOK
<1>4. CmdOK /\ ListedOK /\ FgOK /\ FieldsOK
  BY <1>1, <1>2 DEF Init, CmdOK, ListedOK, FgOK, FieldsOK, SlotPCs
<1>5. StackOK /\ ChldOK
  <2>1. stack = <<>> /\ chld.pc = "idle"
    BY DEF Init, Idle
  <2>2. \A sig \in {"INT", "TSTP"} : target[sig] = 0
    BY DEF Init
  <2>3. 1 .. Len(stack) = {}
    BY <2>1
  <2> QED BY <2>1, <2>2, <2>3 DEF StackOK, On, ChldOK
<1>6. UniquePids /\ NoLostChild /\ StoppedJobsAreStopped /\ KeysSpareBackground
  BY <1>1, <1>2 DEF Init, UniquePids, NoLostChild, StoppedJobsAreStopped,
                    KeysSpareBackground
<1> QED BY <1>3, <1>4, <1>5, <1>6 DEF Inv

(* The innermost handler is on the stack. *)
LEMMA TopIsOn ==
  ASSUME TypeOK, NEW sig \in {"CHLD", "INT", "TSTP"}, Running(sig)
  PROVE  /\ stack # <<>>
         /\ Len(stack) >= 1 /\ stack[1] = sig /\ Head(stack) = sig
         /\ On(sig)
<1> DEFINE H == {"CHLD", "INT", "TSTP"}
<1>1. stack \in Seq(H) /\ stack # <<>> /\ Head(stack) = sig
  BY DEF TypeOK, Running
<1>2. Len(stack) \in Nat /\ Len(stack) >= 1 /\ Head(stack) = stack[1]
  BY <1>1, EmptySeq, LenProperties
<1>3. 1 \in 1 .. Len(stack)
  BY <1>2
<1> QED BY <1>1, <1>2, <1>3 DEF On

LEMMA TypeStep ==
  ASSUME TypeOK, CmdOK, StackOK, ChldOK, [Next]_vars
  PROVE  TypeOK'
<1> DEFINE MainType == pc \in PCs /\ cmd \in Cmd /\ masked \in BOOLEAN
           TableType == /\ jobs \in [Slots -> Job]
                        /\ \A i \in Slots : jobs[i].pid \in Pids0
                        /\ nextjid \in Nat \ {0}
           HandlerType == /\ stack \in Seq({"CHLD", "INT", "TSTP"})
                          /\ chld \in Chld
                          /\ target \in [{"INT", "TSTP"} -> Pids0]
           ProcType == proc \in [Pids -> Phases] /\ intr \subseteq Pids
           RestType == /\ pending \subseteq Signals
                       /\ status \in {"running", "exit0", "exit1"}
<1>0. MainType /\ TableType /\ HandlerType /\ ProcType /\ RestType
  BY DEF TypeOK
<1>1. cmd.pid \in Pids0 /\ cmd.slot \in Slots \union {NULL} /\ cmd.jid \in Nat
  BY DEF TypeOK, Cmd
<1>2. TableType'
  <2>1. CASE UNCHANGED <<jobs, nextjid>>
    BY <1>0, <2>1
  <2>2. CASE AddPid
    <3>1. FreeSlot(jobs) \in Slots
      BY <1>0, <2>2, FreeSlotIsFree DEF AddPid
    <3>2. cmd.pid \in Nat
      BY <1>1, PidsAreNat
    <3> QED BY <1>0, <1>1, <2>2, <3>1, <3>2 DEF AddPid, Job
  <2>3. CASE AddState
    BY <1>0, <2>3 DEF AddState, Job, States, FG, BG
  <2>4. CASE AddJid
    BY <1>0, <1>1, <2>4 DEF AddJid, Job
  <2>5. CASE AddNext
    BY <1>0, <1>1, <2>5, NextJidType DEF AddNext
  <2>6. CASE SetState
    BY <1>0, <2>6 DEF SetState, Job, States, FG, BG
  <2>7. CASE ChildStopped
    <3> DEFINE k == getjobpid(jobs, chld.pid)
    <3>1. jobs' = [jobs EXCEPT ![k].state = ST] /\ nextjid' = nextjid
      BY <2>7 DEF ChildStopped
    <3> HIDE DEF k
    <3> QED BY <1>0, <3>1 DEF Job, States, ST
  <2>8. CASE ChildGone
    <3>1. chld.pid \in Nat
      BY PidsAreNat DEF TypeOK, Chld
    <3>2. clearjob.pid = 0
      BY DEF clearjob
    <3>3. jobs' = Deleted(jobs, chld.pid)
          /\ nextjid' = JidAfterDelete(jobs, chld.pid, nextjid)
      BY <2>8 DEF ChildGone
    <3>4. /\ Deleted(jobs, chld.pid) \in [Slots -> Job]
          /\ JidAfterDelete(jobs, chld.pid, nextjid) \in Nat \ {0}
          /\ \A i \in Slots : Deleted(jobs, chld.pid)[i] = jobs[i] \/
                              Deleted(jobs, chld.pid)[i] = clearjob
      BY <1>0, <3>1, DeletedType
    <3> QED BY <1>0, <3>2, <3>3, <3>4 DEF Pids0
  <2>9. UNCHANGED <<jobs, nextjid>> \/ TableStep
    BY Frames DEF table
  <2> QED BY <2>1, <2>2, <2>3, <2>4, <2>5, <2>6, <2>7, <2>8, <2>9 DEF TableStep
<1>3. MainType'
  <2>1. CASE UNCHANGED <<pc, cmd, masked>>
    BY <1>0, <2>1
  <2>2. CASE AddPid \/ AddState \/ AddLoad \/ AddJid \/ AddNext
    <3>1. FreeSlot(jobs) \in Slots \union {NULL}
      <4>1. WithPid(jobs, 0) \subseteq Slots
        BY DEF WithPid
      <4> QED BY <4>1, FirstSlotFinds DEF FreeSlot
    <3> QED BY <1>0, <2>2, <3>1 DEF AddPid, AddState, AddLoad, AddJid, AddNext,
                                     Goto, PCs, Cmd
  <2>3. CASE Unblock \/ KillArg \/ Kill \/ SetState \/ WaitArg
    <3>1. (KillArg \/ WaitArg) => jobs[cmd.slot].pid \in Pids0
      BY <1>0 DEF CmdOK, KillArg, WaitArg, At
    <3> QED BY <1>0, <2>3, <3>1 DEF Unblock, KillArg, Kill, SetState, WaitArg,
                                     Goto, PCs, Cmd
  <2>4. CASE WaitfgFind \/ WaitfgReturn
    <3>1. getjobpid(jobs, cmd.pid) \in Slots \union {NULL}
      <4>1. cmd.pid \in Nat
        BY <1>1, PidsAreNat
      <4> QED BY <1>0, <4>1, GetjobpidFinds
    <3> QED BY <1>0, <2>4, <3>1 DEF WaitfgFind, WaitfgReturn, Goto, PCs, Cmd
  <2>5. CASE \E bg \in BOOLEAN : Fork(bg)
    BY <1>0, <2>5 DEF Fork, Goto, PCs, Cmd, NULL, Pids0
  <2>6. CASE \E bg \in BOOLEAN, i \in Slots : BgFg(bg, i)
    BY <1>0, <2>6 DEF BgFg, Goto, PCs, Cmd, Pids0
  <2>7. UNCHANGED <<pc, cmd, masked>> \/ LocalsStep
    BY Frames DEF main
  <2> QED BY <2>1, <2>2, <2>3, <2>4, <2>5, <2>6, <2>7 DEF LocalsStep
<1>4. HandlerType'
  <2> DEFINE H == {"CHLD", "INT", "TSTP"}
  <2>1. CASE UNCHANGED handlers
    BY <1>0, <2>1 DEF handlers
  <2>2. CASE SigchldEnter
    <3>1. <<"CHLD">> \o stack \in Seq(H)
      BY <1>0, PushStack
    <3> QED BY <1>0, <2>2, <3>1, FramesOfSigchld DEF SigchldEnter
  <2>3. CASE \E p \in Pids : Waitpid(p)
    BY <1>0, <2>3, ZeroIsNoPid DEF Waitpid, Chld
  <2>4. CASE ChildStopped \/ ChildGone
    BY <1>0, <2>4, FramesOfSigchld DEF ChildStopped, ChildGone
  <2>5. CASE WaitpidNone \/ ChildUnknown
    <3>1. stack # <<>>
      BY <2>5 DEF WaitpidNone, ChildUnknown, Running
    <3>2. Tail(stack) \in Seq(H)
      BY <1>0, <3>1, PopStack
    <3> QED BY <1>0, <2>5, <3>2, FramesOfSigchld
            DEF WaitpidNone, ChildUnknown, SigchldReturn
  <2>6. CASE \E sig \in {"INT", "TSTP"} : KeyEnter(sig)
    <3>1. PICK sig \in {"INT", "TSTP"} : KeyEnter(sig)
      BY <2>6
    <3>2. <<sig>> \o stack \in Seq(H)
      BY <1>0, PushStack
    <3>3. fgpid(jobs) \in Pids0
      BY <1>0, FgpidFinds DEF Pids0
    <3> QED BY <1>0, <3>1, <3>2, <3>3 DEF KeyEnter
  <2>7. CASE \E sig \in {"INT", "TSTP"} : KeyForward(sig)
    <3>1. PICK sig \in {"INT", "TSTP"} : KeyForward(sig)
      BY <2>7
    <3>2. Tail(stack) \in Seq(H)
      BY <1>0, <3>1, PopStack DEF KeyForward, Running
    <3> QED BY <1>0, <3>1, <3>2 DEF KeyForward, Pids0
  <2>8. UNCHANGED handlers \/ HandlerStep
    BY Frames
  <2> QED BY <2>1, <2>2, <2>3, <2>4, <2>5, <2>6, <2>7, <2>8
          DEF HandlerStep, SigchldStep
<1>5. ProcType'
  <2>1. CASE UNCHANGED children
    BY <1>0, <2>1 DEF children
  <2>2. CASE Kill
    BY <1>0, <2>2 DEF Kill, Continue, Becomes, children, Phases, Zombie
  <2>3. CASE \E bg \in BOOLEAN : Fork(bg)
    BY <1>0, <2>3 DEF Fork, Phases
  <2>4. CASE \E p \in Pids : Waitpid(p)
    BY <1>0, <2>4 DEF Waitpid, Phases
  <2>5. CASE \E sig \in {"INT", "TSTP"} : KeyForward(sig)
    <3>1. PICK sig \in {"INT", "TSTP"} : KeyForward(sig)
      BY <2>5
    <3>2. On(sig)
      BY <3>1, TopIsOn DEF KeyForward
    <3>3. target[sig] \in Pids
      BY <1>0, <3>2 DEF StackOK, Pids0
    <3> QED BY <1>0, <3>1, <3>3 DEF KeyForward, Interrupt, Suspend, Becomes,
                                     children, Phases, Zombie
  <2>6. CASE \E p \in Pids : ChildStep(p)
    BY <1>0, <2>6, ProgramsAssumption DEF ChildStep, Setpgrp, Exec, ExecFails,
       ProgramStep, Becomes, Outcome, Phases, Zombie
  <2> QED BY <2>1, <2>2, <2>3, <2>4, <2>5, <2>6, Frames DEF ProcessStep
<1>6. RestType'
  <2>1. CASE UNCHANGED vars \/ Exited
    BY <1>0, <2>1 DEF vars, Exited
  <2>2. CASE MainStep
    BY <1>0, <2>2 DEF MainStep, AddPid, AddFails, AddState, AddLoad, AddJid,
         AddNext, Unblock, KillArg, Kill, KillFails, SetState, WaitArg,
         WaitfgFind, WaitfgSleep, WaitfgReturn, Exit, Continue, Becomes,
         Signals, vars
  <2>3. CASE Command
    BY <1>0, <2>3 DEF Command, ReadEof, Quit, ForkFails, Fork, BgFg, Exit
  <2>4. CASE SigchldStep
    BY <1>0, <2>4 DEF SigchldStep, SigchldEnter, Delivered, WaitpidNone,
       Waitpid, ChildStopped, ChildUnknown, ChildGone, SigchldReturn
  <2>5. CASE KeyStep
    BY <1>0, <2>5 DEF KeyStep, KeyEnter, Delivered, KeyForward, Interrupt,
       Suspend, Becomes, KeyFails, SigquitHandler, Exit, Signals
  <2>6. CASE \E p \in Pids : ChildStep(p)
    BY <1>0, <2>6 DEF ChildStep, Setpgrp, Exec, ExecFails, ProgramStep,
       Becomes, Signals
  <2>7. CASE \E sig \in Keyboard : Press(sig)
    BY <1>0, <2>7, KeyboardAssumption DEF Press, Signals
  <2> QED BY <2>1, <2>2, <2>3, <2>4, <2>5, <2>6, <2>7 DEF Next
<1> QED BY <1>2, <1>3, <1>4, <1>5, <1>6 DEF TypeOK

-----------------------------------------------------------------------------
(* What each step that writes the job list does to it, slot by slot. *)
Writes(k, p, j, s) ==
  /\ k \in Slots
  /\ jobs'[k].pid = p /\ jobs'[k].jid = j /\ jobs'[k].state = s
  /\ \A i \in Slots : i # k => jobs'[i] = jobs[i]

CmdState == IF cmd.bg THEN BG ELSE FG

LEMMA AddPidWrites ==
  ASSUME TypeOK, AddPid
  PROVE  \E k \in Slots :
           /\ jobs[k].pid = 0
           /\ Writes(k, cmd.pid, jobs[k].jid, jobs[k].state)
           /\ cmd'.slot = k /\ cmd'.pid = cmd.pid /\ cmd'.bg = cmd.bg
<1> DEFINE k == FreeSlot(jobs)
<1>0. jobs \in [Slots -> Job] /\ cmd \in Cmd
  BY DEF TypeOK
<1>1. k \in Slots /\ jobs[k].pid = 0
  BY <1>0, FreeSlotIsFree DEF AddPid
<1>2. jobs' = [jobs EXCEPT ![k].pid = cmd.pid] /\ cmd' = [cmd EXCEPT !.slot = k]
  BY DEF AddPid
<1> HIDE DEF k
<1>3. Writes(k, cmd.pid, jobs[k].jid, jobs[k].state)
  BY <1>0, <1>1, <1>2 DEF Writes, Job
<1> QED BY <1>0, <1>1, <1>2, <1>3 DEF Cmd

LEMMA AddStateWrites ==
  ASSUME TypeOK, CmdOK, AddState
  PROVE  Writes(cmd.slot, jobs[cmd.slot].pid, jobs[cmd.slot].jid, CmdState)
<1>1. jobs \in [Slots -> Job] /\ cmd.slot \in Slots
  BY DEF TypeOK, CmdOK, AddState, At
<1> QED BY <1>1 DEF AddState, Writes, Job, CmdState

LEMMA AddJidWrites ==
  ASSUME TypeOK, CmdOK, AddJid
  PROVE  Writes(cmd.slot, jobs[cmd.slot].pid, cmd.jid, jobs[cmd.slot].state)
<1>1. jobs \in [Slots -> Job] /\ cmd.slot \in Slots
  BY DEF TypeOK, CmdOK, AddJid, At
<1> QED BY <1>1 DEF AddJid, Writes, Job

LEMMA SetStateWrites ==
  ASSUME TypeOK, CmdOK, SetState
  PROVE  Writes(cmd.slot, jobs[cmd.slot].pid, jobs[cmd.slot].jid, CmdState)
<1>1. jobs \in [Slots -> Job] /\ cmd.slot \in Slots
  BY DEF TypeOK, CmdOK, SetState, At
<1> QED BY <1>1 DEF SetState, Writes, Job, CmdState

LEMMA ChildStoppedWrites ==
  ASSUME TypeOK, ChildStopped
  PROVE  \E k \in Slots :
           /\ jobs[k].pid = chld.pid /\ chld.pid # 0
           /\ Writes(k, jobs[k].pid, jobs[k].jid, ST)
<1> DEFINE k == getjobpid(jobs, chld.pid)
<1>0. jobs \in [Slots -> Job] /\ chld.pid \in Nat
  BY PidsAreNat DEF TypeOK, Chld
<1>1. k \in Slots /\ jobs[k].pid = chld.pid /\ chld.pid # 0
  BY <1>0, GetjobpidFinds DEF ChildStopped
<1>2. jobs' = [jobs EXCEPT ![k].state = ST]
  BY DEF ChildStopped
<1> HIDE DEF k
<1>3. Writes(k, jobs[k].pid, jobs[k].jid, ST)
  BY <1>0, <1>1, <1>2 DEF Writes, Job
<1> QED BY <1>1, <1>3

LEMMA ChildGoneWrites ==
  ASSUME TypeOK, ChildGone
  PROVE  \/ UNCHANGED jobs
         \/ \E k \in Slots :
              /\ jobs[k].pid = chld.pid /\ chld.pid # 0
              /\ Writes(k, 0, 0, UNDEF)
<1> DEFINE k == getjobpid(jobs, chld.pid)
<1>0. jobs \in [Slots -> Job] /\ chld.pid \in Nat
  BY PidsAreNat DEF TypeOK, Chld
<1>1. CASE k = NULL
  BY <1>1 DEF ChildGone, Deleted
<1>2. CASE k # NULL
  <2>1. k \in Slots /\ jobs[k].pid = chld.pid /\ chld.pid # 0
    BY <1>0, <1>2, GetjobpidFinds
  <2>2. jobs' = [jobs EXCEPT ![k] = clearjob]
    BY <1>2 DEF ChildGone, Deleted
  <2> HIDE DEF k
  <2>3. Writes(k, 0, 0, UNDEF)
    BY <1>0, <2>1, <2>2 DEF Writes, clearjob
  <2> QED BY <2>1, <2>3
<1> QED BY <1>1, <1>2

-----------------------------------------------------------------------------
(* The stack holds exactly the handlers in progress. *)
NoRepeat == \A j, k \in 1 .. Len(stack) : stack[j] = stack[k] => j = k

LEMMA PushOn ==
  ASSUME TypeOK, NEW h \in {"CHLD", "INT", "TSTP"}, NoRepeat, ~On(h),
         stack' = <<h>> \o stack
  PROVE  NoRepeat' /\ \A x : On(x)' <=> (On(x) \/ x = h)
<1> DEFINE H == {"CHLD", "INT", "TSTP"}
<1>1. stack \in Seq(H) /\ Len(stack) \in Nat
  BY DEF TypeOK
<1>2. /\ Len(stack') = Len(stack) + 1
      /\ stack'[1] = h
      /\ \A k \in 1 .. Len(stack) : stack'[k + 1] = stack[k]
  BY <1>1, PushStack
<1>3. \A k \in 1 .. Len(stack') :
        k # 1 => k - 1 \in 1 .. Len(stack) /\ stack'[k] = stack[k - 1]
  BY <1>1, <1>2
<1>4. NoRepeat'
  <2> SUFFICES ASSUME NEW j \in 1 .. Len(stack'), NEW k \in 1 .. Len(stack'),
                      stack'[j] = stack'[k]
               PROVE  j = k
    BY DEF NoRepeat
  <2>1. CASE j = 1 /\ k # 1
    BY <1>2, <1>3, <2>1 DEF On
  <2>2. CASE j # 1 /\ k = 1
    BY <1>2, <1>3, <2>2 DEF On
  <2>3. CASE j # 1 /\ k # 1
    <3>1. /\ j - 1 \in 1 .. Len(stack) /\ k - 1 \in 1 .. Len(stack)
          /\ stack[j - 1] = stack[k - 1]
      BY <1>3, <2>3
    <3>2. j - 1 = k - 1
      BY <3>1 DEF NoRepeat
    <3> QED BY <1>1, <1>2, <3>2
  <2> QED BY <2>1, <2>2, <2>3
<1>5. ASSUME NEW x PROVE On(x)' <=> (On(x) \/ x = h)
  <2>1. On(x)' => On(x) \/ x = h
    BY <1>2, <1>3 DEF On
  <2>2. x = h => On(x)'
    <3>1. 1 \in 1 .. Len(stack')
      BY <1>1, <1>2
    <3> QED BY <1>2, <3>1 DEF On
  <2>3. On(x) => On(x)'
    <3>1. ASSUME NEW k \in 1 .. Len(stack), stack[k] = x
          PROVE  k + 1 \in 1 .. Len(stack') /\ stack'[k + 1] = x
      BY <1>1, <1>2, <3>1
    <3> QED BY <3>1 DEF On
  <2> QED BY <2>1, <2>2, <2>3
<1> QED BY <1>4, <1>5

LEMMA PopOn ==
  ASSUME TypeOK, NEW h \in {"CHLD", "INT", "TSTP"}, NoRepeat, Running(h),
         stack' = Tail(stack)
  PROVE  NoRepeat' /\ \A x : On(x)' <=> (On(x) /\ x # h)
<1> DEFINE H == {"CHLD", "INT", "TSTP"}
<1>1. stack \in Seq(H) /\ stack # <<>> /\ Len(stack) \in Nat
  BY DEF TypeOK, Running
<1>2. stack[1] = h /\ Len(stack) >= 1
  BY TopIsOn
<1>3. /\ Len(stack') = Len(stack) - 1
      /\ \A i \in 1 .. Len(stack') : stack'[i] = stack[i + 1]
  BY <1>1, HeadTailProperties
<1>4. \A i \in 1 .. Len(stack') : i + 1 \in 1 .. Len(stack) /\ i + 1 # 1
  BY <1>1, <1>2, <1>3
<1>5. NoRepeat'
  BY <1>3, <1>4 DEF NoRepeat
<1>6. ASSUME NEW x PROVE On(x)' <=> (On(x) /\ x # h)
  <2>1. On(x)' => On(x)
    BY <1>3, <1>4 DEF On
  <2>2. On(x)' => x # h
    <3>1. 1 \in 1 .. Len(stack)
      BY <1>1, <1>2
    <3> QED BY <1>2, <1>3, <1>4, <3>1 DEF On, NoRepeat
  <2>3. On(x) /\ x # h => On(x)'
    <3>1. ASSUME NEW k \in 1 .. Len(stack), stack[k] = x, x # h
          PROVE  k - 1 \in 1 .. Len(stack') /\ stack'[k - 1] = x
      BY <1>1, <1>2, <1>3, <3>1
    <3> QED BY <3>1 DEF On
  <2> QED BY <2>1, <2>2, <2>3
<1> QED BY <1>5, <1>6

LEMMA StackStep ==
  ASSUME TypeOK, StackOK, [Next]_vars
  PROVE  StackOK'
<1> DEFINE H == {"CHLD", "INT", "TSTP"}
<1>0. NoRepeat /\ target \in [{"INT", "TSTP"} -> Pids0]
  BY DEF StackOK, NoRepeat, TypeOK
<1>1. CASE UNCHANGED handlers
  BY <1>1 DEF handlers, StackOK, On
<1>2. CASE SigchldEnter
  <2>1. stack' = <<"CHLD">> \o stack /\ target' = target /\ ~On("CHLD")
    BY <1>2 DEF SigchldEnter, Delivered, On
  <2>2. NoRepeat' /\ \A x : On(x)' <=> (On(x) \/ x = "CHLD")
    BY <1>0, <2>1, PushOn
  <2> QED BY <2>1, <2>2 DEF StackOK, NoRepeat
<1>3. CASE \E p \in Pids : Waitpid(p)
  BY <1>3 DEF Waitpid, StackOK, On
<1>4. CASE ChildStopped \/ ChildGone
  <2>1. On("CHLD") /\ stack' = stack /\ target' = target
    BY <1>4, TopIsOn DEF ChildStopped, ChildGone
  <2> QED BY <2>1 DEF StackOK, On
<1>5. CASE WaitpidNone \/ ChildUnknown
  <2>1. /\ Running("CHLD") /\ stack' = Tail(stack) /\ target' = target
        /\ chld'.pc = "idle"
    BY <1>5 DEF WaitpidNone, ChildUnknown, SigchldReturn, Idle
  <2>2. NoRepeat' /\ \A x : On(x)' <=> (On(x) /\ x # "CHLD")
    BY <1>0, <2>1, PopOn
  <2> QED BY <2>1, <2>2 DEF StackOK, NoRepeat
<1>6. CASE \E sig \in {"INT", "TSTP"} : KeyEnter(sig)
  <2>1. PICK sig \in {"INT", "TSTP"} : KeyEnter(sig)
    BY <1>6
  <2>2. ~On(sig) /\ chld' = chld
    BY <2>1 DEF KeyEnter, Delivered, On
  <2>3. target' = [target EXCEPT ![sig] = fgpid(jobs)]
    BY <2>1 DEF KeyEnter
  <2>4. CASE fgpid(jobs) = 0
    <3>1. stack' = stack
      BY <2>1, <2>4 DEF KeyEnter
    <3>2. \A x \in {"INT", "TSTP"} : target'[x] # 0 <=> On(x)
      BY <1>0, <2>2, <2>3, <2>4 DEF StackOK
    <3> QED BY <2>2, <3>1, <3>2 DEF StackOK, On
  <2>5. CASE fgpid(jobs) # 0
    <3>1. stack' = <<sig>> \o stack
      BY <2>1, <2>5 DEF KeyEnter
    <3>2. NoRepeat' /\ \A x : On(x)' <=> (On(x) \/ x = sig)
      BY <1>0, <2>2, <3>1, PushOn
    <3>3. \A x \in {"INT", "TSTP"} : target'[x] # 0 <=> On(x)'
      BY <1>0, <2>3, <2>5, <3>2 DEF StackOK
    <3> QED BY <2>2, <3>2, <3>3 DEF StackOK, NoRepeat
  <2> QED BY <2>4, <2>5
<1>7. CASE \E sig \in {"INT", "TSTP"} : KeyForward(sig)
  <2>1. PICK sig \in {"INT", "TSTP"} : KeyForward(sig)
    BY <1>7
  <2>2. /\ Running(sig) /\ stack' = Tail(stack) /\ chld' = chld
        /\ target' = [target EXCEPT ![sig] = 0]
    BY <2>1 DEF KeyForward
  <2>3. NoRepeat' /\ \A x : On(x)' <=> (On(x) /\ x # sig)
    BY <1>0, <2>2, PopOn
  <2>4. \A x \in {"INT", "TSTP"} : target'[x] # 0 <=> On(x)'
    BY <1>0, <2>2, <2>3 DEF StackOK
  <2> QED BY <2>2, <2>3, <2>4 DEF StackOK, NoRepeat
<1> QED BY <1>1, <1>2, <1>3, <1>4, <1>5, <1>6, <1>7, Frames
        DEF HandlerStep, SigchldStep

-----------------------------------------------------------------------------
(* While main runs no handler is in progress. *)
LEMMA MainAlone ==
  ASSUME TypeOK, StackOK, NEW label, At(label)
  PROVE  /\ chld.pc = "idle"
         /\ \A sig \in {"INT", "TSTP"} : target[sig] = 0
<1>1. Len(stack) = 0
  BY EmptySeq DEF At
<1>2. 1 .. Len(stack) = {}
  BY <1>1
<1> QED BY <1>2 DEF StackOK, On

LEMMA ChldStep ==
  ASSUME TypeOK, StackOK, ChldOK, [Next]_vars
  PROVE  ChldOK'
<1>0. proc \in [Pids -> Phases]
  BY DEF TypeOK
<1>1. CASE UNCHANGED chld
  <2> SUFFICES ASSUME chld.pc = "update" PROVE ChldOK'
    BY <1>1 DEF ChldOK
  <2>1. chld.pid \in Pids /\ proc[chld.pid] = IF chld.stopped THEN "told" ELSE "reaped"
    BY DEF ChldOK
  <2>2. ~Kill
    BY MainAlone DEF Kill
  <2> QED BY <1>1, <2>1, <2>2, ProcStep DEF ChldOK
<1>2. CASE \E p \in Pids : Waitpid(p)
  <2>1. PICK p \in Pids : Waitpid(p)
    BY <1>2
  <2>2. chld' = [pc |-> "update", pid |-> p, stopped |-> proc[p] = "stopped"]
    BY <2>1 DEF Waitpid
  <2>3. chld'.pid = p /\ (chld'.stopped <=> proc[p] = "stopped")
    BY <2>2, Zenon
  <2>4. proc'[p] = IF proc[p] = "stopped" THEN "told" ELSE "reaped"
    BY <1>0, <2>1 DEF Waitpid
  <2>5. proc'[p] = IF chld'.stopped THEN "told" ELSE "reaped"
    BY <2>3, <2>4, Zenon
  <2> QED BY <2>3, <2>5, Zenon DEF ChldOK
<1>3. CASE chld' = Wait \/ chld' = Idle
  BY <1>3 DEF ChldOK, Wait, Idle
<1>4. \/ UNCHANGED chld \/ \E p \in Pids : Waitpid(p)
      \/ chld' = Wait \/ chld' = Idle
  BY Frames DEF HandlerStep, SigchldStep, SigchldEnter, WaitpidNone,
     ChildStopped, ChildUnknown, ChildGone, SigchldReturn, KeyEnter,
     KeyForward, handlers
<1> QED BY <1>1, <1>2, <1>3, <1>4

LEMMA ListedStep ==
  ASSUME TypeOK, CmdOK, ListedOK, [Next]_vars
  PROVE  ListedOK'
<1>0. \A i \in Slots : jobs[i].pid # 0 => jobs[i].pid \in Pids
  BY DEF TypeOK, Pids0
<1>1. \A p \in Pids : proc[p] # "none" => proc'[p] # "none"
  BY ProcStep
<1>2. \A i \in Slots : jobs'[i].pid \in {0, jobs[i].pid} \/
                       (AddPid /\ jobs'[i].pid = cmd.pid)
  <2>1. CASE UNCHANGED jobs
    BY <2>1
  <2>2. CASE AddPid
    BY <2>2, AddPidWrites DEF Writes
  <2>3. CASE AddState
    BY <2>3, AddStateWrites DEF Writes
  <2>4. CASE AddJid
    BY <2>4, AddJidWrites DEF Writes
  <2>5. CASE SetState
    BY <2>5, SetStateWrites DEF Writes
  <2>6. CASE ChildStopped
    BY <2>6, ChildStoppedWrites DEF Writes
  <2>7. CASE ChildGone
    BY <2>7, ChildGoneWrites DEF Writes
  <2>8. CASE AddNext
    BY <2>8 DEF AddNext
  <2> QED BY <2>1, <2>2, <2>3, <2>4, <2>5, <2>6, <2>7, <2>8, Frames
          DEF TableStep, table
<1>3. AddPid => cmd.pid \in Pids /\ proc[cmd.pid] # "none"
  BY DEF AddPid, At, CmdOK
<1> QED BY <1>0, <1>1, <1>2, <1>3 DEF ListedOK

(***************************************************************************)
(* What main knows about its slot.  A handler can only clear the slot or   *)
(* change its state.                                                       *)
(***************************************************************************)
LEMMA CmdStep ==
  ASSUME TypeOK, CmdOK, ListedOK, StackOK, UniquePids, [Next]_vars
  PROVE  CmdOK'
<1>0. /\ jobs \in [Slots -> Job] /\ cmd \in Cmd /\ cmd.pid \in Nat
      /\ nextjid \in Nat \ {0}
  BY PidsAreNat DEF TypeOK, Cmd
<1>1. CASE UNCHANGED <<pc, cmd>> /\ \A i \in Slots : jobs'[i].pid \in {0, jobs[i].pid}
  <2>1. pc = "add_pid" => proc'[cmd.pid] # "none"
    BY ProcStep DEF CmdOK
  <2>2. pc = "add_pid" => cmd.pid # 0
    BY ZeroIsNoPid DEF CmdOK
  <2> QED BY <1>1, <2>1, <2>2 DEF CmdOK
<1>2. CASE AddPid
  <2>1. PICK k \in Slots : /\ jobs[k].pid = 0
                           /\ Writes(k, cmd.pid, jobs[k].jid, jobs[k].state)
                           /\ cmd'.slot = k /\ cmd'.pid = cmd.pid
    BY <1>2, AddPidWrites
  <2>2. pc' = "add_state" /\ \A i \in Slots : jobs[i].pid # cmd.pid
    BY <1>2 DEF AddPid, At, Goto, CmdOK
  <2> QED BY <2>1, <2>2 DEF CmdOK, Writes
<1>3. CASE AddState
  BY <1>3, AddStateWrites DEF AddState, At, Goto, Writes, CmdOK, SlotPCs
<1>4. CASE AddLoad
  <2>1. /\ cmd'.jid = nextjid /\ cmd'.pid = cmd.pid /\ cmd'.slot = cmd.slot
        /\ jobs' = jobs /\ pc = "add_load" /\ pc' = "add_jid"
    BY <1>0, <1>4 DEF AddLoad, At, Goto, Cmd, table
  <2> QED BY <1>0, <2>1 DEF CmdOK, SlotPCs
<1>5. CASE AddJid
  BY <1>5, AddJidWrites DEF AddJid, At, Goto, Writes, CmdOK, SlotPCs
<1>6. CASE AddNext
  BY <1>6 DEF AddNext, At, Goto, CmdOK, SlotPCs
<1>7. CASE Unblock
  BY <1>7 DEF Unblock, At, Goto, CmdOK, SlotPCs, table
<1>8. CASE KillArg
  <2>1. /\ cmd'.pid = jobs[cmd.slot].pid /\ cmd'.slot = cmd.slot
        /\ jobs' = jobs /\ pc = "kill_arg" /\ pc' = "kill"
    BY <1>0, <1>8 DEF KillArg, At, Goto, Cmd, table
  <2>2. cmd.slot \in Slots
    BY <2>1 DEF CmdOK
  <2> QED BY <2>1, <2>2 DEF CmdOK, SlotPCs, UniquePids
<1>9. CASE Kill
  BY <1>9 DEF Kill, At, Goto, CmdOK, SlotPCs, table
<1>10. CASE SetState
  <2>1. pc = "set_state" /\ cmd' = cmd /\ pc' \in {"read", "wait_arg"}
    BY <1>10 DEF SetState, At, Goto
  <2> QED BY <1>10, <2>1, SetStateWrites DEF Writes, CmdOK, SlotPCs
<1>11. CASE WaitArg
  <2>1. /\ cmd'.pid = jobs[cmd.slot].pid /\ cmd'.slot = cmd.slot
        /\ pc = "wait_arg" /\ pc' = "waitfg"
    BY <1>0, <1>11 DEF WaitArg, At, Goto, Cmd
  <2> QED BY <2>1 DEF CmdOK, SlotPCs
<1>12. CASE WaitfgFind
  <2>0. jobs' = jobs /\ pc = "waitfg"
    BY <1>12 DEF WaitfgFind, At, table
  <2>1. CASE getjobpid(jobs, cmd.pid) = NULL
    BY <1>12, <2>1 DEF WaitfgFind, Goto, CmdOK, SlotPCs
  <2>2. CASE getjobpid(jobs, cmd.pid) # NULL
    <3>1. PICK i \in Slots : i = getjobpid(jobs, cmd.pid) /\ jobs[i].pid = cmd.pid
      BY <1>0, <2>2, GetjobpidFinds
    <3>2. cmd'.slot = i /\ cmd'.pid = cmd.pid /\ pc' = "waiting"
      BY <1>0, <1>12, <2>2, <3>1 DEF WaitfgFind, Goto, Cmd
    <3> QED BY <2>0, <3>1, <3>2 DEF CmdOK, UniquePids
  <2> QED BY <2>1, <2>2
<1>13. CASE WaitfgReturn
  BY <1>13 DEF WaitfgReturn, Goto, CmdOK, SlotPCs
<1>14. CASE \E bg \in BOOLEAN : Fork(bg)
  <2>1. PICK bg \in BOOLEAN : Fork(bg)
    BY <1>14
  <2>2. PICK p \in Pids : /\ proc[p] = "none"
                          /\ proc' = [proc EXCEPT ![p] = "forked"]
                          /\ cmd' = [pid |-> p, bg |-> bg, slot |-> NULL, jid |-> 0]
    BY <2>1 DEF Fork
  <2>3. pc' = "add_pid" /\ jobs' = jobs
    BY <2>1 DEF Fork, Goto, table
  <2>4. cmd'.pid = p /\ proc'[p] = "forked"
    BY <2>2 DEF TypeOK
  <2>5. \A i \in Slots : jobs[i].pid # p
    BY <2>2, ZeroIsNoPid DEF ListedOK
  <2> QED BY <2>3, <2>4, <2>5 DEF CmdOK, SlotPCs
<1>15. CASE \E bg \in BOOLEAN, i \in Slots : BgFg(bg, i)
  BY <1>15 DEF BgFg, Goto, CmdOK, SlotPCs
<1>16. CASE ChildStopped
  BY <1>1, <1>16, ChildStoppedWrites DEF ChildStopped, main, Writes
<1>17. CASE ChildGone
  BY <1>1, <1>17, ChildGoneWrites DEF ChildGone, main, Writes
<1>18. CASE UNCHANGED <<jobs, pc, cmd>>
  BY <1>1, <1>18
<1> QED BY <1>2, <1>3, <1>4, <1>5, <1>6, <1>7, <1>8, <1>9, <1>10, <1>11, <1>12,
           <1>13, <1>14, <1>15, <1>16, <1>17, <1>18, Frames
        DEF TableStep, LocalsStep, table, main

-----------------------------------------------------------------------------
(***************************************************************************)
(* The safety properties.                                                  *)
(***************************************************************************)
LEMMA UniqueStep ==
  ASSUME TypeOK, CmdOK, UniquePids, [Next]_vars
  PROVE  UniquePids'
<1>1. CASE \A i \in Slots : jobs'[i].pid \in {0, jobs[i].pid}
  BY <1>1 DEF UniquePids
<1>2. CASE AddPid
  <2>1. \A i \in Slots : jobs[i].pid # cmd.pid
    BY <1>2 DEF AddPid, At, CmdOK
  <2> QED BY <1>2, <2>1, AddPidWrites DEF Writes, UniquePids
<1>3. CASE AddState
  BY <1>1, <1>3, AddStateWrites DEF Writes
<1>4. CASE AddJid
  BY <1>1, <1>4, AddJidWrites DEF Writes
<1>5. CASE SetState
  BY <1>1, <1>5, SetStateWrites DEF Writes
<1>6. CASE ChildStopped
  BY <1>1, <1>6, ChildStoppedWrites DEF Writes
<1>7. CASE ChildGone
  BY <1>1, <1>7, ChildGoneWrites DEF Writes
<1>8. CASE UNCHANGED jobs \/ AddNext
  BY <1>1, <1>8 DEF AddNext
<1> QED BY <1>2, <1>3, <1>4, <1>5, <1>6, <1>7, <1>8, Frames DEF TableStep, table

LEMMA FgStep ==
  ASSUME TypeOK, CmdOK, FgOK, [Next]_vars
  PROVE  FgOK'
<1>0. /\ jobs \in [Slots -> Job] /\ cmd \in Cmd /\ cmd.pid \in Nat
      /\ BG # FG /\ ST # FG /\ UNDEF # FG
  <2>1. jobs \in [Slots -> Job] /\ cmd \in Cmd /\ cmd.pid \in Nat
    BY PidsAreNat DEF TypeOK, Cmd
  <2>2. BG # FG /\ ST # FG /\ UNDEF # FG
    BY DEF BG, FG, ST, UNDEF
  <2> QED BY <2>1, <2>2
<1>1. CASE /\ UNCHANGED <<pc, cmd>>
           /\ \A i \in Slots : jobs'[i] = jobs[i] \/ jobs'[i].state # FG
  BY <1>1 DEF FgOK
<1>2. CASE AddPid
  <2>1. pc = "add_pid" /\ pc' = "add_state"
    BY <1>2 DEF AddPid, At, Goto
  <2>2. PICK k \in Slots : /\ Writes(k, cmd.pid, jobs[k].jid, jobs[k].state)
                           /\ cmd'.slot = k /\ cmd'.pid = cmd.pid
    BY <1>2, AddPidWrites
  <2> QED BY <2>1, <2>2 DEF Writes, FgOK, FgPCs
<1>3. CASE AddState
  <2>1. pc = "add_state" /\ pc' = "add_load" /\ cmd' = cmd
    BY <1>3 DEF AddState, At, Goto
  <2>2. Writes(cmd.slot, jobs[cmd.slot].pid, jobs[cmd.slot].jid, CmdState)
    BY <1>3, AddStateWrites
  <2>3. \A i \in Slots : jobs[i].pid # 0 => (jobs[i].pid = cmd.pid <=> i = cmd.slot)
    BY <2>1 DEF CmdOK, SlotPCs
  <2>4. \A i \in Slots : jobs'[i].pid # 0 /\ jobs'[i].state = FG =>
          i = cmd.slot /\ jobs[i].pid = cmd.pid /\ ~cmd.bg
    BY <1>0, <2>2, <2>3 DEF Writes, FgOK, CmdState
  <2> QED BY <2>1, <2>2, <2>4 DEF Writes, FgOK, FgPCs
<1>4. CASE AddLoad
  <2>1. /\ cmd'.pid = cmd.pid /\ cmd'.bg = cmd.bg
        /\ jobs' = jobs /\ pc = "add_load" /\ pc' = "add_jid"
    BY <1>0, <1>4 DEF AddLoad, At, Goto, Cmd, table
  <2> QED BY <2>1 DEF FgOK, FgPCs
<1>5. CASE AddJid
  BY <1>5, AddJidWrites DEF AddJid, At, Goto, Writes, FgOK, FgPCs
<1>6. CASE AddNext
  BY <1>6 DEF AddNext, At, Goto, FgOK, FgPCs
<1>7. CASE Unblock
  BY <1>7 DEF Unblock, At, Goto, FgOK, FgPCs, table
<1>8. CASE KillArg
  BY <1>8 DEF KillArg, At, Goto, FgOK, FgPCs, table
<1>9. CASE Kill
  BY <1>9 DEF Kill, At, Goto, FgOK, FgPCs, table
<1>10. CASE SetState
  <2>1. /\ pc = "set_state" /\ cmd' = cmd
        /\ pc' = IF cmd.bg THEN "read" ELSE "wait_arg"
    BY <1>10 DEF SetState, At, Goto
  <2>2. Writes(cmd.slot, jobs[cmd.slot].pid, jobs[cmd.slot].jid, CmdState)
    BY <1>10, SetStateWrites
  <2>3. \A i \in Slots : jobs[i].pid # 0 => (jobs[i].pid = cmd.pid <=> i = cmd.slot)
    BY <2>1 DEF CmdOK, SlotPCs
  <2>4. \A i \in Slots : jobs'[i].pid # 0 /\ jobs'[i].state = FG =>
          i = cmd.slot /\ jobs[i].pid = cmd.pid /\ ~cmd.bg
    BY <1>0, <2>1, <2>2, <2>3 DEF Writes, FgOK, FgPCs, CmdState
  <2> QED BY <2>1, <2>2, <2>4 DEF Writes, FgOK, FgPCs
<1>11. CASE WaitArg
  <2>1. /\ cmd'.pid = jobs[cmd.slot].pid /\ cmd'.bg = cmd.bg /\ jobs' = jobs
        /\ pc = "wait_arg" /\ pc' = "waitfg"
    BY <1>0, <1>11 DEF WaitArg, At, Goto, Cmd, table
  <2>2. \A i \in Slots : jobs[i].pid # 0 => (jobs[i].pid = cmd.pid <=> i = cmd.slot)
    BY <2>1 DEF CmdOK, SlotPCs
  <2> QED BY <2>1, <2>2 DEF FgOK, FgPCs
<1>12. CASE WaitfgFind
  <2>0. /\ jobs' = jobs /\ pc = "waitfg" /\ cmd'.pid = cmd.pid /\ cmd'.bg = cmd.bg
    BY <1>0, <1>12 DEF WaitfgFind, At, Cmd, table
  <2>1. CASE getjobpid(jobs, cmd.pid) = NULL
    <3>1. \A i \in Slots : jobs[i].pid # 0 => jobs[i].pid # cmd.pid
      BY <1>0, <2>1, GetjobpidFinds
    <3> QED BY <2>0, <3>1 DEF FgOK
  <2>2. CASE getjobpid(jobs, cmd.pid) # NULL
    <3>1. pc' = "waiting"
      BY <1>12, <2>2 DEF WaitfgFind, Goto
    <3> QED BY <2>0, <3>1 DEF FgOK, FgPCs
  <2> QED BY <2>1, <2>2
<1>13. CASE WaitfgReturn
  <2>1. /\ jobs' = jobs /\ cmd' = cmd /\ pc = "waiting" /\ pc' = "read"
        /\ ~(jobs[cmd.slot].state = FG /\ jobs[cmd.slot].pid = cmd.pid)
    BY <1>13 DEF WaitfgReturn, At, Goto, table, Foreground
  <2>2. \A i \in Slots : jobs[i].pid # 0 => (jobs[i].pid = cmd.pid <=> i = cmd.slot)
    BY <2>1 DEF CmdOK, SlotPCs
  <2> QED BY <2>1, <2>2 DEF FgOK
<1>14. CASE \E bg \in BOOLEAN : Fork(bg)
  BY <1>14 DEF Fork, At, Goto, table, FgOK, FgPCs
<1>15. CASE \E bg \in BOOLEAN, i \in Slots : BgFg(bg, i)
  BY <1>15 DEF BgFg, At, Goto, table, FgOK, FgPCs
<1>16. CASE ChildStopped
  BY <1>0, <1>1, <1>16, ChildStoppedWrites DEF ChildStopped, main, Writes
<1>17. CASE ChildGone
  BY <1>0, <1>1, <1>17, ChildGoneWrites DEF ChildGone, main, Writes
<1>18. CASE UNCHANGED <<jobs, pc, cmd>>
  BY <1>1, <1>18
<1> QED BY <1>2, <1>3, <1>4, <1>5, <1>6, <1>7, <1>8, <1>9, <1>10, <1>11, <1>12,
           <1>13, <1>14, <1>15, <1>16, <1>17, <1>18, Frames
        DEF TableStep, LocalsStep, table, main

LEMMA StateValues ==
  /\ CmdState \in {FG, BG}
  /\ FG # UNDEF /\ BG # UNDEF /\ ST # UNDEF
  /\ FG # ST /\ BG # ST
BY DEF CmdState, UNDEF, FG, BG, ST

LEMMA FieldsStep ==
  ASSUME TypeOK, CmdOK, FieldsOK, [Next]_vars
  PROVE  FieldsOK'
<1>0. jobs \in [Slots -> Job] /\ cmd \in Cmd
  BY DEF TypeOK
<1>1. CASE UNCHANGED jobs /\ pc \notin {"add_state", "add_load", "add_jid"}
  BY <1>1 DEF FieldsOK
<1>2. CASE AddPid
  <2>1. pc = "add_pid" /\ pc' = "add_state"
    BY <1>2 DEF AddPid, At, Goto
  <2>2. PICK k \in Slots : /\ jobs[k].pid = 0
                           /\ Writes(k, cmd.pid, jobs[k].jid, jobs[k].state)
                           /\ cmd'.slot = k
    BY <1>2, AddPidWrites
  <2>3. cmd.pid # 0
    BY <2>1, ZeroIsNoPid DEF CmdOK
  <2> QED BY <2>1, <2>2, <2>3 DEF Writes, FieldsOK
<1>3. CASE AddState
  <2>1. pc = "add_state" /\ pc' = "add_load" /\ cmd' = cmd
    BY <1>3 DEF AddState, At, Goto
  <2> QED BY <1>3, <2>1, AddStateWrites, StateValues DEF Writes, FieldsOK
<1>4. CASE AddLoad
  <2>1. /\ cmd'.slot = cmd.slot /\ jobs' = jobs
        /\ pc = "add_load" /\ pc' = "add_jid"
    BY <1>0, <1>4 DEF AddLoad, At, Goto, Cmd, table
  <2> QED BY <2>1 DEF FieldsOK
<1>5. CASE AddJid
  <2>1. pc = "add_jid" /\ cmd' = cmd /\ cmd.jid # 0 /\ cmd.slot \in Slots
    BY <1>5 DEF AddJid, At, CmdOK
  <2>2. Writes(cmd.slot, jobs[cmd.slot].pid, cmd.jid, jobs[cmd.slot].state)
    BY <1>5, AddJidWrites
  <2> QED BY <2>1, <2>2 DEF Writes, FieldsOK
<1>6. CASE SetState
  <2>1. pc = "set_state" /\ cmd' = cmd
    BY <1>6 DEF SetState, At
  <2> QED BY <1>6, <2>1, SetStateWrites, StateValues DEF Writes, FieldsOK
<1>7. CASE ChildStopped
  <2>1. pc' = pc /\ cmd' = cmd
    BY <1>7 DEF ChildStopped, main
  <2> QED BY <1>7, <2>1, ChildStoppedWrites, StateValues DEF Writes, FieldsOK
<1>8. CASE ChildGone
  <2>1. pc' = pc /\ cmd' = cmd
    BY <1>8 DEF ChildGone, main
  <2> QED BY <1>8, <2>1, ChildGoneWrites, StateValues DEF Writes, FieldsOK
<1>9. CASE UNCHANGED <<jobs, pc, cmd>>
  BY <1>9 DEF FieldsOK
<1>10. CASE /\ UNCHANGED jobs
            /\ \/ AddNext \/ Unblock \/ KillArg \/ Kill \/ WaitArg
               \/ WaitfgFind \/ WaitfgReturn
               \/ \E bg \in BOOLEAN : Fork(bg)
               \/ \E bg \in BOOLEAN, i \in Slots : BgFg(bg, i)
  BY <1>1, <1>10 DEF AddNext, Unblock, KillArg, Kill, WaitArg, WaitfgFind,
     WaitfgReturn, Fork, BgFg, At
<1>11. AddNext => UNCHANGED jobs
  BY DEF AddNext
<1> QED BY <1>2, <1>3, <1>4, <1>5, <1>6, <1>7, <1>8, <1>9, <1>10, <1>11, Frames
        DEF TableStep, LocalsStep, table, main

(***************************************************************************)
(* A job leaves the list only in ChildGone, for the process that waitpid   *)
(* has just reaped.                                                        *)
(***************************************************************************)
LEMMA ListedShrinks ==
  ASSUME TypeOK, CmdOK, ChldOK, [Next]_vars,
         NEW p \in Listed(jobs), p \notin Listed(jobs')
  PROVE  proc[p] = "reaped"
<1>1. PICK i \in Slots : jobs[i].pid = p /\ p # 0
  BY DEF Listed
<1>2. jobs'[i].pid # p
  BY <1>1 DEF Listed
<1>3. ChildGone
  <2>1. ~UNCHANGED jobs
    BY <1>1, <1>2
  <2>2. ~AddPid
    BY <1>1, <1>2, AddPidWrites DEF Writes
  <2>3. ~AddState
    BY <1>1, <1>2, AddStateWrites DEF Writes
  <2>4. ~AddJid
    BY <1>1, <1>2, AddJidWrites DEF Writes
  <2>5. ~SetState
    BY <1>1, <1>2, SetStateWrites DEF Writes
  <2>6. ~ChildStopped
    BY <1>1, <1>2, ChildStoppedWrites DEF Writes
  <2>7. ~AddNext
    BY <2>1 DEF AddNext
  <2> QED BY <2>1, <2>2, <2>3, <2>4, <2>5, <2>6, <2>7, Frames DEF TableStep, table
<1>4. p = chld.pid
  BY <1>1, <1>2, <1>3, ChildGoneWrites DEF Writes
<1>5. chld.pc = "update" /\ ~chld.stopped
  BY <1>3 DEF ChildGone
<1> QED BY <1>4, <1>5 DEF ChldOK

LEMMA LostStep ==
  ASSUME TypeOK, CmdOK, ChldOK, NoLostChild, [Next]_vars
  PROVE  NoLostChild'
<1> SUFFICES ASSUME NEW p \in Pids, proc'[p] \notin {"none", "reaped"}
             PROVE  p \in Listed(jobs') \/ (pc' = "add_pid" /\ cmd'.pid = p)
  BY DEF NoLostChild
<1>1. CASE proc[p] = "none"
  BY <1>1, ProcStep
<1>2. CASE proc[p] # "none"
  <2>1. proc[p] # "reaped"
    BY ProcStep
  <2>2. CASE p \in Listed(jobs)
    BY <2>1, <2>2, ListedShrinks
  <2>3. CASE pc = "add_pid" /\ cmd.pid = p
    <3>1. CASE AddPid
      <4>1. PICK k \in Slots : jobs'[k].pid = p
        BY <2>3, <3>1, AddPidWrites DEF Writes
      <4>2. p # 0
        BY ZeroIsNoPid
      <4> QED BY <4>1, <4>2 DEF Listed
    <3>2. CASE UNCHANGED <<pc, cmd>>
      BY <2>3, <3>2
    <3>3. AddPid \/ UNCHANGED <<pc, cmd>>
      BY <2>3, Frames DEF LocalsStep, main, AddState, AddLoad, AddJid, AddNext,
         Unblock, KillArg, Kill, SetState, WaitArg, WaitfgFind, WaitfgReturn,
         Fork, BgFg, At
    <3> QED BY <3>1, <3>2, <3>3
  <2> QED BY <1>2, <2>1, <2>2, <2>3 DEF NoLostChild
<1> QED BY <1>1, <1>2

(* Where a stopped job in the list comes from. *)
LEMMA StoppedOrigin ==
  ASSUME TypeOK, CmdOK, FieldsOK, [Next]_vars,
         NEW i \in Slots, jobs'[i].pid # 0, jobs'[i].state = ST
  PROVE  \/ /\ jobs[i].pid = jobs'[i].pid /\ jobs[i].state = ST
            /\ ~(SetState /\ cmd.slot = i)
         \/ ChildStopped /\ jobs'[i].pid = chld.pid
<1>1. CASE UNCHANGED jobs /\ ~SetState
  BY <1>1
<1>2. CASE AddPid
  <2>1. ~SetState
    BY <1>2 DEF AddPid, SetState, At
  <2> QED BY <1>2, <2>1, AddPidWrites DEF Writes, FieldsOK
<1>3. CASE AddState
  <2>1. ~SetState
    BY <1>3 DEF AddState, SetState, At
  <2> QED BY <1>3, <2>1, AddStateWrites, StateValues DEF Writes
<1>4. CASE AddJid
  <2>1. ~SetState
    BY <1>4 DEF AddJid, SetState, At
  <2> QED BY <1>4, <2>1, AddJidWrites DEF Writes
<1>5. CASE SetState
  BY <1>5, SetStateWrites, StateValues DEF Writes
<1>6. CASE ChildStopped
  <2>1. ~SetState
    BY <1>6 DEF ChildStopped, Running, SetState, At
  <2> QED BY <1>6, <2>1, ChildStoppedWrites DEF Writes
<1>7. CASE ChildGone
  <2>1. ~SetState
    BY <1>7 DEF ChildGone, Running, SetState, At
  <2> QED BY <1>7, <2>1, ChildGoneWrites DEF Writes
<1>8. CASE AddNext
  BY <1>1, <1>8 DEF AddNext, SetState, At
<1> QED BY <1>1, <1>2, <1>3, <1>4, <1>5, <1>6, <1>7, <1>8, Frames
        DEF TableStep, table

LEMMA StoppedStep ==
  ASSUME TypeOK, CmdOK, ChldOK, FieldsOK, StoppedJobsAreStopped, [Next]_vars
  PROVE  StoppedJobsAreStopped'
<1> SUFFICES ASSUME NEW i \in Slots, jobs'[i].pid # 0, jobs'[i].state = ST
             PROVE  \/ proc'[jobs'[i].pid] \in {"stopped", "told"}
                    \/ pc' = "set_state" /\ cmd'.slot = i
  BY DEF StoppedJobsAreStopped
<1>1. CASE ChildStopped /\ jobs'[i].pid = chld.pid
  <2>1. chld.pc = "update" /\ chld.stopped /\ proc' = proc
    BY <1>1 DEF ChildStopped, children
  <2> QED BY <1>1, <2>1 DEF ChldOK
<1>2. CASE /\ jobs[i].pid = jobs'[i].pid /\ jobs[i].state = ST
           /\ ~(SetState /\ cmd.slot = i)
  <2> DEFINE p == jobs[i].pid
  <2>0. p \in Pids
    BY <1>2 DEF TypeOK, Pids0
  <2>1. CASE proc[p] \in {"stopped", "told"}
    <3>1. CASE Kill /\ p = cmd.pid
      <4>1. pc = "kill" /\ pc' = "set_state" /\ cmd' = cmd
        BY <3>1 DEF Kill, At, Goto
      <4>2. i = cmd.slot
        BY <1>2, <3>1, <4>1 DEF CmdOK, SlotPCs
      <4> QED BY <4>1, <4>2
    <3>2. CASE ~(Kill /\ p = cmd.pid)
      BY <1>2, <2>0, <2>1, <3>2, ProcStep
    <3> QED BY <3>1, <3>2
  <2>2. CASE pc = "set_state" /\ cmd.slot = i
    <3>1. UNCHANGED <<pc, cmd>> \/ SetState
      BY <2>2, Frames DEF LocalsStep, main, AddPid, AddState, AddLoad, AddJid,
         AddNext, Unblock, KillArg, Kill, WaitArg, WaitfgFind, WaitfgReturn,
         Fork, BgFg, At
    <3> QED BY <1>2, <2>2, <3>1
  <2> QED BY <1>2, <2>1, <2>2 DEF StoppedJobsAreStopped
<1> QED BY <1>1, <1>2, StoppedOrigin

LEMMA KeysStep ==
  ASSUME TypeOK, StackOK, FgOK, KeysSpareBackground, [Next]_vars
  PROVE  KeysSpareBackground'
<1>0. jobs \in [Slots -> Job] /\ target \in [{"INT", "TSTP"} -> Pids0]
  BY DEF TypeOK
<1>1. CASE UNCHANGED target /\ UNCHANGED <<pc, cmd>>
  BY <1>1 DEF KeysSpareBackground
<1>2. CASE UNCHANGED handlers /\ LocalsStep
  <2>1. \E label : At(label)
    BY <1>2 DEF LocalsStep, AddPid, AddState, AddLoad, AddJid, AddNext,
       Unblock, KillArg, Kill, SetState, WaitArg, WaitfgFind, WaitfgReturn,
       Fork, BgFg
  <2>2. \A sig \in {"INT", "TSTP"} : target[sig] = 0
    BY <2>1, MainAlone
  <2> QED BY <1>2, <2>2 DEF handlers, KeysSpareBackground
<1>3. CASE \E sig \in {"INT", "TSTP"} : KeyEnter(sig)
  <2>1. PICK sig \in {"INT", "TSTP"} : KeyEnter(sig)
    BY <1>3
  <2>2. /\ target' = [target EXCEPT ![sig] = fgpid(jobs)]
        /\ pc' = pc /\ cmd' = cmd
    BY <2>1 DEF KeyEnter, main
  <2>3. fgpid(jobs) # 0 => /\ fgpid(jobs) = cmd.pid /\ pc # "read"
                           /\ cmd.bg => pc = "add_state"
    BY <1>0, FgpidFinds DEF FgOK, FgPCs
  <2> QED BY <1>0, <2>2, <2>3 DEF KeysSpareBackground
<1>4. CASE \E sig \in {"INT", "TSTP"} : KeyForward(sig)
  <2>1. PICK sig \in {"INT", "TSTP"} : KeyForward(sig)
    BY <1>4
  <2>2. target' = [target EXCEPT ![sig] = 0] /\ pc' = pc /\ cmd' = cmd
    BY <2>1 DEF KeyForward, main
  <2> QED BY <1>0, <2>2 DEF KeysSpareBackground
<1>5. CASE SigchldStep
  BY <1>1, <1>5 DEF SigchldStep, SigchldEnter, WaitpidNone, Waitpid,
     ChildStopped, ChildUnknown, ChildGone, SigchldReturn, main
<1> QED BY <1>1, <1>2, <1>3, <1>4, <1>5, Frames DEF HandlerStep, handlers, main

-----------------------------------------------------------------------------
(* The inductive invariant holds of every behaviour. *)
THEOREM Invariance == Spec => []Inv
<1>1. ASSUME Inv, [Next]_vars PROVE Inv'
  <2>1. /\ TypeOK /\ CmdOK /\ ListedOK /\ StackOK /\ ChldOK /\ FgOK /\ FieldsOK
        /\ UniquePids /\ NoLostChild /\ StoppedJobsAreStopped
        /\ KeysSpareBackground
    BY <1>1 DEF Inv
  <2>2. TypeOK' /\ CmdOK' /\ ListedOK' /\ StackOK'
    BY <1>1, <2>1, TypeStep, CmdStep, ListedStep, StackStep
  <2>3. ChldOK' /\ FgOK' /\ FieldsOK' /\ UniquePids'
    BY <1>1, <2>1, ChldStep, FgStep, FieldsStep, UniqueStep
  <2>4. NoLostChild' /\ StoppedJobsAreStopped' /\ KeysSpareBackground'
    BY <1>1, <2>1, LostStep, StoppedStep, KeysStep
  <2> QED BY <2>2, <2>3, <2>4 DEF Inv
<1> QED BY InitInv, <1>1, PTL DEF Spec

(* Every variable of the shell keeps its type. *)
THEOREM TypeCorrect == Spec => []TypeOK
<1>1. Inv => TypeOK
  BY DEF Inv
<1> QED BY Invariance, <1>1, PTL

(* No process is listed twice, wherever a handler interrupts addjob. *)
THEOREM PidsUnique == Spec => []UniquePids
<1>1. Inv => UniquePids
  BY DEF Inv
<1> QED BY Invariance, <1>1, PTL

(* At most one job is in the FG state, and none while the shell reads a    *)
(* command.                                                                *)
THEOREM ForegroundUnique == Spec => []OneForeground
<1>1. Inv => OneForeground
  <2> SUFFICES ASSUME Inv PROVE OneForeground
    OBVIOUS
  <2>1. FgOK /\ UniquePids
    BY DEF Inv
  <2> QED BY <2>1 DEF OneForeground, FgOK, FgPCs, UniquePids
<1> QED BY Invariance, <1>1, PTL

(* No child that is not reaped is missing from the job list. *)
THEOREM ChildrenListed == Spec => []NoLostChild
<1>1. Inv => NoLostChild
  BY DEF Inv
<1> QED BY Invariance, <1>1, PTL

(* A job shown as stopped is stopped. *)
THEOREM StoppedShown == Spec => []StoppedJobsAreStopped
<1>1. Inv => StoppedJobsAreStopped
  BY DEF Inv
<1> QED BY Invariance, <1>1, PTL

(* Outside addjob every listed job is complete. *)
THEOREM JobsComplete == Spec => []ListedJobsAreComplete
<1>1. Inv => ListedJobsAreComplete
  BY DEF Inv, FieldsOK, ListedJobsAreComplete, Adding
<1> QED BY Invariance, <1>1, PTL

(* The keyboard reaches only the job main starts or waits for, and of      *)
(* those a job started with & only while addjob is between its PID and its *)
(* state.                                                                  *)
THEOREM BackgroundSpared == Spec => []KeysSpareBackground
<1>1. Inv => KeysSpareBackground
  BY DEF Inv
<1> QED BY Invariance, <1>1, PTL

(***************************************************************************)
(* What makes that exception: an empty slot whose state was left FG.       *)
(* While there is none, the keyboard reaches no job started with &.        *)
(***************************************************************************)
NoLeftover == \A i \in Slots : jobs[i].pid = 0 => jobs[i].state # FG

OnlyForeground == \A sig \in {"INT", "TSTP"} : target[sig] # 0 => ~cmd.bg

(* So addjob finds no listed job in the state FG when it stores a PID.     *)
NoneYet ==
  pc = "add_state" => \A i \in Slots : jobs[i].pid # 0 => jobs[i].state # FG

LEMMA NoneYetStep ==
  ASSUME Inv, NoLeftover, NoneYet, [Next]_vars
  PROVE  NoneYet'
<1>0. TypeOK /\ CmdOK /\ FgOK /\ jobs \in [Slots -> Job] /\ ST # FG /\ UNDEF # FG
  BY DEF Inv, TypeOK, ST, FG, UNDEF
<1>1. CASE pc' = pc /\ \A i \in Slots : jobs'[i] = jobs[i] \/ jobs'[i].state # FG
  BY <1>1 DEF NoneYet
<1>2. CASE AddPid
  <2>1. pc = "add_pid"
    BY <1>2 DEF AddPid, At
  <2>2. \A i \in Slots : jobs[i].state # FG
    BY <1>0, <2>1 DEF FgOK, FgPCs, NoLeftover
  <2>3. PICK k \in Slots : Writes(k, cmd.pid, jobs[k].jid, jobs[k].state)
    BY <1>0, <1>2, AddPidWrites
  <2> QED BY <2>2, <2>3 DEF Writes, NoneYet
<1>3. CASE pc' # "add_state"
  BY <1>3 DEF NoneYet
<1>4. CASE UNCHANGED main
  <2>1. UNCHANGED jobs \/ ChildStopped \/ ChildGone
    BY <1>4, Frames DEF TableStep, table, main, AddPid, AddState, AddJid, AddNext,
       SetState, At, Goto
  <2>2. CASE ChildStopped
    BY <1>0, <1>1, <1>4, <2>2, ChildStoppedWrites DEF Writes, main
  <2>3. CASE ChildGone
    BY <1>0, <1>1, <1>4, <2>3, ChildGoneWrites DEF Writes, main
  <2> QED BY <1>1, <1>4, <2>1, <2>2, <2>3 DEF main
<1>5. CASE LocalsStep
  BY <1>2, <1>3, <1>5 DEF LocalsStep, AddState, AddLoad, AddJid, AddNext, Unblock,
     KillArg, Kill, SetState, WaitArg, WaitfgFind, WaitfgReturn, Fork, BgFg, Goto
<1> QED BY <1>4, <1>5, Frames

LEMMA OnlyForegroundStep ==
  ASSUME Inv, NoneYet, OnlyForeground, [Next]_vars
  PROVE  OnlyForeground'
<1>0. /\ TypeOK /\ StackOK /\ FgOK /\ jobs \in [Slots -> Job]
      /\ target \in [{"INT", "TSTP"} -> Pids0]
  BY DEF Inv, TypeOK
<1>1. CASE UNCHANGED target /\ UNCHANGED cmd
  BY <1>1 DEF OnlyForeground
<1>2. CASE UNCHANGED handlers /\ LocalsStep
  <2>1. \E label : At(label)
    BY <1>2 DEF LocalsStep, AddPid, AddState, AddLoad, AddJid, AddNext,
       Unblock, KillArg, Kill, SetState, WaitArg, WaitfgFind, WaitfgReturn,
       Fork, BgFg
  <2>2. \A sig \in {"INT", "TSTP"} : target[sig] = 0
    BY <1>0, <2>1, MainAlone
  <2> QED BY <1>2, <2>2 DEF handlers, OnlyForeground
<1>3. CASE \E sig \in {"INT", "TSTP"} : KeyEnter(sig)
  <2>1. PICK sig \in {"INT", "TSTP"} : KeyEnter(sig)
    BY <1>3
  <2>2. target' = [target EXCEPT ![sig] = fgpid(jobs)] /\ cmd' = cmd
    BY <2>1 DEF KeyEnter, main
  <2>3. fgpid(jobs) # 0 => ~cmd.bg
    BY <1>0, FgpidFinds DEF FgOK, FgPCs, NoneYet
  <2> QED BY <1>0, <2>2, <2>3 DEF OnlyForeground
<1>4. CASE \E sig \in {"INT", "TSTP"} : KeyForward(sig)
  <2>1. PICK sig \in {"INT", "TSTP"} : KeyForward(sig)
    BY <1>4
  <2>2. target' = [target EXCEPT ![sig] = 0] /\ cmd' = cmd
    BY <2>1 DEF KeyForward, main
  <2> QED BY <1>0, <2>2 DEF OnlyForeground
<1>5. CASE SigchldStep
  BY <1>1, <1>5 DEF SigchldStep, SigchldEnter, WaitpidNone, Waitpid,
     ChildStopped, ChildUnknown, ChildGone, SigchldReturn, main
<1> QED BY <1>1, <1>2, <1>3, <1>4, <1>5, Frames DEF HandlerStep, handlers, main

(* As long as addjob and fg leave no empty slot in the state FG, ctrl-c    *)
(* and ctrl-z never reach a job started with &.                            *)
THEOREM BackgroundSparedWithoutLeftover ==
  Spec /\ []NoLeftover => []OnlyForeground
<1>1. Init => NoneYet /\ OnlyForeground
  BY DEF Init, NoneYet, OnlyForeground
<1>2. ASSUME Inv, NoLeftover, NoneYet /\ OnlyForeground, [Next]_vars
      PROVE  (NoneYet /\ OnlyForeground)'
  BY <1>2, NoneYetStep, OnlyForegroundStep
<1> QED BY Invariance, <1>1, <1>2, PTL DEF Spec

(* A job leaves the list only after its process was reaped. *)
THEOREM RemovalAfterReaping == Spec => RemovedOnlyIfReaped
<1>1. ASSUME Inv, [Next]_vars
      PROVE  [\A p \in Listed(jobs) \ Listed(jobs') : proc[p] = "reaped"]_vars
  BY <1>1, ListedShrinks DEF Inv
<1> QED BY Invariance, <1>1, PTL DEF Spec, RemovedOnlyIfReaped

-----------------------------------------------------------------------------
(***************************************************************************)
(* What sigchld_handler promises, when nothing can stop a child: neither   *)
(* ctrl-z nor a program that stops itself.  Where something can,           *)
(* ChildUnknown breaks the promise.                                        *)
(***************************************************************************)
NothingStops == "TSTP" \notin Keyboard /\ "stop" \notin Programs

(* So no child is stopped, no ctrl-z is under way, and no handler has a    *)
(* stopped child to report.                                                *)
NoneStopped ==
  /\ \A p \in Pids : proc[p] \notin {"stopped", "told"}
  /\ "TSTP" \notin pending /\ target["TSTP"] = 0
  /\ ~ chld.stopped

(* Only a child's end, a key and the kernel touch the pending signals; a   *)
(* process becomes a zombie only together with a SIGCHLD.                  *)
LEMMA PendingStep ==
  ASSUME TypeOK, [Next]_vars
  PROVE  /\ pending' \subseteq pending \union {"CHLD"} \union Keyboard
         /\ \/ "CHLD" \in pending' \/ SigchldEnter
            \/ /\ "CHLD" \notin pending
               /\ \A p \in Pids : proc'[p] \in Zombie => proc[p] \in Zombie
<1> DEFINE Goal ==
      /\ pending' \subseteq pending \union {"CHLD"} \union Keyboard
      /\ \/ "CHLD" \in pending' \/ SigchldEnter
         \/ /\ "CHLD" \notin pending
            /\ \A p \in Pids : proc'[p] \in Zombie => proc[p] \in Zombie
           Sent == pending' = pending \union {"CHLD"}
           Calm == /\ pending' \subseteq pending \union Keyboard
                   /\ "CHLD" \in pending => "CHLD" \in pending'
                   /\ \A p \in Pids : proc'[p] \in Zombie => proc[p] \in Zombie
<1> SUFFICES Goal
  OBVIOUS
<1>0. proc \in [Pids -> Phases]
  BY DEF TypeOK
<1>a. Sent => Goal
  OBVIOUS
<1>b. Calm => Goal
  OBVIOUS
<1>c. SigchldEnter => Goal
  BY DEF SigchldEnter, Delivered
<1> HIDE DEF Goal
<1>1. CASE UNCHANGED vars \/ Exited
  <2>1. Calm
    BY <1>1 DEF vars, Exited, children
  <2> QED BY <2>1, <1>b
<1>2. CASE MainStep
  <2>1. CASE Kill
    <3>1. Sent \/ UNCHANGED <<children, pending>>
      BY <2>1 DEF Kill, Continue, Becomes
    <3> QED BY <3>1, <1>a, <1>b DEF children
  <2>2. CASE ~ Kill
    <3>1. UNCHANGED <<proc, pending>>
      BY <1>2, <2>2 DEF MainStep, AddPid, AddFails, AddState, AddLoad, AddJid,
         AddNext, Unblock, KillArg, KillFails, SetState, WaitArg, WaitfgFind,
         WaitfgSleep, WaitfgReturn, Exit, vars, children
    <3> QED BY <3>1, <1>b
  <2> QED BY <2>1, <2>2
<1>3. CASE Command
  <2>1. CASE \E bg \in BOOLEAN : Fork(bg)
    <3>1. Calm
      BY <1>0, <2>1 DEF Fork, Zombie
    <3> QED BY <3>1, <1>b
  <2>2. CASE ~ \E bg \in BOOLEAN : Fork(bg)
    <3>1. UNCHANGED <<proc, pending>>
      BY <1>3, <2>2 DEF Command, ReadEof, Quit, ForkFails, BgFg, Exit, children
    <3> QED BY <3>1, <1>b
  <2> QED BY <2>1, <2>2
<1>4. CASE SigchldStep
  <2>1. CASE \E p \in Pids : Waitpid(p)
    <3>1. Calm
      BY <1>0, <2>1 DEF Waitpid, Zombie
    <3> QED BY <3>1, <1>b
  <2>2. CASE WaitpidNone \/ ChildStopped \/ ChildUnknown \/ ChildGone
    <3>1. UNCHANGED <<proc, pending>>
      BY <2>2 DEF WaitpidNone, ChildStopped, ChildUnknown, ChildGone, SigchldReturn, children
    <3> QED BY <3>1, <1>b
  <2> QED BY <1>4, <2>1, <2>2, <1>c DEF SigchldStep
<1>5. CASE KeyStep
  <2>1. ASSUME NEW sig \in {"INT", "TSTP"}, KeyEnter(sig)
        PROVE  Goal
    <3>1. Calm
      BY <2>1 DEF KeyEnter, Delivered, children
    <3> QED BY <3>1, <1>b
  <2>2. ASSUME NEW sig \in {"INT", "TSTP"}, KeyForward(sig)
        PROVE  Goal
    <3>1. Sent \/ UNCHANGED <<proc, pending>>
      BY <2>2 DEF KeyForward, Interrupt, Suspend, Becomes, children
    <3> QED BY <3>1, <1>a, <1>b
  <2>3. ASSUME (\E sig \in {"INT", "TSTP"} : KeyFails(sig)) \/ SigquitHandler
        PROVE  Goal
    <3>1. UNCHANGED <<proc, pending>>
      BY <2>3 DEF KeyFails, SigquitHandler, Exit, children
    <3> QED BY <3>1, <1>b
  <2> QED BY <1>5, <2>1, <2>2, <2>3 DEF KeyStep
<1>6. CASE \E p \in Pids : ChildStep(p)
  <2>1. PICK p \in Pids : ChildStep(p)
    BY <1>6
  <2>2. CASE Setpgrp(p) \/ Exec(p)
    <3>1. Calm
      BY <1>0, <2>2 DEF Setpgrp, Exec, Zombie
    <3> QED BY <3>1, <1>b
  <2>3. CASE ExecFails(p) \/ ProgramStep(p)
    <3>1. Sent
      BY <2>3 DEF ExecFails, ProgramStep, Becomes
    <3> QED BY <3>1, <1>a
  <2> QED BY <2>1, <2>2, <2>3 DEF ChildStep
<1>7. CASE \E sig \in Keyboard : Press(sig)
  <2>1. Calm
    BY <1>7 DEF Press, children
  <2> QED BY <2>1, <1>b
<1> QED BY <1>1, <1>2, <1>3, <1>4, <1>5, <1>6, <1>7 DEF Next

(* Nothing stops a child, and no step that could have stopped one is taken. *)
LEMMA NoneStoppedStep ==
  ASSUME NothingStops, TypeOK, StackOK, NoneStopped, [Next]_vars
  PROVE  NoneStopped'
<1>0. /\ proc \in [Pids -> Phases] /\ target \in [{"INT", "TSTP"} -> Pids0]
      /\ \A p \in Pids : proc[p] \notin {"stopped", "told"}
      /\ "TSTP" \notin pending /\ target["TSTP"] = 0 /\ ~ chld.stopped
  BY DEF TypeOK, NoneStopped
<1>1. ~ \E sig \in {"TSTP"} : KeyEnter(sig) \/ KeyForward(sig)
  <2>1. ~ KeyEnter("TSTP")
    BY <1>0 DEF KeyEnter, Delivered
  <2>2. ~ KeyForward("TSTP")
    <3>1. ~ On("TSTP")
      BY <1>0 DEF StackOK
    <3> QED BY <3>1, TopIsOn DEF KeyForward
  <2> QED BY <2>1, <2>2
<1>2. \A p \in Pids : proc'[p] \notin {"stopped", "told"}
  <2>1. CASE proc' = proc
    BY <1>0, <2>1
  <2>2. CASE \E bg \in BOOLEAN : Fork(bg)
    BY <1>0, <2>2 DEF Fork
  <2>3. CASE Kill
    <3>1. \/ proc' = proc
          \/ \E phase \in {"killed", "running"} :
               proc' = [proc EXCEPT ![cmd.pid] = phase]
      BY <2>3, Zenon DEF Kill, Continue, Becomes, children
    <3> QED BY <1>0, <3>1
  <2>4. CASE \E q \in Pids : Waitpid(q)
    BY <1>0, <2>4 DEF Waitpid
  <2>5. CASE \E sig \in {"INT", "TSTP"} : KeyForward(sig)
    <3>1. KeyForward("INT")
      BY <1>1, <2>5
    <3>2. \/ proc' = proc
          \/ proc' = [proc EXCEPT ![target["INT"]] = "killed"]
      BY <3>1 DEF KeyForward, Interrupt, Becomes, children
    <3> QED BY <1>0, <3>2
  <2>6. CASE \E q \in Pids : ChildStep(q)
    <3>1. PICK q \in Pids : ChildStep(q)
      BY <2>6
    <3>2. CASE Setpgrp(q) \/ Exec(q) \/ ExecFails(q)
      BY <1>0, <3>2 DEF Setpgrp, Exec, ExecFails, Becomes
    <3>3. CASE ProgramStep(q)
      <4>1. PICK what \in Programs : proc' = [proc EXCEPT ![q] = Outcome[what]]
        BY <3>3 DEF ProgramStep, Becomes
      <4>2. Outcome[what] \in {"exited", "killed"}
        BY ProgramsAssumption DEF Outcome, NothingStops
      <4> QED BY <1>0, <4>1, <4>2
    <3> QED BY <3>1, <3>2, <3>3 DEF ChildStep
  <2> QED BY <2>1, <2>2, <2>3, <2>4, <2>5, <2>6, Frames DEF ProcessStep, children
<1>3. "TSTP" \notin pending'
  <2>1. pending' \subseteq pending \union {"CHLD"} \union Keyboard
    BY PendingStep
  <2> QED BY <1>0, <2>1 DEF NothingStops
<1>4. target'["TSTP"] = 0
  <2>1. target' = target \/ \E v : target' = [target EXCEPT !["INT"] = v]
    BY <1>1, Frames DEF HandlerStep, SigchldStep, SigchldEnter, WaitpidNone, Waitpid,
       ChildStopped, ChildUnknown, ChildGone, SigchldReturn, KeyEnter, KeyForward, handlers
  <2> QED BY <1>0, <2>1
<1>5. ~ chld'.stopped
  <2>1. \/ UNCHANGED chld \/ \E p \in Pids : Waitpid(p)
        \/ chld' = Wait \/ chld' = Idle
    BY Frames DEF HandlerStep, SigchldStep, SigchldEnter, WaitpidNone,
       ChildStopped, ChildUnknown, ChildGone, SigchldReturn, KeyEnter,
       KeyForward, handlers
  <2>2. ASSUME NEW p \in Pids, Waitpid(p)
        PROVE  ~ chld'.stopped
    BY <1>0, <2>2 DEF Waitpid
  <2> QED BY <1>0, <2>1, <2>2 DEF Wait, Idle
<1> QED BY <1>2, <1>3, <1>4, <1>5 DEF NoneStopped

(* A child that becomes a zombie has a SIGCHLD sent, the SIGCHLD that      *)
(* starts the handler, and the handler goes on until no zombie is left.    *)
LEMMA NoticedStep ==
  ASSUME TypeOK, NoneStopped, ZombiesAreNoticed, [Next]_vars
  PROVE  ZombiesAreNoticed'
<1>0. proc \in [Pids -> Phases]
  BY DEF TypeOK
<1>1. \/ "CHLD" \in pending' \/ SigchldEnter
      \/ /\ "CHLD" \notin pending
         /\ \A p \in Pids : proc'[p] \in Zombie => proc[p] \in Zombie
  BY PendingStep
<1>2. CASE "CHLD" \in pending'
  BY <1>2 DEF ZombiesAreNoticed
<1>3. CASE SigchldEnter
  BY <1>3 DEF SigchldEnter, Wait, ZombiesAreNoticed
<1>4. CASE /\ "CHLD" \notin pending
           /\ \A p \in Pids : proc'[p] \in Zombie => proc[p] \in Zombie
  <2> SUFFICES ASSUME NEW p \in Pids, proc'[p] \in Zombie
               PROVE  chld'.pc # "idle"
    BY DEF ZombiesAreNoticed
  <2>1. proc[p] \in Zombie /\ chld.pc # "idle"
    BY <1>4 DEF ZombiesAreNoticed
  <2>2. ~ WaitpidNone
    BY <2>1 DEF WaitpidNone
  <2>3. ~ ChildUnknown
    BY DEF ChildUnknown, NoneStopped
  <2>4. \/ UNCHANGED chld \/ \E q \in Pids : Waitpid(q) \/ chld' = Wait
    BY <2>2, <2>3, Frames DEF HandlerStep, SigchldStep, SigchldEnter, ChildStopped,
       ChildGone, KeyEnter, KeyForward, handlers
  <2> QED BY <2>1, <2>4 DEF Waitpid, Wait
<1> QED BY <1>1, <1>2, <1>3, <1>4

(* "The handler reaps all available zombie children" (tsh.c:472) holds     *)
(* wherever no child can stop: a zombie always has a SIGCHLD pending or a  *)
(* handler at work, however many children end at once.                     *)
THEOREM ZombiesNoticed == NothingStops => (Spec => []ZombiesAreNoticed)
<1> SUFFICES ASSUME NothingStops
             PROVE  Spec => []ZombiesAreNoticed
  OBVIOUS
<1> DEFINE I == Inv /\ NoneStopped /\ ZombiesAreNoticed
<1>1. Init => NoneStopped /\ ZombiesAreNoticed
  BY DEF Init, NoneStopped, ZombiesAreNoticed, Idle, Zombie
<1>2. ASSUME Inv, NoneStopped, ZombiesAreNoticed, [Next]_vars
      PROVE  NoneStopped' /\ ZombiesAreNoticed'
  BY <1>2, NoneStoppedStep, NoticedStep DEF Inv
<1> QED BY Invariance, <1>1, <1>2, PTL DEF Spec

=============================================================================
