------------------------------- MODULE Bank -------------------------------
(***************************************************************************)
(* The bank simulation of lab5:banksim/banksim.c: teller threads that take *)
(* customers from a queue, a thread that generates the customers, and main *)
(* which waits for all of them.                                            *)
(*                                                                         *)
(* The tellers read the queue and count customersServiced under a mutex,   *)
(* but each of them sets customersServiced to 0 as it starts without it,   *)
(* and the generator writes the queue without it.  One access to shared    *)
(* memory is one step.  The random service times and chances are choices.  *)
(* The memory of the queue is zero although memset clears only its first   *)
(* int: malloc maps fresh pages for a block of this size.                  *)
(*                                                                         *)
(* An access outside the memory of the queue is undefined behaviour: the   *)
(* program may do anything from then on, and the model stops.              *)
(***************************************************************************)
EXTENDS Naturals

CONSTANTS
  Tellers,      \* the teller threads
  MaxTime,      \* maxTime * 60: the seconds the simulation runs
  Allocated,    \* ints in the first allocation of the queue (100000)
  QueueLength,  \* the initial queueLength of the generator (10000)
  Block         \* ints asked of realloc, and added to queueLength (1000)

ASSUME NatAssumption ==
  /\ MaxTime \in Nat
  /\ {Allocated, QueueLength, Block} \subseteq Nat \ {0}
ASSUME SizeAssumption == Block <= Allocated /\ QueueLength <= Allocated + 1

None == "none"

ASSUME TellersAssumption == None \notin Tellers

VARIABLES
  queue,                \* the ints of the queue, 0 when empty
  size,                 \* how many of them are allocated
  customersServiced,
  endSimulation,
  mut,                  \* the teller that holds the mutex, or None
  pc,                   \* where each teller is
  reg,                  \* customersServiced as a teller last loaded it
  generator,            \* the locals of generateCustomers
  joined,               \* main has joined every thread
  undefined,            \* memory outside the queue was accessed
  taken,                \* history: how often each customer was taken
  late                  \* history: a teller started after the first was taken

queueVars == <<queue, size>>
history == <<taken, late>>
vars == <<queueVars, customersServiced, endSimulation, mut, pc, reg, generator,
          joined, undefined, history>>

(***************************************************************************)
(* At most one customer arrives each second.                               *)
(***************************************************************************)
Customers == 1 .. MaxTime
Places == 0 .. Allocated

TellerPCs == {"start", "test", "lock", "check", "load", "store", "unlock",
              "serve", "sleep", "done"}

Locals == [secondsElapsed : 0 .. MaxTime, customerNumber : 1 .. MaxTime + 1,
           queueLength : Nat, done : BOOLEAN]

TypeOK ==
  /\ queue \in [Places -> {0} \union Customers]
  /\ size \in 0 .. Allocated
  /\ customersServiced \in Nat
  /\ endSimulation \in BOOLEAN
  /\ mut \in Tellers \union {None}
  /\ pc \in [Tellers -> TellerPCs]
  /\ reg \in [Tellers -> Nat]
  /\ generator \in Locals
  /\ joined \in BOOLEAN
  /\ undefined \in BOOLEAN
  /\ taken \in [Customers -> Nat]
  /\ late \in BOOLEAN

Init ==
  /\ queue = [i \in Places |-> 0]
  /\ size = Allocated
  /\ customersServiced = 0
  /\ endSimulation = FALSE
  /\ mut = None
  /\ pc = [t \in Tellers |-> "start"]
  /\ reg = [t \in Tellers |-> 0]
  /\ generator = [secondsElapsed |-> 0, customerNumber |-> 1,
                  queueLength |-> QueueLength, done |-> FALSE]
  /\ joined = FALSE
  /\ undefined = FALSE
  /\ taken = [c \in Customers |-> 0]
  /\ late = FALSE

-----------------------------------------------------------------------------
(***************************************************************************)
(* serviceCustomer                                                         *)
(***************************************************************************)
Move(t, from, to) ==
  /\ ~undefined
  /\ pc[t] = from
  /\ pc' = [pc EXCEPT ![t] = to]

Start(t) ==
  /\ Move(t, "start", "test")
  /\ customersServiced' = 0
  /\ late' = (late \/ \E c \in Customers : taken[c] > 0)
  /\ UNCHANGED <<queueVars, endSimulation, mut, reg, generator, joined,
                 undefined, taken>>

Test(t) ==
  /\ Move(t, "test", IF endSimulation THEN "done" ELSE "lock")
  /\ UNCHANGED <<queueVars, customersServiced, endSimulation, mut, reg,
                 generator, joined, undefined, history>>

(* Mutant: the mutex is not waited for. *)
LockAnyway(t) ==
  /\ Move(t, "lock", "check")
  /\ mut' = t
  /\ UNCHANGED <<queueVars, customersServiced, endSimulation, reg, generator,
                 joined, undefined, history>>

Lock(t) ==
  /\ mut = None
  /\ Move(t, "lock", "check")
  /\ mut' = t
  /\ UNCHANGED <<queueVars, customersServiced, endSimulation, reg, generator,
                 joined, undefined, history>>

(* Mutant: a place that is still 0 counts as a customer. *)
CheckOrZero(t) ==
  /\ customersServiced < size
  /\ Move(t, "check", IF queue[customersServiced] >= 0 THEN "load" ELSE "unlock")
  /\ UNCHANGED <<queueVars, customersServiced, endSimulation, mut, reg,
                 generator, joined, undefined, history>>

Check(t) ==
  /\ customersServiced < size
  /\ Move(t, "check", IF queue[customersServiced] > 0 THEN "load" ELSE "unlock")
  /\ UNCHANGED <<queueVars, customersServiced, endSimulation, mut, reg,
                 generator, joined, undefined, history>>

CheckOutside(t) ==
  /\ pc[t] = "check"
  /\ ~undefined
  /\ customersServiced >= size
  /\ undefined' = TRUE
  /\ UNCHANGED <<queueVars, customersServiced, endSimulation, mut, pc, reg,
                 generator, joined, history>>

(* customersServiced += 1 is a load and a store. *)
Load(t) ==
  /\ Move(t, "load", "store")
  /\ reg' = [reg EXCEPT ![t] = customersServiced]
  /\ UNCHANGED <<queueVars, customersServiced, endSimulation, mut, generator,
                 joined, undefined, history>>

Store(t) ==
  /\ Move(t, "store", "serve")
  /\ customersServiced' = reg[t] + 1
  /\ taken' = [taken EXCEPT ![reg[t] + 1] = @ + 1]
  /\ UNCHANGED <<queueVars, endSimulation, mut, reg, generator, joined,
                 undefined, late>>

(* The teller with a customer sleeps for the service time. *)
Serve(t) ==
  /\ Move(t, "serve", "sleep")
  /\ mut' = None
  /\ UNCHANGED <<queueVars, customersServiced, endSimulation, reg, generator,
                 joined, undefined, history>>

Wake(t) ==
  /\ Move(t, "sleep", "test")
  /\ UNCHANGED <<queueVars, customersServiced, endSimulation, mut, reg,
                 generator, joined, undefined, history>>

Unlock(t) ==
  /\ Move(t, "unlock", "test")
  /\ mut' = None
  /\ UNCHANGED <<queueVars, customersServiced, endSimulation, reg, generator,
                 joined, undefined, history>>

-----------------------------------------------------------------------------
(***************************************************************************)
(* generateCustomers: each second a customer may arrive.                   *)
(***************************************************************************)
(* Mutant: the last second is counted twice. *)
SecondInclusive ==
  /\ ~undefined
  /\ ~generator.done
  /\ generator.secondsElapsed <= MaxTime

Second ==
  /\ ~undefined
  /\ ~generator.done
  /\ generator.secondsElapsed < MaxTime

NoCustomer ==
  /\ Second
  /\ generator' = [generator EXCEPT !.secondsElapsed = @ + 1]
  /\ UNCHANGED <<queueVars, customersServiced, endSimulation, mut, pc, reg,
                 joined, undefined, history>>

Place == generator.customerNumber - 1

Room == generator.queueLength > generator.customerNumber

(* Mutant: the first place is skipped. *)
CustomerFromOne ==
  /\ Second
  /\ Room /\ Place + 1 < size
  /\ queue' = [queue EXCEPT ![Place + 1] = generator.customerNumber]
  /\ generator' = [generator EXCEPT !.secondsElapsed = @ + 1,
                                    !.customerNumber = @ + 1]
  /\ UNCHANGED <<size, customersServiced, endSimulation, mut, pc, reg, joined,
                 undefined, history>>

Customer ==
  /\ Second
  /\ Room /\ Place < size
  /\ queue' = [queue EXCEPT ![Place] = generator.customerNumber]
  /\ generator' = [generator EXCEPT !.secondsElapsed = @ + 1,
                                    !.customerNumber = @ + 1]
  /\ UNCHANGED <<size, customersServiced, endSimulation, mut, pc, reg, joined,
                 undefined, history>>

CustomerOutside ==
  /\ Second
  /\ Room /\ Place >= size
  /\ undefined' = TRUE
  /\ UNCHANGED <<queueVars, customersServiced, endSimulation, mut, pc, reg,
                 generator, joined, history>>

(***************************************************************************)
(* The customer that finds no room is dropped, and realloc leaves Block    *)
(* ints.  If realloc fails the queue is freed, and the threads go on.      *)
(***************************************************************************)
Realloc ==
  /\ Second
  /\ ~Room
  /\ size' \in {Block, 0}
  /\ queue' = [i \in Places |-> IF i < size' THEN queue[i] ELSE 0]
  /\ generator' = [generator EXCEPT !.secondsElapsed = @ + 1,
                                    !.queueLength = @ + Block]
  /\ UNCHANGED <<customersServiced, endSimulation, mut, pc, reg, joined,
                 undefined, history>>

(* Mutant: the generator returns without telling the tellers. *)
EndSilently ==
  /\ ~undefined
  /\ ~generator.done
  /\ generator.secondsElapsed >= MaxTime
  /\ generator' = [generator EXCEPT !.done = TRUE]
  /\ UNCHANGED <<queueVars, customersServiced, endSimulation, mut, pc, reg,
                 joined, undefined, history>>

End ==
  /\ ~undefined
  /\ ~generator.done
  /\ generator.secondsElapsed >= MaxTime
  /\ endSimulation' = TRUE
  /\ generator' = [generator EXCEPT !.done = TRUE]
  /\ UNCHANGED <<queueVars, customersServiced, mut, pc, reg, joined, undefined,
                 history>>

-----------------------------------------------------------------------------
(* main joins the tellers and the generator, prints and exits. *)
Join ==
  /\ ~undefined
  /\ ~joined
  /\ generator.done
  /\ \A t \in Tellers : pc[t] = "done"
  /\ joined' = TRUE
  /\ UNCHANGED <<queueVars, customersServiced, endSimulation, mut, pc, reg,
                 generator, undefined, history>>

Finished == (joined \/ undefined) /\ UNCHANGED vars

Teller(t) ==
  \/ Start(t) \/ Test(t) \/ Lock(t) \/ Check(t) \/ CheckOutside(t)
  \/ Load(t) \/ Store(t) \/ Serve(t) \/ Wake(t) \/ Unlock(t)

Generator == NoCustomer \/ Customer \/ CustomerOutside \/ Realloc \/ End

Next == (\E t \in Tellers : Teller(t)) \/ Generator \/ Join \/ Finished

Spec == Init /\ [][Next]_vars

(***************************************************************************)
(* The scheduler runs every thread again and again; a mutex may pass a     *)
(* waiting teller over for ever as long as others take it.                 *)
(***************************************************************************)
Fairness ==
  /\ \A t \in Tellers : WF_vars(Teller(t))
  /\ WF_vars(Generator)
  /\ WF_vars(Join)

FairSpec == Spec /\ Fairness

-----------------------------------------------------------------------------
(* The number the generator prints as the queue's length is not negative:  *)
(* no teller counts a customer that has not arrived, although the          *)
(* generator reads customersServiced and writes the queue without the      *)
(* mutex.                                                                  *)
QueueLengthNotNegative == customersServiced <= Place

(* A place of the queue holds the customer of its own number once that     *)
(* customer has arrived, and nothing before: while no realloc shrank it.   *)
QueueInOrder ==
  \A i \in Places : i < size =>
    queue[i] = IF i < Place THEN i + 1 ELSE 0

(* "only one thread takes a customer at a time": every customer up to      *)
(* customersServiced was taken exactly once and no other, provided that    *)
(* every teller started before the first customer was taken.               *)
TakenOnceUnlessLate ==
  ~late => \A c \in Customers :
    taken[c] = IF c <= customersServiced THEN 1 ELSE 0

(* The simulation ends once its time is over, or leaves defined behaviour. *)
Terminates == <>(joined \/ undefined)

=============================================================================
