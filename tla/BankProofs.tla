----------------------------- MODULE BankProofs -----------------------------
(***************************************************************************)
(* What the bank simulation guarantees for every number of tellers, every  *)
(* duration and every size of the queue.                                   *)
(***************************************************************************)
EXTENDS Bank, TLAPS

-----------------------------------------------------------------------------
(***************************************************************************)
(* The inductive invariant.                                                *)
(***************************************************************************)
Critical == {"check", "load", "store", "serve", "unlock"}

(* Exactly the teller inside the critical section holds the mutex. *)
MutexOK == \A t \in Tellers : pc[t] \in Critical <=> mut = t

(* A customer takes a second, and no customer is numbered beyond the room. *)
GeneratorOK ==
  /\ Place <= generator.secondsElapsed
  /\ generator.customerNumber <= generator.queueLength

(* Only a failed realloc leaves less than Block, and then the next access  *)
(* of the generator comes before its next realloc.                         *)
SizeOK == size = 0 \/ size >= Block
FreedOK == size = 0 => Room

(* A teller that saw a customer still has one to take, and what it loaded  *)
(* is what it will replace as long as no teller starts late.               *)
LoadOK == \A t \in Tellers : pc[t] = "load" => Place >= 1 /\ customersServiced + 1 <= Place
StoreOK ==
  \A t \in Tellers : pc[t] = "store" =>
    /\ reg[t] + 1 <= Place
    /\ ~late => reg[t] = customersServiced

Inv ==
  /\ TypeOK /\ MutexOK /\ GeneratorOK /\ SizeOK /\ FreedOK
  /\ LoadOK /\ StoreOK
  /\ QueueLengthNotNegative /\ QueueInOrder /\ TakenOnceUnlessLate

LEMMA InitInv == Init => Inv
<1> SUFFICES ASSUME Init PROVE Inv
  OBVIOUS
<1> USE NatAssumption, SizeAssumption
<1>1. TypeOK
  <2>1. generator \in Locals
    BY DEF Init, Locals
  <2>2. pc \in [Tellers -> TellerPCs]
    BY DEF Init, TellerPCs
  <2>3. queue \in [Places -> {0} \union Customers] /\ taken \in [Customers -> Nat]
    BY DEF Init
  <2>4. size \in 0 .. Allocated /\ reg \in [Tellers -> Nat]
    BY DEF Init
  <2> QED BY <2>1, <2>2, <2>3, <2>4 DEF Init, TypeOK
<1>2. MutexOK
  BY TellersAssumption DEF Init, MutexOK, Critical
<1>3. GeneratorOK /\ SizeOK /\ FreedOK
  BY DEF Init, GeneratorOK, SizeOK, FreedOK, Place
<1>4. LoadOK /\ StoreOK
  BY DEF Init, LoadOK, StoreOK
<1>5. QueueLengthNotNegative /\ QueueInOrder
  BY DEF Init, QueueLengthNotNegative, QueueInOrder, Place, Places
<1>6. TakenOnceUnlessLate
  BY DEF Init, TakenOnceUnlessLate, Customers
<1> QED BY <1>1, <1>2, <1>3, <1>4, <1>5, <1>6 DEF Inv

-----------------------------------------------------------------------------
(***************************************************************************)
(* The steps of a teller.                                                  *)
(***************************************************************************)
(* What a step keeps that leaves the queue and the generator alone.        *)
LEMMA QueueKept ==
  ASSUME Inv, UNCHANGED <<queueVars, generator>>
  PROVE  GeneratorOK' /\ SizeOK' /\ FreedOK' /\ QueueInOrder' /\ Place' = Place
BY DEF Inv, GeneratorOK, SizeOK, FreedOK, QueueInOrder, Place, Room, queueVars

(* A step of a teller between two places outside the critical section, or  *)
(* between two places inside, keeps the mutex as it is.                    *)
LEMMA MutexKept ==
  ASSUME Inv, NEW t \in Tellers, NEW to \in TellerPCs,
         pc[t] \in Critical <=> to \in Critical,
         pc' = [pc EXCEPT ![t] = to], mut' = mut
  PROVE  MutexOK' /\ pc' \in [Tellers -> TellerPCs]
BY DEF Inv, MutexOK, TypeOK

(* A teller that leaves the critical section gives up the mutex. *)
LEMMA MutexReleased ==
  ASSUME Inv, NEW t \in Tellers, NEW to \in TellerPCs \ Critical,
         pc[t] \in Critical, pc' = [pc EXCEPT ![t] = to], mut' = None
  PROVE  MutexOK' /\ pc' \in [Tellers -> TellerPCs]
BY TellersAssumption DEF Inv, MutexOK, TypeOK

(* A step that neither counts nor takes a customer, and puts no teller     *)
(* before a load or a store, keeps what relates them.                      *)
LEMMA CountKept ==
  ASSUME Inv, NEW t \in Tellers, NEW to \in TellerPCs \ {"load", "store"},
         pc' = [pc EXCEPT ![t] = to],
         UNCHANGED <<queueVars, generator, customersServiced, reg, history>>
  PROVE  LoadOK' /\ StoreOK' /\ QueueLengthNotNegative' /\ TakenOnceUnlessLate'
<1>1. Place' = Place
  BY QueueKept
<1>2. \A u \in Tellers : pc'[u] \in {"load", "store"} => pc'[u] = pc[u]
  BY DEF Inv, TypeOK
<1> QED BY <1>1, <1>2 DEF Inv, LoadOK, StoreOK, QueueLengthNotNegative,
                          TakenOnceUnlessLate, history

LEMMA StartInv == ASSUME Inv, NEW t \in Tellers, Start(t) PROVE Inv'
<1>0. /\ pc[t] = "start" /\ pc' = [pc EXCEPT ![t] = "test"]
      /\ customersServiced' = 0 /\ mut' = mut /\ reg' = reg /\ taken' = taken
      /\ late' = (late \/ \E c \in Customers : taken[c] > 0)
      /\ UNCHANGED <<queueVars, generator, endSimulation, joined, undefined>>
  BY DEF Start, Move
<1>1. GeneratorOK' /\ SizeOK' /\ FreedOK' /\ QueueInOrder' /\ Place' = Place
  BY <1>0, QueueKept
<1>2. MutexOK' /\ pc' \in [Tellers -> TellerPCs]
  BY <1>0, MutexKept DEF Critical, TellerPCs
<1>3. TypeOK'
  BY <1>0, <1>2 DEF Inv, TypeOK, queueVars
<1>4. Place \in Nat /\ customersServiced \in Nat /\ Place <= MaxTime
  BY NatAssumption DEF Inv, TypeOK, Locals, Place
<1>5. \A u \in Tellers : pc'[u] \in {"load", "store"} => pc'[u] = pc[u]
  BY <1>0 DEF Inv, TypeOK
<1>6. LoadOK'
  BY <1>0, <1>1, <1>4, <1>5 DEF Inv, LoadOK
<1>7. ~late' => \A c \in Customers : taken[c] = 0
  <2>1. ~late' => \A c \in Customers : ~(taken[c] > 0)
    BY <1>0
  <2>2. \A c \in Customers : taken[c] \in Nat
    BY DEF Inv, TypeOK
  <2> QED BY <2>1, <2>2
<1>8. ~late' => ~late
  BY <1>0
<1>9. ~late' => customersServiced = 0
  <2> SUFFICES ASSUME ~late', customersServiced # 0 PROVE FALSE
    OBVIOUS
  <2>1. customersServiced \in Customers
    BY <1>4, NatAssumption DEF Inv, QueueLengthNotNegative, Customers
  <2>2. taken[customersServiced] = 1
    BY <1>4, <1>8, <2>1 DEF Inv, TakenOnceUnlessLate
  <2> QED BY <1>7, <2>1, <2>2
<1>10. StoreOK'
  BY <1>0, <1>1, <1>5, <1>8, <1>9 DEF Inv, StoreOK
<1>11. QueueLengthNotNegative'
  BY <1>0, <1>1, <1>4 DEF QueueLengthNotNegative
<1>12. TakenOnceUnlessLate'
  BY <1>0, <1>7 DEF TakenOnceUnlessLate, Customers
<1> QED BY <1>1, <1>2, <1>3, <1>6, <1>10, <1>11, <1>12 DEF Inv

(* Test, Check into "unlock", Wake, Serve and Unlock only move a teller.   *)
LEMMA MoveInv ==
  ASSUME Inv, NEW t \in Tellers, NEW to \in TellerPCs \ {"load", "store"},
         pc' = [pc EXCEPT ![t] = to],
         \/ mut' = mut /\ (pc[t] \in Critical <=> to \in Critical)
         \/ mut' = None /\ pc[t] \in Critical /\ to \notin Critical,
         UNCHANGED <<queueVars, customersServiced, endSimulation, reg,
                     generator, joined, undefined, history>>
  PROVE  Inv'
<1>1. GeneratorOK' /\ SizeOK' /\ FreedOK' /\ QueueInOrder'
  BY QueueKept
<1>2. MutexOK' /\ pc' \in [Tellers -> TellerPCs]
  <2>1. CASE mut' = mut /\ (pc[t] \in Critical <=> to \in Critical)
    BY <2>1, MutexKept
  <2>2. CASE mut' = None /\ pc[t] \in Critical /\ to \notin Critical
    BY <2>2, MutexReleased
  <2> QED BY <2>1, <2>2
<1>3. LoadOK' /\ StoreOK' /\ QueueLengthNotNegative' /\ TakenOnceUnlessLate'
  BY CountKept
<1>4. mut' \in Tellers \union {None}
  BY DEF Inv, TypeOK
<1>5. TypeOK'
  BY <1>2, <1>4 DEF Inv, TypeOK, queueVars, history
<1> QED BY <1>1, <1>2, <1>3, <1>5 DEF Inv

LEMMA LockInv == ASSUME Inv, NEW t \in Tellers, Lock(t) PROVE Inv'
<1>0. /\ mut = None /\ mut' = t /\ pc[t] = "lock"
      /\ pc' = [pc EXCEPT ![t] = "check"]
      /\ UNCHANGED <<queueVars, customersServiced, endSimulation, reg,
                     generator, joined, undefined, history>>
  BY DEF Lock, Move
<1>1. GeneratorOK' /\ SizeOK' /\ FreedOK' /\ QueueInOrder'
  BY <1>0, QueueKept
<1>2. MutexOK'
  BY <1>0, TellersAssumption DEF Inv, MutexOK, TypeOK, Critical
<1>3. LoadOK' /\ StoreOK' /\ QueueLengthNotNegative' /\ TakenOnceUnlessLate'
  BY <1>0, CountKept DEF TellerPCs
<1>4. TypeOK'
  BY <1>0 DEF Inv, TypeOK, TellerPCs, queueVars, history
<1> QED BY <1>1, <1>2, <1>3, <1>4 DEF Inv

LEMMA CheckInv == ASSUME Inv, NEW t \in Tellers, Check(t) PROVE Inv'
<1>0. /\ customersServiced < size /\ pc[t] = "check" /\ mut' = mut
      /\ pc' = [pc EXCEPT ![t] = IF queue[customersServiced] > 0
                                 THEN "load" ELSE "unlock"]
      /\ UNCHANGED <<queueVars, customersServiced, endSimulation, reg,
                     generator, joined, undefined, history>>
  BY DEF Check, Move
<1>1. CASE queue[customersServiced] > 0
  <2>1. GeneratorOK' /\ SizeOK' /\ FreedOK' /\ QueueInOrder' /\ Place' = Place
    BY <1>0, QueueKept
  <2>2. MutexOK' /\ pc' \in [Tellers -> TellerPCs]
    BY <1>0, <1>1, MutexKept DEF Critical, TellerPCs
  <2>3. TypeOK'
    BY <1>0, <2>2 DEF Inv, TypeOK, queueVars, history
  <2>4. Place \in Nat /\ customersServiced \in Places
    BY <1>0, NatAssumption DEF Inv, TypeOK, Locals, Place, Places
  <2>5. customersServiced < Place
    BY <1>0, <1>1, <2>4 DEF Inv, QueueInOrder
  <2>6. \A u \in Tellers \ {t} : pc'[u] = pc[u]
    BY <1>0 DEF Inv, TypeOK
  <2>7. LoadOK'
    BY <1>0, <2>1, <2>4, <2>5 DEF LoadOK, Places
  <2>8. StoreOK'
    <3>1. pc'[t] = "load"
      BY <1>0, <1>1 DEF Inv, TypeOK
    <3> QED BY <1>0, <2>1, <2>6, <3>1 DEF Inv, StoreOK, history
  <2>9. QueueLengthNotNegative' /\ TakenOnceUnlessLate'
    BY <1>0, <2>1 DEF Inv, QueueLengthNotNegative, TakenOnceUnlessLate, history
  <2> QED BY <2>1, <2>2, <2>3, <2>7, <2>8, <2>9 DEF Inv
<1>2. CASE ~(queue[customersServiced] > 0)
  BY <1>0, <1>2, MoveInv DEF Critical, TellerPCs
<1> QED BY <1>1, <1>2

LEMMA LoadInv == ASSUME Inv, NEW t \in Tellers, Load(t) PROVE Inv'
<1>0. /\ pc[t] = "load" /\ pc' = [pc EXCEPT ![t] = "store"] /\ mut' = mut
      /\ reg' = [reg EXCEPT ![t] = customersServiced]
      /\ UNCHANGED <<queueVars, customersServiced, endSimulation, generator,
                     joined, undefined, history>>
  BY DEF Load, Move
<1>1. GeneratorOK' /\ SizeOK' /\ FreedOK' /\ QueueInOrder' /\ Place' = Place
  BY <1>0, QueueKept
<1>2. MutexOK' /\ pc' \in [Tellers -> TellerPCs]
  BY <1>0, MutexKept DEF Critical, TellerPCs
<1>3. TypeOK'
  BY <1>0, <1>2 DEF Inv, TypeOK, queueVars, history
<1>4. /\ pc'[t] = "store" /\ reg'[t] = customersServiced
      /\ \A u \in Tellers \ {t} : pc'[u] = pc[u] /\ reg'[u] = reg[u]
  BY <1>0 DEF Inv, TypeOK
<1>5. LoadOK'
  BY <1>0, <1>1, <1>4 DEF Inv, LoadOK
<1>6. customersServiced + 1 <= Place
  BY <1>0 DEF Inv, LoadOK
<1>7. StoreOK'
  BY <1>0, <1>1, <1>4, <1>6 DEF Inv, StoreOK, history
<1>8. QueueLengthNotNegative' /\ TakenOnceUnlessLate'
  BY <1>0, <1>1 DEF Inv, QueueLengthNotNegative, TakenOnceUnlessLate, history
<1> QED BY <1>1, <1>2, <1>3, <1>5, <1>7, <1>8 DEF Inv

LEMMA StoreInv == ASSUME Inv, NEW t \in Tellers, Store(t) PROVE Inv'
<1> DEFINE n == reg[t] + 1
<1>0. /\ pc[t] = "store" /\ pc' = [pc EXCEPT ![t] = "serve"] /\ mut' = mut
      /\ customersServiced' = n
      /\ taken' = [taken EXCEPT ![n] = @ + 1]
      /\ UNCHANGED <<queueVars, endSimulation, reg, generator, joined,
                     undefined, late>>
  BY DEF Store, Move
<1>1. GeneratorOK' /\ SizeOK' /\ FreedOK' /\ QueueInOrder' /\ Place' = Place
  BY <1>0, QueueKept
<1>2. MutexOK' /\ pc' \in [Tellers -> TellerPCs]
  BY <1>0, MutexKept DEF Critical, TellerPCs
<1>3. /\ Place \in Nat /\ Place <= MaxTime /\ reg[t] \in Nat
      /\ customersServiced \in Nat
  BY NatAssumption DEF Inv, TypeOK, Locals, Place
<1>4. n \in Customers /\ n <= Place
  BY <1>0, <1>3, NatAssumption DEF Inv, StoreOK, Customers
<1>5. TypeOK'
  BY <1>0, <1>2, <1>3, <1>4 DEF Inv, TypeOK, queueVars
<1>6. \A u \in Tellers : pc'[u] \notin {"load", "store"}
  BY <1>0 DEF Inv, TypeOK, MutexOK, Critical
<1>7. LoadOK' /\ StoreOK'
  BY <1>6 DEF LoadOK, StoreOK
<1>8. QueueLengthNotNegative'
  BY <1>0, <1>1, <1>4 DEF QueueLengthNotNegative
<1>9. TakenOnceUnlessLate'
  <2> SUFFICES ASSUME ~late, NEW c \in Customers
               PROVE  taken'[c] = IF c <= n THEN 1 ELSE 0
    BY <1>0 DEF TakenOnceUnlessLate
  <2>1. reg[t] = customersServiced
    BY <1>0 DEF Inv, StoreOK
  <2>2. taken[c] = IF c <= reg[t] THEN 1 ELSE 0
    BY <2>1 DEF Inv, TakenOnceUnlessLate
  <2>3. taken'[c] = IF c = n THEN taken[c] + 1 ELSE taken[c]
    BY <1>0, <1>4 DEF Inv, TypeOK
  <2> QED BY <1>3, <2>2, <2>3, NatAssumption DEF Customers
<1> QED BY <1>1, <1>2, <1>5, <1>7, <1>8, <1>9 DEF Inv

LEMMA TellerInv == ASSUME Inv, NEW t \in Tellers, Teller(t) PROVE Inv'
<1>1. CASE Test(t)
  BY <1>1, MoveInv DEF Test, Move, Critical, TellerPCs
<1>2. CASE Serve(t)
  BY <1>2, MoveInv DEF Serve, Move, Critical, TellerPCs
<1>3. CASE Wake(t)
  BY <1>3, MoveInv DEF Wake, Move, Critical, TellerPCs
<1>4. CASE Unlock(t)
  BY <1>4, MoveInv DEF Unlock, Move, Critical, TellerPCs
<1>5. CASE CheckOutside(t)
  <2>1. undefined' \in BOOLEAN /\ UNCHANGED <<queueVars, customersServiced,
            endSimulation, mut, pc, reg, generator, joined, history>>
    BY <1>5 DEF CheckOutside
  <2> QED
    BY <2>1 DEF Inv, TypeOK, MutexOK, GeneratorOK, SizeOK, FreedOK, LoadOK,
       StoreOK, QueueLengthNotNegative, QueueInOrder, TakenOnceUnlessLate,
       Place, Room, queueVars, history
<1> QED BY <1>1, <1>2, <1>3, <1>4, <1>5, StartInv, LockInv, CheckInv, LoadInv,
           StoreInv DEF Teller

-----------------------------------------------------------------------------
(***************************************************************************)
(* The steps of the generator, and of main.                                *)
(***************************************************************************)
(* The generator moves no teller: only the queue's own parts can change.   *)
LEMMA TellersKept ==
  ASSUME Inv, Place' \in Nat, Place <= Place',
         UNCHANGED <<customersServiced, mut, pc, reg, history>>
  PROVE  /\ MutexOK' /\ LoadOK' /\ StoreOK'
         /\ QueueLengthNotNegative' /\ TakenOnceUnlessLate'
<1>1. MutexOK' /\ TakenOnceUnlessLate'
  BY DEF Inv, MutexOK, TakenOnceUnlessLate, history
<1>2. Place \in Nat /\ customersServiced \in Nat /\ reg \in [Tellers -> Nat]
  BY DEF Inv, TypeOK, Locals, Place
<1>3. LoadOK' /\ StoreOK' /\ QueueLengthNotNegative'
  BY <1>2 DEF Inv, LoadOK, StoreOK, QueueLengthNotNegative, history
<1> QED BY <1>1, <1>3

LEMMA GeneratorType ==
  ASSUME Inv
  PROVE  /\ generator.secondsElapsed \in Nat /\ generator.queueLength \in Nat
         /\ generator.customerNumber \in Nat \ {0} /\ Place \in Nat
         /\ generator.customerNumber <= generator.secondsElapsed + 1
         /\ generator.customerNumber <= generator.queueLength
BY NatAssumption DEF Inv, TypeOK, Locals, Place, GeneratorOK

LEMMA NoCustomerInv == ASSUME Inv, NoCustomer PROVE Inv'
<1>0. /\ generator.secondsElapsed < MaxTime
      /\ generator' = [generator EXCEPT !.secondsElapsed = @ + 1]
      /\ UNCHANGED <<queueVars, customersServiced, endSimulation, mut, pc, reg,
                     joined, undefined, history>>
  BY DEF NoCustomer, Second
<1>1. /\ generator' \in Locals
      /\ generator'.secondsElapsed = generator.secondsElapsed + 1
      /\ generator'.customerNumber = generator.customerNumber
      /\ generator'.queueLength = generator.queueLength
  BY <1>0, NatAssumption DEF Inv, TypeOK, Locals
<1>2. Place' = Place /\ Room' = Room
  BY <1>1 DEF Place, Room
<1>3. TypeOK'
  BY <1>0, <1>1 DEF Inv, TypeOK, queueVars, history
<1>4. GeneratorOK' /\ SizeOK' /\ FreedOK' /\ QueueInOrder'
  BY <1>0, <1>1, <1>2, GeneratorType
     DEF Inv, GeneratorOK, SizeOK, FreedOK, QueueInOrder, queueVars
<1> QED BY <1>0, <1>2, <1>3, <1>4, TellersKept, GeneratorType DEF Inv

LEMMA CustomerInv == ASSUME Inv, Customer PROVE Inv'
<1>0. /\ generator.secondsElapsed < MaxTime
      /\ Room /\ Place < size
      /\ queue' = [queue EXCEPT ![Place] = generator.customerNumber]
      /\ generator' = [generator EXCEPT !.secondsElapsed = @ + 1,
                                        !.customerNumber = @ + 1]
      /\ UNCHANGED <<size, customersServiced, endSimulation, mut, pc, reg,
                     joined, undefined, history>>
  BY DEF Customer, Second
<1>1. /\ generator.customerNumber \in Customers
      /\ generator' \in Locals
      /\ generator'.secondsElapsed = generator.secondsElapsed + 1
      /\ generator'.customerNumber = generator.customerNumber + 1
      /\ generator'.queueLength = generator.queueLength
  <2>1. generator.customerNumber \in Customers
    BY <1>0, GeneratorType, NatAssumption DEF Customers
  <2>2. generator \in Locals
    BY DEF Inv, TypeOK
  <2>3. /\ generator.secondsElapsed + 1 \in 0 .. MaxTime
        /\ generator.customerNumber + 1 \in 1 .. MaxTime + 1
    BY <1>0, <2>1, GeneratorType, NatAssumption DEF Customers
  <2> QED BY <1>0, <2>1, <2>2, <2>3 DEF Locals
<1>2. Place' = Place + 1 /\ Place + 1 = generator.customerNumber
  BY <1>1, GeneratorType DEF Place
<1>3. Place \in Places /\ size \in Nat
  BY <1>0, GeneratorType, NatAssumption DEF Inv, TypeOK, Places
<1>4. queue' \in [Places -> {0} \union Customers]
  BY <1>0, <1>1, <1>3 DEF Inv, TypeOK
<1>5. TypeOK'
  BY <1>0, <1>1, <1>4 DEF Inv, TypeOK, history
<1>6. GeneratorOK'
  BY <1>0, <1>1, <1>2, GeneratorType DEF Inv, GeneratorOK, Room
<1>7. SizeOK' /\ FreedOK'
  BY <1>0, <1>3, GeneratorType DEF Inv, SizeOK, FreedOK
<1>8. QueueInOrder'
  <2> SUFFICES ASSUME NEW i \in Places, i < size
               PROVE  queue'[i] = IF i < Place + 1 THEN i + 1 ELSE 0
    BY <1>0, <1>2 DEF QueueInOrder
  <2>1. queue'[i] = IF i = Place THEN Place + 1 ELSE queue[i]
    BY <1>0, <1>2, <1>3 DEF Inv, TypeOK
  <2>2. queue[i] = IF i < Place THEN i + 1 ELSE 0
    BY DEF Inv, QueueInOrder
  <2> QED BY <2>1, <2>2, GeneratorType DEF Places
<1> QED BY <1>0, <1>2, <1>5, <1>6, <1>7, <1>8, TellersKept, GeneratorType DEF Inv

LEMMA ReallocInv == ASSUME Inv, Realloc PROVE Inv'
<1>0. /\ generator.secondsElapsed < MaxTime
      /\ ~Room
      /\ size' \in {Block, 0}
      /\ queue' = [i \in Places |-> IF i < size' THEN queue[i] ELSE 0]
      /\ generator' = [generator EXCEPT !.secondsElapsed = @ + 1,
                                        !.queueLength = @ + Block]
      /\ UNCHANGED <<customersServiced, endSimulation, mut, pc, reg, joined,
                     undefined, history>>
  BY DEF Realloc, Second
<1>1. /\ generator' \in Locals
      /\ generator'.secondsElapsed = generator.secondsElapsed + 1
      /\ generator'.customerNumber = generator.customerNumber
      /\ generator'.queueLength = generator.queueLength + Block
  <2>1. generator \in Locals
    BY DEF Inv, TypeOK
  <2>2. /\ generator.secondsElapsed + 1 \in 0 .. MaxTime
        /\ generator.queueLength + Block \in Nat
    BY <1>0, GeneratorType, NatAssumption
  <2> QED BY <1>0, <2>1, <2>2 DEF Locals
<1>2. Place' = Place /\ Room'
  BY <1>1, GeneratorType, NatAssumption DEF Place, Room
<1>3. size \in Nat /\ size' \in 0 .. Allocated /\ size >= Block
  BY <1>0, NatAssumption, SizeAssumption DEF Inv, TypeOK, SizeOK, FreedOK
<1>4. queue' \in [Places -> {0} \union Customers]
  BY <1>0 DEF Inv, TypeOK
<1>5. TypeOK'
  BY <1>0, <1>1, <1>3, <1>4 DEF Inv, TypeOK, history
<1>6. GeneratorOK'
  BY <1>1, <1>2, GeneratorType, NatAssumption DEF Inv, GeneratorOK
<1>7. SizeOK' /\ FreedOK'
  BY <1>0, <1>2, NatAssumption DEF SizeOK, FreedOK
<1>8. QueueInOrder'
  <2> SUFFICES ASSUME NEW i \in Places, i < size'
               PROVE  queue'[i] = IF i < Place THEN i + 1 ELSE 0
    BY <1>2 DEF QueueInOrder
  <2>1. queue'[i] = queue[i]
    BY <1>0
  <2>2. i < size
    BY <1>0, <1>3, NatAssumption DEF Places
  <2> QED BY <2>1, <2>2 DEF Inv, QueueInOrder
<1> QED BY <1>0, <1>2, <1>5, <1>6, <1>7, <1>8, TellersKept, GeneratorType DEF Inv

(* A step that changes only flags keeps everything else. *)
LEMMA FlagsInv ==
  ASSUME Inv,
         endSimulation' \in BOOLEAN, joined' \in BOOLEAN, undefined' \in BOOLEAN,
         generator' = generator \/ generator' = [generator EXCEPT !.done = TRUE],
         UNCHANGED <<queueVars, customersServiced, mut, pc, reg, history>>
  PROVE  Inv'
<1>1. /\ generator' \in Locals
      /\ generator'.secondsElapsed = generator.secondsElapsed
      /\ generator'.customerNumber = generator.customerNumber
      /\ generator'.queueLength = generator.queueLength
  BY DEF Inv, TypeOK, Locals
<1>2. Place' = Place /\ Room' = Room
  BY <1>1 DEF Place, Room
<1>3. TypeOK'
  BY <1>1 DEF Inv, TypeOK, queueVars, history
<1>4. GeneratorOK' /\ SizeOK' /\ FreedOK' /\ QueueInOrder'
  BY <1>1, <1>2 DEF Inv, GeneratorOK, SizeOK, FreedOK, QueueInOrder, queueVars
<1> QED BY <1>2, <1>3, <1>4, TellersKept, GeneratorType DEF Inv

LEMMA NextInv == Inv /\ [Next]_vars => Inv'
<1> SUFFICES ASSUME Inv, [Next]_vars PROVE Inv'
  OBVIOUS
<1>1. CASE \E t \in Tellers : Teller(t)
  BY <1>1, TellerInv
<1>2. CASE CustomerOutside
  BY <1>2, FlagsInv DEF CustomerOutside, Inv, TypeOK
<1>3. CASE End
  BY <1>3, FlagsInv DEF End, Inv, TypeOK
<1>4. CASE Join
  BY <1>4, FlagsInv DEF Join, Inv, TypeOK
<1>5. CASE UNCHANGED vars
  BY <1>5, FlagsInv DEF vars, Inv, TypeOK
<1> QED BY <1>1, <1>2, <1>3, <1>4, <1>5, NoCustomerInv, CustomerInv, ReallocInv
           DEF Next, Generator, Finished

-----------------------------------------------------------------------------
(* Every reachable state satisfies the inductive invariant. *)
THEOREM Invariance == Spec => []Inv
<1> QED BY InitInv, NextInv, PTL DEF Spec

(* No variable of the simulation leaves its type: reg[t] + 1 is always the *)
(* number of a customer, and no index leaves the modelled part of memory.  *)
THEOREM TypeCorrect == Spec => []TypeOK
<1>1. Inv => TypeOK
  BY DEF Inv
<1> QED BY <1>1, Invariance, PTL

(* The queue length that generateCustomers prints, from a counter it reads *)
(* without the mutex, is never negative.                                   *)
THEOREM LengthNotNegative == Spec => []QueueLengthNotNegative
<1>1. Inv => QueueLengthNotNegative
  BY DEF Inv
<1> QED BY <1>1, Invariance, PTL

(* What generateCustomers has written to the queue is in arrival order,    *)
(* without gaps, as far as the queue is allocated.                         *)
THEOREM InOrder == Spec => []QueueInOrder
<1>1. Inv => QueueInOrder
  BY DEF Inv
<1> QED BY <1>1, Invariance, PTL

(* The mutex does what serviceCustomer uses it for, for any number of      *)
(* tellers, as long as none of them starts after a customer was taken.     *)
THEOREM OnceUnlessLate == Spec => []TakenOnceUnlessLate
<1>1. Inv => TakenOnceUnlessLate
  BY DEF Inv
<1> QED BY <1>1, Invariance, PTL

=============================================================================
