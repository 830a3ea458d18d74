--------------------------- MODULE SortFileProofs ---------------------------
(***************************************************************************)
(* bubbleSort sorts every array of every length, up or down; main calls it *)
(* with what has been read, for which the array had room all the time.     *)
(* What has been read is what the file says, and what is written says what *)
(* the array holds: the digits that writeNumbers makes are those that      *)
(* strtol reads.                                                           *)
(***************************************************************************)
EXTENDS SortFile, WellFoundedInduction, FiniteSetTheorems, SequenceTheorems, TLAPS

SortTypeOK ==
  /\ array \in Seq(Int)
  /\ i \in 0 .. size /\ j \in Nat
  /\ i < size => j <= size - 1 - i

(* After i passes the last i elements are in their places.                 *)
TailInPlace ==
  \A p, q \in 1 .. size : p < q /\ size - i < q => InOrder(array[p], array[q])

(* Within a pass, element j is the extreme one of those before it.         *)
CarriesExtreme ==
  i < size => \A p \in 1 .. j : InOrder(array[p], array[j + 1])

SortInv == SortTypeOK /\ TailInPlace /\ CarriesExtreme /\ SameElements

LEMMA OrderLaws ==
  /\ \A a \in Int : InOrder(a, a)
  /\ \A a, b \in Int : InOrder(a, b) \/ InOrder(b, a)
  /\ \A a, b, c \in Int : InOrder(a, b) /\ InOrder(b, c) => InOrder(a, c)
BY DirectionAssumption DEF InOrder

LEMMA SortInitInv == SortInit => SortInv
<1> SUFFICES ASSUME NEW numbers \in Seq(Int), Call(numbers) PROVE SortInv
  BY DEF SortInit
<1>1. SortTypeOK  BY DEF Call, SortTypeOK, size
<1>2. TailInPlace  BY DEF Call, TailInPlace, size
<1>3. CarriesExtreme  BY DEF Call, CarriesExtreme
<1>4. SameElements  BY DEF Call, SameElements, size
<1> QED  BY <1>1, <1>2, <1>3, <1>4 DEF SortInv

(* What swapping positions j + 1 and j + 2 does to the array.              *)
LEMMA SwapLaws ==
  ASSUME NEW s \in Seq(Int), NEW p \in 1 .. Len(s), p + 1 \in 1 .. Len(s)
  PROVE  /\ Swapped(s, p) \in Seq(Int)
         /\ Len(Swapped(s, p)) = Len(s)
         /\ Swapped(s, p)[p] = s[p + 1] /\ Swapped(s, p)[p + 1] = s[p]
         /\ \A q \in 1 .. Len(s) : q # p /\ q # p + 1 => Swapped(s, p)[q] = s[q]
BY DEF Swapped

LEMMA SortPairInv == SortInv /\ SortPair => SortInv'
<1> SUFFICES ASSUME SortInv, SortPair PROVE SortInv'
  OBVIOUS
<1> USE DEF SortInv
<1> DEFINE n == size
<1>0. /\ array \in Seq(Int) /\ n \in Nat /\ n = Len(array)
      /\ i \in 0 .. n /\ i < n /\ j \in Nat /\ j < n - 1 - i
      /\ j + 1 \in 1 .. n /\ j + 2 \in 1 .. n
      /\ \A p \in 1 .. n : array[p] \in Int
  BY DEF SortTypeOK, SortPair, Finished, size
<1>1. CASE InOrder(array[j + 1], array[j + 2])
  <2>0. UNCHANGED <<array, perm, i, original>> /\ j' = j + 1 /\ size' = size
    BY <1>1 DEF SortPair, size
  <2>1. SortTypeOK'  BY <1>0, <2>0 DEF SortTypeOK
  <2>2. TailInPlace'  BY <2>0 DEF TailInPlace, InOrder
  <2>3. CarriesExtreme'
    <3> SUFFICES ASSUME NEW p \in 1 .. j + 1
                 PROVE  InOrder(array[p], array[j + 2])
      BY <1>0, <2>0 DEF CarriesExtreme, InOrder
    <3>1. CASE p = j + 1  BY <1>1, <3>1
    <3>2. CASE p \in 1 .. j
      <4>1. InOrder(array[p], array[j + 1])
        BY <1>0, <3>2 DEF CarriesExtreme
      <4> QED  BY <1>0, <1>1, <3>2, <4>1, OrderLaws
    <3> QED  BY <1>0, <3>1, <3>2
  <2>4. SameElements'  BY <2>0 DEF SameElements
  <2> QED  BY <2>1, <2>2, <2>3, <2>4
<1>2. CASE ~ InOrder(array[j + 1], array[j + 2])
  <2>0. /\ array' = Swapped(array, j + 1) /\ perm' = Swapped(perm, j + 1)
        /\ UNCHANGED <<i, original>> /\ j' = j + 1
    BY <1>2 DEF SortPair
  <2>a. /\ array' \in Seq(Int) /\ size' = n
        /\ array'[j + 1] = array[j + 2] /\ array'[j + 2] = array[j + 1]
        /\ \A q \in 1 .. n : q # j + 1 /\ q # j + 2 => array'[q] = array[q]
    <3> DEFINE k == j + 1
    <3>1. k \in 1 .. Len(array) /\ k + 1 \in 1 .. Len(array) /\ k + 1 = j + 2
      BY <1>0
    <3>2. array' = Swapped(array, k)
      BY <2>0
    <3> HIDE DEF k
    <3>3. /\ array' \in Seq(Int) /\ Len(array') = Len(array)
          /\ array'[k] = array[k + 1] /\ array'[k + 1] = array[k]
          /\ \A q \in 1 .. Len(array) : q # k /\ q # k + 1 => array'[q] = array[q]
      BY <1>0, <3>1, <3>2, SwapLaws
    <3> QED  BY <1>0, <3>1, <3>3 DEF size, k
  <2>b. InOrder(array[j + 2], array[j + 1])
    BY <1>0, <1>2, OrderLaws
  <2>1. SortTypeOK'  BY <1>0, <2>0, <2>a DEF SortTypeOK
  <2>2. TailInPlace'
    <3> SUFFICES ASSUME NEW p \in 1 .. n, NEW q \in 1 .. n, p < q, n - i < q
                 PROVE  InOrder(array'[p], array'[q])
      BY <2>0, <2>a DEF TailInPlace, InOrder
    <3>1. array'[q] = array[q]
      BY <1>0, <2>a
    <3>2. \A r \in 1 .. n : r < q => InOrder(array[r], array[q])
      BY <1>0 DEF TailInPlace
    <3>3. CASE p = j + 1  BY <1>0, <2>a, <3>1, <3>2, <3>3
    <3>4. CASE p = j + 2  BY <1>0, <2>a, <3>1, <3>2, <3>4
    <3>5. CASE p # j + 1 /\ p # j + 2  BY <2>a, <3>1, <3>2, <3>5
    <3> QED  BY <3>3, <3>4, <3>5
  <2>3. CarriesExtreme'
    <3> SUFFICES ASSUME NEW p \in 1 .. j + 1
                 PROVE  InOrder(array'[p], array'[j + 2])
      BY <1>0, <2>0 DEF CarriesExtreme, InOrder
    <3>1. CASE p = j + 1  BY <2>a, <2>b, <3>1
    <3>2. CASE p \in 1 .. j
      <4>1. InOrder(array[p], array[j + 1])
        BY <1>0, <3>2 DEF CarriesExtreme
      <4>2. array'[p] = array[p]
        BY <1>0, <2>a, <3>2
      <4> QED  BY <2>a, <4>1, <4>2
    <3> QED  BY <1>0, <3>1, <3>2
  <2>4. SameElements'
    <3>1. /\ DOMAIN perm' = 1 .. n
          /\ perm'[j + 1] = perm[j + 2] /\ perm'[j + 2] = perm[j + 1]
          /\ \A q \in 1 .. n : q # j + 1 /\ q # j + 2 => perm'[q] = perm[q]
      <4> DEFINE k == j + 1
      <4>1. k \in DOMAIN perm /\ k + 1 \in DOMAIN perm /\ k + 1 = j + 2
            /\ DOMAIN perm = 1 .. n /\ k # k + 1
        BY <1>0 DEF SameElements
      <4>2. perm' = [perm EXCEPT ![k] = perm[k + 1], ![k + 1] = perm[k]]
        BY <2>0 DEF Swapped
      <4> HIDE DEF k
      <4>3. /\ DOMAIN perm' = 1 .. n
            /\ perm'[k] = perm[k + 1] /\ perm'[k + 1] = perm[k]
            /\ \A q \in 1 .. n : q # k /\ q # k + 1 => perm'[q] = perm[q]
        BY <4>1, <4>2
      <4> QED  BY <4>1, <4>3 DEF k
    <3>2. size' = Len(original)'
      BY <2>0, <2>a DEF SameElements
    <3>3. ASSUME NEW p \in 1 .. n
          PROVE  perm'[p] \in 1 .. n /\ array'[p] = original[perm'[p]]
      <4>1. \A q \in 1 .. n : perm[q] \in 1 .. n /\ array[q] = original[perm[q]]
        BY DEF SameElements
      <4>2. ASSUME NEW q \in 1 .. n, perm'[p] = perm[q], array'[p] = array[q]
            PROVE  perm'[p] \in 1 .. n /\ array'[p] = original[perm'[p]]
        BY <4>1, <4>2
      <4>3. CASE p = j + 1
        <5>1. perm'[p] = perm[j + 2] /\ array'[p] = array[j + 2]
          BY <2>a, <3>1, <4>3
        <5> QED  BY <1>0, <4>2, <5>1
      <4>4. CASE p = j + 2
        <5>1. perm'[p] = perm[j + 1] /\ array'[p] = array[j + 1]
          BY <2>a, <3>1, <4>4
        <5> QED  BY <1>0, <4>2, <5>1
      <4>5. CASE p # j + 1 /\ p # j + 2
        BY <2>a, <3>1, <4>2, <4>5
      <4> QED  BY <4>3, <4>4, <4>5
    <3>4. ASSUME NEW p \in 1 .. n, NEW q \in 1 .. n, perm'[p] = perm'[q]
          PROVE  p = q
      <4>1. \A a, b \in 1 .. n : perm[a] = perm[b] => a = b
        BY DEF SameElements
      <4>2. CASE p = j + 1 /\ q = j + 2  BY <1>0, <3>1, <3>4, <4>1, <4>2
      <4>3. CASE p = j + 2 /\ q = j + 1  BY <1>0, <3>1, <3>4, <4>1, <4>3
      <4>4. CASE p = j + 1 /\ q \notin {j + 1, j + 2}
        BY <1>0, <3>1, <3>4, <4>1, <4>4
      <4>5. CASE p = j + 2 /\ q \notin {j + 1, j + 2}
        BY <1>0, <3>1, <3>4, <4>1, <4>5
      <4>6. CASE q = j + 1 /\ p \notin {j + 1, j + 2}
        BY <1>0, <3>1, <3>4, <4>1, <4>6
      <4>7. CASE q = j + 2 /\ p \notin {j + 1, j + 2}
        BY <1>0, <3>1, <3>4, <4>1, <4>7
      <4>8. CASE p \notin {j + 1, j + 2} /\ q \notin {j + 1, j + 2}
        BY <3>1, <3>4, <4>1, <4>8
      <4> QED  BY <4>2, <4>3, <4>4, <4>5, <4>6, <4>7, <4>8
    <3> QED  BY <2>0, <2>a, <3>1, <3>2, <3>3, <3>4 DEF SameElements
  <2> QED  BY <2>1, <2>2, <2>3, <2>4
<1> QED  BY <1>1, <1>2

LEMMA NextPassInv == SortInv /\ NextPass => SortInv'
<1> SUFFICES ASSUME SortInv, NextPass PROVE SortInv'
  OBVIOUS
<1> USE DEF SortInv
<1>0. /\ array \in Seq(Int) /\ size \in Nat /\ i \in 0 .. size /\ i < size
      /\ j = size - 1 - i
      /\ i' = i + 1 /\ j' = 0 /\ UNCHANGED <<array, original, perm>>
      /\ size' = size
      /\ \A p \in 1 .. size : array[p] \in Int
  BY DEF SortTypeOK, NextPass, Finished, size
<1>1. SortTypeOK'  BY <1>0 DEF SortTypeOK
<1>2. TailInPlace'
  <2> SUFFICES ASSUME NEW p \in 1 .. size, NEW q \in 1 .. size,
                      p < q, size - (i + 1) < q
               PROVE  InOrder(array[p], array[q])
    BY <1>0 DEF TailInPlace, InOrder
  <2>1. CASE size - i < q  BY <2>1 DEF TailInPlace
  <2>2. CASE q = size - i
    <3>1. q = j + 1 /\ p \in 1 .. j  BY <1>0, <2>2
    <3> QED  BY <1>0, <3>1 DEF CarriesExtreme
  <2> QED  BY <1>0, <2>1, <2>2
<1>3. CarriesExtreme'  BY <1>0 DEF CarriesExtreme
<1>4. SameElements'  BY <1>0 DEF SameElements
<1> QED  BY <1>1, <1>2, <1>3, <1>4

LEMMA SortInvKept == SortInv /\ UNCHANGED sortVars => SortInv'
BY DEF SortInv, SortTypeOK, TailInPlace, CarriesExtreme, SameElements,
       sortVars, size, InOrder

LEMMA SortInvariance == SortSpec => []SortInv
<1>1. SortInv /\ [SortNext]_sortVars => SortInv'
  BY SortInvKept, SortPairInv, NextPassInv DEF SortNext
<1> QED  BY <1>1, SortInitInv, PTL DEF SortSpec

LEMMA SortInvSorts == SortInv => Sorted /\ SameElements
<1>1. SortInv => SameElements
  BY DEF SortInv
<1>2. SortInv => Sorted
  <2> SUFFICES ASSUME SortInv, Finished,
                      NEW p \in 1 .. size, NEW q \in 1 .. size, p < q
               PROVE  InOrder(array[p], array[q])
    BY DEF Sorted
  <2>1. size \in Nat /\ size >= 2
    BY DEF SortInv, SortTypeOK, size
  <2> QED  BY <2>1 DEF SortInv, TailInPlace, Finished
<1> QED  BY <1>1, <1>2

(* Whatever it is called with, bubbleSort leaves the array in order.       *)
THEOREM BubbleSortSorts == SortSpec => []Sorted
BY SortInvSorts, SortInvariance, PTL

(* Whatever it is called with, bubbleSort permutes it and does no more.    *)
THEOREM BubbleSortPermutes == SortSpec => []SameElements
BY SortInvSorts, SortInvariance, PTL

-----------------------------------------------------------------------------
(* The array of readNumbers (hw6/fileio.c:94).                             *)

IsSequence(s) == \E S : s \in Seq(S)

(* The program hw6 has stored nothing before its file is open, and has     *)
(* room for one number more as long as it reads.                           *)
RoomInv ==
  /\ IsSequence(array) /\ limit \in Nat
  /\ program = "hw6" /\ pc = "open" => array = << >>
  /\ RoomForOneMore

LEMMA AppendedIsSequence ==
  ASSUME NEW s, IsSequence(s), NEW e
  PROVE  /\ IsSequence(Append(s, e))
         /\ Len(s) \in Nat /\ Len(Append(s, e)) = Len(s) + 1
<1>1. PICK S : s \in Seq(S)
  BY DEF IsSequence
<1> DEFINE T == S \cup {e}
<1>2. s \in Seq(T) /\ e \in T
  BY <1>1
<1> HIDE DEF T
<1>3. Append(s, e) \in Seq(T) /\ Len(Append(s, e)) = Len(s) + 1 /\ Len(s) \in Nat
  BY <1>2
<1> QED  BY <1>3 DEF IsSequence

LEMMA SwappedIsSequence ==
  ASSUME NEW s, IsSequence(s), NEW p
  PROVE  IsSequence(Swapped(s, p))
<1>1. PICK S : s \in Seq(S)
  BY DEF IsSequence
<1> DEFINE a == s[p + 1]
           b == s[p]
           T == S \cup {a, b}
<1>2. Swapped(s, p) = [[s EXCEPT ![p] = a] EXCEPT ![p + 1] = b]
  BY DEF Swapped
<1>3. s \in Seq(T) /\ a \in T /\ b \in T
  BY <1>1
<1> HIDE DEF T, a, b
<1>4. ASSUME NEW t \in Seq(T), NEW q, NEW e \in T
      PROVE  [t EXCEPT ![q] = e] \in Seq(T)
  <2>1. CASE q \in 1 .. Len(t)  BY <2>1
  <2>2. CASE q \notin 1 .. Len(t)
    <3>1. t \in [1 .. Len(t) -> T]  OBVIOUS
    <3>2. [t EXCEPT ![q] = e] = t  BY <2>2, <3>1
    <3> QED  BY <3>2
  <2> QED  BY <2>1, <2>2
<1> QED  BY <1>2, <1>3, <1>4 DEF IsSequence

LEMMA RoomInitInv == Init => RoomInv
<1> SUFFICES ASSUME Init PROVE RoomInv
  OBVIOUS
<1>1. array = << >> /\ limit = 0 /\ pc = "open"
  BY DEF Init, Call
<1>2. IsSequence(array)
  <2>1. << >> \in Seq({})
    OBVIOUS
  <2> QED  BY <1>1, <2>1 DEF IsSequence
<1> QED  BY <1>1, <1>2 DEF RoomInv, RoomForOneMore

(* The loop that stores a number: the array grows as soon as it is full.   *)
LEMMA ReadNumberInv == RoomInv /\ ReadNumber => RoomInv'
<1> SUFFICES ASSUME RoomInv, ReadNumber PROVE RoomInv'
  OBVIOUS
<1> DEFINE value == strtol(Token(buffer, at), Base(readHex))
<1>1. /\ array' = Append(array, value)
      /\ limit' = IF Len(array') = limit THEN limit + MoreLimit ELSE limit
      /\ pc = "read" /\ pc' = pc /\ program' = program
  BY DEF ReadNumber, AtNumber, options
<1> HIDE DEF value
<1>2. /\ IsSequence(array') /\ Len(array) \in Nat /\ Len(array') = Len(array) + 1
      /\ limit \in Nat /\ (program = "hw6" => Len(array) < limit)
  BY <1>1, AppendedIsSequence DEF RoomInv, RoomForOneMore
<1>3. MoreLimit \in Nat \ {0}
  BY SortFileAssumption
<1>4. limit' \in Nat /\ (program = "hw6" => Len(array') < limit')
  BY <1>1, <1>2, <1>3
<1> QED  BY <1>1, <1>2, <1>4 DEF RoomInv, RoomForOneMore

LEMMA OpenInv == RoomInv /\ Open => RoomInv'
<1> SUFFICES ASSUME RoomInv, Open PROVE RoomInv'
  OBVIOUS
<1>1. /\ array' = array /\ program' = program /\ pc = "open" /\ pc' = "read"
      /\ limit' = IF program = "hw6" THEN FirstLimit ELSE MaxNumbers \div IntSize
  BY DEF Open, sortVars, options
<1>2. /\ FirstLimit \in Nat \ {0} /\ MaxNumbers \in Nat \ {0}
      /\ IntSize \in Nat \ {0}
  BY SortFileAssumption
<1>3. MaxNumbers \div IntSize \in Nat
  BY <1>2
<1>4. limit' \in Nat /\ (program = "hw6" => Len(array') < limit')
  BY <1>1, <1>2, <1>3 DEF RoomInv
<1> QED  BY <1>1, <1>4 DEF RoomInv, RoomForOneMore

(* What fscanf counts is a number more in the array, or none.              *)
LEMMA CountedInv ==
  ASSUME RoomInv, Scanning, NEW value, Counted(value),
         UNCHANGED <<program, limit>>
  PROVE  RoomInv'
<1>1. /\ array' = (IF size < GiveUp THEN Append(array, value) ELSE array)
      /\ program # "hw6" /\ limit \in Nat /\ IsSequence(array)
  BY DEF Counted, Scanning, RoomInv
<1>2. IsSequence(array')
  BY <1>1, AppendedIsSequence
<1> QED  BY <1>1, <1>2 DEF RoomInv, RoomForOneMore

LEMMA SortRoomInv == RoomInv /\ Sort => RoomInv'
<1> SUFFICES ASSUME RoomInv, Sort PROVE RoomInv'
  OBVIOUS
<1>1. /\ pc = "sort" /\ UNCHANGED <<pc, program, limit>> /\ SortNext
      /\ IsSequence(array) /\ limit \in Nat
  BY DEF Sort, options, RoomInv
<1>2. IsSequence(array')
  <2>1. CASE array' = array  BY <1>1, <2>1
  <2>2. CASE array' # array
    <3>1. array' = Swapped(array, j + 1)
      BY <1>1, <2>2 DEF SortNext, SortPair, NextPass
    <3> QED  BY <1>1, <3>1, SwappedIsSequence
  <2> QED  BY <2>1, <2>2
<1> QED  BY <1>1, <1>2 DEF RoomInv, RoomForOneMore

LEMMA RoomStep == RoomInv /\ [Next]_vars => RoomInv'
<1> SUFFICES ASSUME RoomInv, [Next]_vars PROVE RoomInv'
  OBVIOUS
<1>1. CASE /\ UNCHANGED <<array, program, limit>>
           /\ pc' = pc \/ pc' \notin {"open", "read"}
  BY <1>1 DEF RoomInv, RoomForOneMore
<1>2. CASE Open  BY <1>2, OpenInv
<1>3. CASE OpenFails
  BY <1>1, <1>3 DEF OpenFails, sortVars, options
<1>4. CASE Read
  BY <1>1, <1>4 DEF Read, sortVars, options
<1>5. CASE SkipSeparator
  BY <1>1, <1>5 DEF SkipSeparator, sortVars, options
<1>6. CASE ReadNumber  BY <1>6, ReadNumberInv
<1>7. CASE EndOfFile
  BY <1>1, <1>7 DEF EndOfFile, SortBegins, options
<1>8. CASE ScanNumber
  <2>1. PICK value : Counted(value)
    BY <1>8 DEF ScanNumber
  <2> QED  BY <1>8, <2>1, CountedInv DEF ScanNumber, options
<1>9. CASE ScanOutside
  BY <1>1, <1>9 DEF ScanOutside, sortVars, options
<1>10. CASE ScanNothing
  <2>1. PICK value \in Junk : Counted(value)
    BY <1>10 DEF ScanNothing
  <2> QED  BY <1>10, <2>1, CountedInv DEF ScanNothing, options
<1>11. CASE ScanEnd
  BY <1>1, <1>11 DEF ScanEnd, SortBegins, sortVars, options
<1>12. CASE Sort  BY <1>12, SortRoomInv
<1>13. CASE StartWriting
  BY <1>1, <1>13 DEF StartWriting, sortVars, options
<1>14. CASE WriteNumber
  BY <1>1, <1>14 DEF WriteNumber, sortVars, options
<1>15. CASE Exit
  BY <1>1, <1>15 DEF Exit, sortVars, options
<1>16. CASE Overrun
  BY <1>1, <1>16 DEF Overrun, sortVars, options
<1>17. CASE ReadFails
  BY <1>1, <1>17 DEF ReadFails, SortBegins, options
<1>18. CASE UNCHANGED vars
  BY <1>1, <1>18 DEF vars
<1> QED
  BY <1>2, <1>3, <1>4, <1>5, <1>6, <1>7, <1>8, <1>9, <1>10, <1>11, <1>12,
     <1>13, <1>14, <1>15, <1>16, <1>17, <1>18 DEF Next

(* Whatever is in the file, and however it is cut into buffers: hw6 never  *)
(* stores a number past the end of its array.                              *)
THEOREM RoomCorrect == Spec => []RoomForOneMore
<1>1. RoomInv => RoomForOneMore
  BY DEF RoomInv
<1> QED  BY <1>1, RoomInitInv, RoomStep, PTL DEF Spec

-----------------------------------------------------------------------------
(* The call of bubbleSort by main.                                         *)

SortFileInv == pc \in {"sort", "write", "done"} => SortInv

LEMMA SequenceOfMore ==
  ASSUME NEW S, NEW T, S \subseteq T, NEW s \in Seq(S)
  PROVE  s \in Seq(T)
OBVIOUS

LEMMA ReadAreIntegers == TypeOK => array \in Seq(Int)
<1>1. Ints \subseteq Int
  BY DEF Ints
<1> QED  BY <1>1, SequenceOfMore DEF TypeOK

(* bubbleSort begins with the array that was read.                         *)
LEMMA SortBeginsInv == TypeOK /\ SortBegins => SortInv'
<1> SUFFICES ASSUME TypeOK, SortBegins PROVE SortInv'
  OBVIOUS
<1>0. /\ array \in Seq(Int) /\ array' = array /\ original' = array
      /\ perm' = [p \in DOMAIN array |-> p] /\ i' = 0 /\ j' = 0
      /\ size' = Len(array) /\ DOMAIN array = 1 .. Len(array)
  BY ReadAreIntegers DEF SortBegins, size
<1>1. SortTypeOK'  BY <1>0 DEF SortTypeOK
<1>2. TailInPlace'  BY <1>0 DEF TailInPlace
<1>3. CarriesExtreme'  BY <1>0 DEF CarriesExtreme
<1>4. SameElements'  BY <1>0 DEF SameElements
<1> QED  BY <1>1, <1>2, <1>3, <1>4 DEF SortInv

LEMMA SortFileStep == TypeOK /\ SortFileInv /\ [Next]_vars => SortFileInv'
<1> SUFFICES ASSUME TypeOK, SortFileInv, [Next]_vars PROVE SortFileInv'
  OBVIOUS
<1>1. CASE /\ UNCHANGED sortVars
           /\ pc \in {"sort", "write", "done"} \/ pc' \notin {"sort", "write", "done"}
  BY <1>1, SortInvKept DEF SortFileInv
<1>2. CASE SortBegins
  BY <1>2, SortBeginsInv DEF SortFileInv
<1>3. CASE pc' \notin {"sort", "write", "done"}
  BY <1>3 DEF SortFileInv
<1>4. CASE Open  BY <1>3, <1>4 DEF Open
<1>5. CASE OpenFails  BY <1>3, <1>5 DEF OpenFails
<1>6. CASE Read  BY <1>3, <1>6 DEF Read
<1>7. CASE SkipSeparator  BY <1>3, <1>7 DEF SkipSeparator
<1>8. CASE ReadNumber  BY <1>3, <1>8 DEF ReadNumber, AtNumber
<1>9. CASE EndOfFile  BY <1>2, <1>9 DEF EndOfFile
<1>10. CASE ScanNumber  BY <1>3, <1>10 DEF ScanNumber, Counted
<1>11. CASE ScanOutside  BY <1>3, <1>11 DEF ScanOutside
<1>12. CASE ScanNothing  BY <1>3, <1>12 DEF ScanNothing, Counted
<1>13. CASE ScanEnd  BY <1>2, <1>3, <1>13 DEF ScanEnd
<1>14. CASE Sort
  <2>1. SortInv /\ SortNext
    BY <1>14 DEF Sort, SortFileInv
  <2>2. SortInv'
    BY <2>1, SortPairInv, NextPassInv DEF SortNext
  <2> QED  BY <2>2 DEF SortFileInv
<1>15. CASE StartWriting  BY <1>1, <1>15 DEF StartWriting
<1>16. CASE WriteNumber  BY <1>1, <1>16 DEF WriteNumber
<1>17. CASE Exit  BY <1>1, <1>17 DEF Exit
<1>18. CASE Overrun  BY <1>3, <1>18 DEF Overrun
<1>19. CASE ReadFails  BY <1>2, <1>19 DEF ReadFails
<1>20. CASE UNCHANGED vars
  <2>1. pc' = pc /\ UNCHANGED sortVars
    BY <1>20 DEF vars, sortVars
  <2> QED  BY <1>1, <1>3, <2>1
<1> QED
  BY <1>4, <1>5, <1>6, <1>7, <1>8, <1>9, <1>10, <1>11, <1>12, <1>13, <1>14,
     <1>15, <1>16, <1>17, <1>18, <1>19, <1>20 DEF Next

-----------------------------------------------------------------------------
(* What is read: numbers of the type int, within the bounds of the file    *)
(* and of the buffer.                                                      *)

(* Induction on the natural numbers, on sets: < is well-founded.           *)
LEMMA LeastNatural ==
  ASSUME NEW T, T \subseteq Nat, T # {}
  PROVE  \E x \in T : \A y \in T : x <= y
<1> DEFINE R == OpToRel(<, Nat)
<1>1. IsWellFoundedOn(R, Nat)
  BY NatLessThanWellFounded
<1>2. \A x, y \in Nat : x < y <=> <<x, y>> \in R
  BY DEF OpToRel
<1> HIDE DEF R
<1>3. PICK x \in T : \A y \in T : ~ (<<y, x>> \in R)
  BY <1>1, WFMin
<1>4. ASSUME NEW y \in T PROVE x <= y
  <2>1. x \in Nat /\ y \in Nat
    OBVIOUS
  <2>2. ~ (y < x)
    <3>1. ~ (<<y, x>> \in R)
      BY <1>3
    <3> QED  BY <1>2, <2>1, <3>1
  <2> QED  BY <2>1, <2>2
<1> QED  BY <1>4

LEMMA NaturalsByInduction ==
  ASSUME NEW T, 0 \in T, \A n \in Nat : n \in T => n + 1 \in T
  PROVE  \A n \in Nat : n \in T
<1> DEFINE U == {n \in Nat : n \notin T}
<1> SUFFICES ASSUME U # {} PROVE FALSE
  OBVIOUS
<1>1. PICK x \in U : \A y \in U : x <= y
  BY LeastNatural
<1>2. x \in Nat /\ x # 0 /\ x - 1 \in Nat
  OBVIOUS
<1>3. x - 1 \notin U
  BY <1>1, <1>2
<1> QED  BY <1>2, <1>3

IsLargest(x, S) == x \in S /\ \A y \in S : y <= x

LEMMA MaxIsLargest ==
  ASSUME NEW S, S \subseteq Int, S # {}, NEW b \in Int, \A x \in S : x <= b
  PROVE  IsLargest(Max(S), S)
<1> DEFINE T == {n \in Nat : b - n \in S}
<1>1. T # {}
  <2>1. PICK x \in S : TRUE
    OBVIOUS
  <2>2. b - x \in Nat /\ b - (b - x) = x
    BY <2>1
  <2> QED  BY <2>1, <2>2
<1>2. PICK n \in T : \A m \in T : n <= m
  BY <1>1, LeastNatural
<1>3. ASSUME NEW y \in S PROVE y <= b - n
  <2>1. b - y \in Nat /\ b - (b - y) = y
    OBVIOUS
  <2>2. n <= b - y
    BY <1>2, <2>1
  <2> QED  BY <1>2, <2>1, <2>2
<1>4. \E x \in S : \A y \in S : x >= y
  BY <1>2, <1>3
<1> QED  BY <1>4 DEF Max, IsLargest

LEMMA MinOfTwo ==
  ASSUME NEW a \in Int, NEW b \in Int
  PROVE  Min({a, b}) \in {a, b} /\ Min({a, b}) <= a /\ Min({a, b}) <= b
<1>1. \E x \in {a, b} : \A y \in {a, b} : x <= y
  OBVIOUS
<1> QED  BY <1>1 DEF Min

(* A function that is computed step by step, from a start and a step.      *)
Recurs(f, S, a, n, F) ==
  /\ f \in [0 .. n -> S] /\ f[0] = a
  /\ \A k \in 1 .. n : f[k] = F[<<f[k - 1], k>>]

LEMMA RecursionExists ==
  ASSUME NEW S, NEW a \in S, NEW n \in Nat, NEW F \in [S \X (1 .. n) -> S]
  PROVE  \E f : Recurs(f, S, a, n, F)
<1> DEFINE Up(f, m) == /\ f \in [0 .. m -> S] /\ f[0] = a
                       /\ \A k \in 1 .. m : f[k] = F[<<f[k - 1], k>>]
           T == {m \in Nat : m <= n => \E f : Up(f, m)}
<1>1. 0 \in T
  <2>1. Up([k \in 0 .. 0 |-> a], 0)
    OBVIOUS
  <2> HIDE DEF Up
  <2> QED  BY <2>1
<1>2. ASSUME NEW m \in Nat, m \in T PROVE m + 1 \in T
  <2> SUFFICES ASSUME m + 1 <= n PROVE \E f : Up(f, m + 1)
    OBVIOUS
  <2>1. PICK f : Up(f, m)
    BY <1>2
  <2> DEFINE last == F[<<f[m], m + 1>>]
             g == [k \in 0 .. m + 1 |-> IF k <= m THEN f[k] ELSE last]
  <2>2. last \in S
    <3>1. f[m] \in S /\ m + 1 \in 1 .. n
      BY <2>1
    <3> QED  BY <3>1
  <2>3. g \in [0 .. m + 1 -> S]
    <3> HIDE DEF last
    <3> QED  BY <2>1, <2>2
  <2>4. ASSUME NEW k \in 0 .. m + 1
        PROVE  g[k] = IF k <= m THEN f[k] ELSE last
    OBVIOUS
  <2>5. g[0] = a
    BY <2>1, <2>4
  <2>6. ASSUME NEW k \in 1 .. m + 1 PROVE g[k] = F[<<g[k - 1], k>>]
    <3>1. k - 1 \in 0 .. m /\ g[k - 1] = f[k - 1]
      BY <2>4
    <3>2. CASE k <= m
      <4>1. g[k] = f[k]
        BY <2>4, <3>2
      <4>2. f[k] = F[<<f[k - 1], k>>]
        BY <2>1, <3>2
      <4> QED  BY <3>1, <4>1, <4>2
    <3>3. CASE k = m + 1
      <4>1. g[k] = last /\ k - 1 = m
        BY <2>4, <3>3
      <4> QED  BY <3>1, <3>3, <4>1
    <3> QED  BY <3>2, <3>3
  <2> HIDE DEF g
  <2>7. Up(g, m + 1)
    BY <2>3, <2>5, <2>6
  <2> HIDE DEF Up
  <2> QED  BY <2>7
<1>3. PICK f : Up(f, n)
  <2> HIDE DEF T
  <2>1. n \in T
    BY <1>1, <1>2, NaturalsByInduction
  <2> QED  BY <2>1 DEF T
<1> QED  BY <1>3 DEF Recurs

(* f computes the number up to its m-th digit.                             *)
Computes(f, digits, n, base) ==
  f = [m \in 0 .. n |-> IF m = 0 THEN 0 ELSE f[m - 1] * base + digits[m]]

LEMMA ValueSteps ==
  ASSUME NEW digits, NEW n \in Nat, NEW base \in Int,
         \A k \in 1 .. n : digits[k] \in Int
  PROVE  \E v : /\ Value(digits, n, base) = v[n] /\ v[0] = 0
                /\ \A k \in 1 .. n : v[k] = v[k - 1] * base + digits[k]
<1> DEFINE F == [x \in Int \X (1 .. n) |-> x[1] * base + digits[x[2]]]
<1>1. F \in [Int \X (1 .. n) -> Int]
  <2>1. ASSUME NEW x \in Int \X (1 .. n) PROVE x[1] * base + digits[x[2]] \in Int
    <3>1. x[1] \in Int /\ digits[x[2]] \in Int
      OBVIOUS
    <3> QED  BY <3>1
  <2> QED  BY <2>1
<1>2. ASSUME NEW x \in Int, NEW k \in 1 .. n PROVE F[<<x, k>>] = x * base + digits[k]
  OBVIOUS
<1> HIDE DEF F
<1>3. PICK f : /\ f \in [0 .. n -> Int] /\ f[0] = 0
               /\ \A m \in 1 .. n : f[m] = F[<<f[m - 1], m>>]
  <2>1. 0 \in Int
    OBVIOUS
  <2>2. \E f : Recurs(f, Int, 0, n, F)
    BY <1>1, <2>1, RecursionExists
  <2> QED  BY <2>2 DEF Recurs
<1>4. ASSUME NEW m \in 1 .. n PROVE f[m] = f[m - 1] * base + digits[m]
  <2>1. f[m - 1] \in Int
    BY <1>3
  <2>2. f[m] = F[<<f[m - 1], m>>]
    BY <1>3
  <2> QED  BY <1>2, <2>1, <2>2
<1>5. Computes(f, digits, n, base)
  BY <1>3, <1>4 DEF Computes
<1> DEFINE v == CHOOSE h : Computes(h, digits, n, base)
<1>6. Value(digits, n, base) = v[n]
  BY DEF Value, Computes
<1>7. Computes(v, digits, n, base)
  BY <1>5
<1> HIDE DEF v
<1>8. v[0] = 0 /\ \A k \in 1 .. n : v[k] = v[k - 1] * base + digits[k]
  BY <1>7 DEF Computes
<1> QED  BY <1>6, <1>8

LEMMA ValueIsInteger ==
  ASSUME NEW digits, NEW n \in Nat, NEW base \in Int,
         \A k \in 1 .. n : digits[k] \in Int
  PROVE  Value(digits, n, base) \in Int
<1>1. PICK v : /\ Value(digits, n, base) = v[n] /\ v[0] = 0
               /\ \A k \in 1 .. n : v[k] = v[k - 1] * base + digits[k]
  BY ValueSteps
<1> DEFINE V == {m \in Nat : m <= n => v[m] \in Int}
<1>2. 0 \in V
  BY <1>1
<1>3. ASSUME NEW m \in Nat, m \in V PROVE m + 1 \in V
  <2> SUFFICES ASSUME m + 1 <= n PROVE v[m + 1] \in Int
    OBVIOUS
  <2>1. v[m] \in Int /\ digits[m + 1] \in Int
    BY <1>3
  <2>2. m + 1 \in 1 .. n /\ (m + 1) - 1 = m
    OBVIOUS
  <2>3. v[m + 1] = v[m] * base + digits[m + 1]
    BY <1>1, <2>2
  <2> QED  BY <2>1, <2>3
<1>4. n \in V
  <2> HIDE DEF V
  <2> QED  BY <1>2, <1>3, NaturalsByInduction
<1> QED  BY <1>1, <1>4

LEMMA AsIntType == ASSUME NEW n \in Int PROVE AsInt(n) \in Ints
<1> DEFINE half == MaxInt + 1
           all == IntRange
<1>1. half \in Nat \ {0} /\ all = 2 * half
  BY SortFileAssumption DEF IntRange
<1>2. AsInt(n) = ((n - (- half)) % all) + (- half) /\ Ints = (- half) .. half - 1
  BY SortFileAssumption DEF AsInt, Ints, MinInt
<1> HIDE DEF half, all
<1>3. (n - (- half)) % all \in 0 .. all - 1
  BY <1>1
<1> QED  BY <1>1, <1>2, <1>3

(* The piece of a sequence from m to n.                                    *)
LEMMA PieceIs ==
  ASSUME NEW s \in Seq(Int), NEW m \in 1 .. Len(s), NEW n \in m .. Len(s)
  PROVE  /\ SubSeq(s, m, n) \in Seq(Int) /\ Len(SubSeq(s, m, n)) = n - m + 1
         /\ \A k \in 1 .. n - m + 1 : SubSeq(s, m, n)[k] = s[m + k - 1]
<1>1. m \in Int /\ n \in Int /\ \A k \in m .. n : s[k] \in Int
  OBVIOUS
<1>2. /\ SubSeq(s, m, n) \in Seq(Int)
      /\ Len(SubSeq(s, m, n)) = IF m <= n THEN n - m + 1 ELSE 0
      /\ \A k \in 1 .. n - m + 1 : SubSeq(s, m, n)[k] = s[m + k - 1]
  BY <1>1, SubSeqProperties, SMTT(30)
<1> QED  BY <1>1, <1>2

LEMMA StrtolType ==
  ASSUME NEW str \in Seq(Int), str # << >>, NEW base \in Nat
  PROVE  strtol(str, base) \in Ints
<1> DEFINE signless == IF str[1] \in Signs THEN Tail(str) ELSE str
           prefixed == /\ base = Hex /\ Len(signless) > 2
                       /\ signless[1] = 0 /\ signless[2] = X
           digits == IF prefixed THEN SubSeq(signless, 3, Len(signless)) ELSE signless
           prefixes == {m \in 0 .. Len(digits) :
                           \A k \in 1 .. m : digits[k] \in 0 .. base - 1}
           n == Max(prefixes)
           value == Value(digits, n, base)
<1>1. strtol(str, base) = AsInt(IF str[1] = Minus THEN - value ELSE value)
  BY DEF strtol
<1>2. digits \in Seq(Int)
  <2>1. signless \in Seq(Int)
    OBVIOUS
  <2> HIDE DEF signless
  <2>2. CASE prefixed
    <3>1. 3 \in 1 .. Len(signless) /\ Len(signless) \in 3 .. Len(signless)
      BY <2>1, <2>2
    <3>2. SubSeq(signless, 3, Len(signless)) \in Seq(Int)
      BY <2>1, <3>1, PieceIs
    <3> QED  BY <2>2, <3>2
  <2> QED  BY <2>1, <2>2
<1> HIDE DEF prefixed, signless
<1> HIDE DEF digits
<1>3. Len(digits) \in Int
  BY <1>2
<1>4. prefixes \subseteq Int /\ 0 \in prefixes /\ \A m \in prefixes : m <= Len(digits)
  BY <1>2
<1>5. n \in prefixes
  <2> HIDE DEF prefixes
  <2> QED  BY <1>3, <1>4, MaxIsLargest DEF IsLargest
<1> HIDE DEF n
<1>6. n \in Nat /\ \A k \in 1 .. n : digits[k] \in Int
  BY <1>5
<1>7. value \in Int
  <2>1. base \in Int
    OBVIOUS
  <2> QED  BY <1>6, <2>1, ValueIsInteger
<1> HIDE DEF value
<1> QED  BY <1>1, <1>7, AsIntType

LEMMA BaseType == Base(readHex) \in Nat
BY SortFileAssumption DEF Base

(* A run of characters from a separator or a cut to the next one.          *)
IsPiece(s, first, last, cuts) ==
  /\ first \in 1 .. Len(s) /\ last \in first .. Len(s)
  /\ \A q \in first .. last : s[q] # Space
  /\ \A q \in first .. last - 1 : q \notin cuts
  /\ last < Len(s) => s[last + 1] = Space \/ last \in cuts

LEMMA PieceEnds ==
  ASSUME NEW s \in Seq(Int), NEW first, NEW last, NEW cuts, IsPiece(s, first, last, cuts)
  PROVE  Piece(s, first, cuts) = SubSeq(s, first, last)
<1> DEFINE ends == {q \in first .. Len(s) :
                      /\ \A k \in first .. q : s[k] # Space
                      /\ \A k \in first .. q - 1 : k \notin cuts}
<1>1. /\ first \in 1 .. Len(s) /\ last \in first .. Len(s) /\ Len(s) \in Nat
      /\ \A q \in first .. last : s[q] # Space
      /\ \A q \in first .. last - 1 : q \notin cuts
      /\ last < Len(s) => s[last + 1] = Space \/ last \in cuts
  BY DEF IsPiece
<1>2. last \in ends /\ ends \subseteq Int
  BY <1>1
<1>3. ASSUME NEW q \in ends PROVE q <= last
  <2> SUFFICES ASSUME q > last PROVE FALSE
    BY <1>1
  <2>1. last + 1 \in first .. q /\ last \in first .. q - 1 /\ last < Len(s)
    BY <1>1
  <2> QED  BY <1>1, <2>1
<1>4. IsLargest(Max(ends), ends)
  <2> HIDE DEF ends
  <2> QED  BY <1>1, <1>2, <1>3, MaxIsLargest
<1>5. Max(ends) = last
  <2> DEFINE x == Max(ends)
  <2>1. x \in ends /\ \A q \in ends : q <= x
    BY <1>4 DEF IsLargest
  <2> HIDE DEF ends, x
  <2>2. x <= last /\ last <= x /\ x \in Int /\ last \in Int
    BY <1>1, <1>2, <1>3, <2>1
  <2>3. x = last
    BY <2>2
  <2> QED  BY <2>3 DEF x
<1> QED  BY <1>5 DEF Piece

(* Every number has an end.                                                *)
LEMMA PieceExists ==
  ASSUME NEW s \in Seq(Int), NEW p \in 1 .. Len(s), s[p] # Space, NEW cuts
  PROVE  \E e \in p .. Len(s) :
           IsPiece(s, p, e, cuts) /\ Piece(s, p, cuts) = SubSeq(s, p, e)
<1> DEFINE ends == {q \in p .. Len(s) : /\ \A k \in p .. q : s[k] # Space
                                        /\ \A k \in p .. q - 1 : k \notin cuts}
           e == Max(ends)
<1>1. Len(s) \in Nat /\ p \in 1 .. Len(s)
  OBVIOUS
<1>2. p \in ends /\ ends \subseteq Int /\ \A q \in ends : q <= Len(s)
  BY <1>1
<1>3. e \in ends /\ \A q \in ends : q <= e
  <2> HIDE DEF ends
  <2>1. ends # {} /\ Len(s) \in Int
    BY <1>1, <1>2
  <2>2. IsLargest(Max(ends), ends)
    BY <1>2, <2>1, MaxIsLargest
  <2> QED  BY <2>2 DEF IsLargest
<1> HIDE DEF e
<1>4. /\ e \in p .. Len(s) /\ \A k \in p .. e : s[k] # Space
      /\ \A k \in p .. e - 1 : k \notin cuts
  BY <1>3
<1>5. e < Len(s) => s[e + 1] = Space \/ e \in cuts
  <2> SUFFICES ASSUME e < Len(s), s[e + 1] # Space, e \notin cuts PROVE FALSE
    OBVIOUS
  <2>1. e + 1 \in p .. Len(s) /\ (e + 1) - 1 = e
    BY <1>1, <1>4
  <2>2. \A k \in p .. e + 1 : s[k] # Space
    BY <1>1, <1>4
  <2>3. \A k \in p .. (e + 1) - 1 : k \notin cuts
    BY <1>1, <1>4
  <2>4. e + 1 \in ends
    BY <2>1, <2>2, <2>3
  <2> HIDE DEF ends
  <2> QED  BY <1>1, <1>3, <1>4, <2>4
<1>6. IsPiece(s, p, e, cuts)
  BY <1>1, <1>4, <1>5 DEF IsPiece
<1> QED  BY <1>4, <1>6, PieceEnds

(* A number of the buffer is not empty and ends within it.                 *)
LEMMA TokenType ==
  ASSUME NEW s \in Seq(Int), NEW p \in 1 .. Len(s), s[p] # Space
  PROVE  /\ Token(s, p) \in Seq(Int) /\ Len(Token(s, p)) \in 1 .. Len(s) - p + 1
<1>1. PICK e \in p .. Len(s) : Token(s, p) = SubSeq(s, p, e)
  BY PieceExists DEF Token
<1>2. SubSeq(s, p, e) \in Seq(Int) /\ Len(SubSeq(s, p, e)) = e - p + 1
  BY PieceIs
<1> QED  BY <1>1, <1>2

(* The type invariant, and what it needs: nothing is sorted or written     *)
(* before its time, and i and j of bubbleSort stay within the array.       *)
FileInv ==
  /\ TypeOK /\ SortFileInv
  /\ file \in Seq(Int) /\ buffer \in Seq(Int)
  /\ pc \in {"open", "read", "sort"} => written = 0
  /\ pc \in {"open", "read"} => i = 0

LEMMA FileInitInv == Init => FileInv
<1> SUFFICES ASSUME Init PROVE FileInv
  OBVIOUS
<1>1. /\ array = << >> /\ original = << >> /\ i = 0 /\ pc = "open" /\ pos = 0
      /\ buffer = << >> /\ at = 1 /\ written = 0 /\ file \in Files
  BY DEF Init, Call
<1>2. file \in Seq(Int) /\ buffer \in Seq(Int)
  BY <1>1, SortFileAssumption
<1>3. array \in Seq(Ints) /\ original \in Seq(Ints)
  BY <1>1
<1>4. Len(file) \in Nat /\ Len(buffer) = 0 /\ size = 0 /\ BufferSize \in Nat
  BY <1>1, <1>2, SortFileAssumption DEF size
<1> QED  BY <1>1, <1>2, <1>3, <1>4 DEF FileInv, TypeOK, SortFileInv

(* What the steps that leave the array alone need.                         *)
LEMMA ReadInv == FileInv /\ Read => FileInv'
<1> SUFFICES ASSUME FileInv, Read PROVE FileInv'
  OBVIOUS
<1> DEFINE end == Min({pos + BufferSize, Len(file)})
<1>1. /\ buffer' = SubSeq(file, pos + 1, end) /\ pos' = end /\ at' = 1
      /\ pos < Len(file) /\ pc = "read"
      /\ UNCHANGED <<sortVars, file, pc, written>>
  BY DEF Read, options
<1>2. /\ file \in Seq(Int) /\ Len(file) \in Nat /\ pos \in 0 .. Len(file)
      /\ BufferSize \in Nat \ {0}
  BY SortFileAssumption DEF FileInv, TypeOK
<1>3. end \in {pos + BufferSize, Len(file)} /\ end <= pos + BufferSize /\ end <= Len(file)
  <2>1. pos + BufferSize \in Int /\ Len(file) \in Int
    BY <1>2
  <2> QED  BY <2>1, MinOfTwo
<1> HIDE DEF end
<1>4. end \in pos + 1 .. Len(file)
  BY <1>1, <1>2, <1>3
<1>5. buffer' \in Seq(Int) /\ Len(buffer') = end - pos
  BY <1>1, <1>2, <1>4
<1>6. /\ Len(buffer') <= BufferSize /\ at' \in 1 .. Len(buffer') + 1
      /\ pos' \in 0 .. Len(file)
  BY <1>1, <1>2, <1>3, <1>4, <1>5
<1>7. UNCHANGED <<array, i, original, file, pc, written, size>>
  BY <1>1 DEF sortVars, size
<1>8. SortFileInv'
  BY <1>1 DEF SortFileInv
<1> QED  BY <1>1, <1>5, <1>6, <1>7, <1>8 DEF FileInv, TypeOK

LEMMA SkipSeparatorInv == FileInv /\ SkipSeparator => FileInv'
<1> SUFFICES ASSUME FileInv, SkipSeparator PROVE FileInv'
  OBVIOUS
<1>1. /\ at' = at + 1 /\ at <= Len(buffer) /\ pc = "read"
      /\ UNCHANGED <<sortVars, file, pc, pos, buffer, written>>
  BY DEF SkipSeparator, options
<1>2. at \in 1 .. Len(buffer) + 1 /\ Len(buffer) \in Nat
  BY DEF FileInv, TypeOK
<1>3. at' \in 1 .. Len(buffer) + 1
  BY <1>1, <1>2
<1>4. UNCHANGED <<array, i, original, file, pc, pos, buffer, written, size>>
  BY <1>1 DEF sortVars, size
<1>5. SortFileInv'
  BY <1>1 DEF SortFileInv
<1> QED  BY <1>1, <1>3, <1>4, <1>5 DEF FileInv, TypeOK

LEMMA ReadNumberType == FileInv /\ ReadNumber => FileInv'
<1> SUFFICES ASSUME FileInv, ReadNumber PROVE FileInv'
  OBVIOUS
<1> DEFINE str == Token(buffer, at)
           value == strtol(str, Base(readHex))
<1>1. /\ array' = Append(array, value) /\ at' = at + Len(str)
      /\ at <= Len(buffer) /\ buffer[at] # Space /\ pc = "read"
      /\ UNCHANGED <<i, original, file, pc, pos, buffer, written>>
  BY DEF ReadNumber, AtNumber, options
<1>2. /\ at \in 1 .. Len(buffer) + 1 /\ Len(buffer) \in Nat /\ buffer \in Seq(Int)
      /\ array \in Seq(Ints) /\ written = 0 /\ i = 0
  BY <1>1 DEF FileInv, TypeOK
<1>3. at \in 1 .. Len(buffer)
  BY <1>1, <1>2
<1>4. str \in Seq(Int) /\ Len(str) \in 1 .. Len(buffer) - at + 1
  BY <1>1, <1>2, <1>3, TokenType
<1> HIDE DEF str
<1>5. str # << >>
  BY <1>4
<1>6. value \in Ints
  BY <1>4, <1>5, BaseType, StrtolType
<1> HIDE DEF value
<1>7. array' \in Seq(Ints) /\ Len(array') \in Nat
  BY <1>1, <1>2, <1>6
<1>8. at' \in 1 .. Len(buffer) + 1
  BY <1>1, <1>2, <1>3, <1>4
<1>9. written' \in 0 .. size' /\ i' \in 0 .. size'
  BY <1>1, <1>2, <1>7 DEF size
<1>10. SortFileInv'
  BY <1>1 DEF SortFileInv
<1> QED  BY <1>1, <1>2, <1>7, <1>8, <1>9, <1>10 DEF FileInv, TypeOK

(* What fscanf counts is an int, be it junk.                               *)
LEMMA CountedType ==
  ASSUME FileInv, Scanning, NEW value \in Ints, Counted(value),
         pos' \in 0 .. Len(file),
         UNCHANGED <<i, original, file, buffer, at, written>>
  PROVE  FileInv'
<1>1. /\ array' = (IF size < GiveUp THEN Append(array, value) ELSE array)
      /\ pc = "read" /\ pc' \in {"gaveUp", "read"}
  BY DEF Counted, Scanning
<1>2. array \in Seq(Ints) /\ written = 0 /\ i = 0
  BY <1>1 DEF FileInv, TypeOK
<1>3. array' \in Seq(Ints) /\ Len(array') \in Nat
  BY <1>1, <1>2
<1>4. written' \in 0 .. size' /\ i' \in 0 .. size'
  BY <1>2, <1>3 DEF size
<1>5. SortFileInv'
  BY <1>1 DEF SortFileInv
<1> QED  BY <1>1, <1>2, <1>3, <1>4, <1>5 DEF FileInv, TypeOK

LEMMA ScanNumberType == FileInv /\ ScanNumber => FileInv'
<1> SUFFICES ASSUME FileInv, ScanNumber PROVE FileInv'
  OBVIOUS
<1>1. PICK first \in DOMAIN file, last \in DOMAIN file :
        /\ Takes(first, last) /\ pos' = last
        /\ Counted(strtol(SubSeq(file, first, last), Base(readHex)))
  BY DEF ScanNumber
<1> DEFINE str == SubSeq(file, first, last)
<1>2. file \in Seq(Int) /\ DOMAIN file = 1 .. Len(file) /\ Len(file) \in Nat
  BY DEF FileInv
<1>3. first <= last
  <2>1. first + Sign(first) <= last
    BY <1>1 DEF Takes
  <2> QED  BY <1>2, <2>1 DEF Sign
<1>4. str \in Seq(Int) /\ str # << >>
  <2>1. first \in 1 .. Len(file) /\ last \in 1 .. Len(file)
    BY <1>2
  <2>2. str \in Seq(Int)
    BY <1>2, <2>1
  <2>3. Len(str) = last - first + 1 /\ Len(str) > 0
    BY <1>2, <1>3, <2>1
  <2> HIDE DEF str
  <2> QED  BY <2>2, <2>3
<1> HIDE DEF str
<1>5. strtol(str, Base(readHex)) \in Ints
  BY <1>4, BaseType, StrtolType
<1>6. pos' \in 0 .. Len(file)
  BY <1>1, <1>2
<1>7. Scanning /\ UNCHANGED <<i, original, file, buffer, at, written>>
  BY DEF ScanNumber, options
<1>8. Counted(strtol(str, Base(readHex)))
  BY <1>1 DEF str
<1> QED  BY <1>5, <1>6, <1>7, <1>8, CountedType

LEMMA ScanNothingType == FileInv /\ ScanNothing => FileInv'
<1> SUFFICES ASSUME FileInv, ScanNothing PROVE FileInv'
  OBVIOUS
<1>1. PICK first \in DOMAIN file : pos' = first + Sign(first) - 1
  BY DEF ScanNothing
<1>2. PICK value \in Junk : Counted(value)
  BY DEF ScanNothing
<1>3. DOMAIN file = 1 .. Len(file) /\ Len(file) \in Nat
  BY DEF FileInv
<1>4. pos' \in 0 .. Len(file)
  BY <1>1, <1>3 DEF Sign
<1>5. Scanning /\ UNCHANGED <<i, original, file, buffer, at, written>>
  BY DEF ScanNothing, options
<1>6. value \in Ints
  BY JunkAssumption
<1> QED  BY <1>2, <1>4, <1>5, <1>6, CountedType

(* main calls bubbleSort.                                                  *)
LEMMA SortBeginsType ==
  ASSUME FileInv, SortBegins, pc = "read",
         UNCHANGED <<file, pos, buffer, at, written>>, SortFileInv'
  PROVE  FileInv'
<1>1. pc' = "sort" /\ array' = array /\ original' = array /\ i' = 0
  BY DEF SortBegins
<1>2. array \in Seq(Ints) /\ written = 0
  BY DEF FileInv, TypeOK
<1>3. size' = size /\ size \in Nat
  BY <1>1, <1>2 DEF size
<1> QED  BY <1>1, <1>2, <1>3 DEF FileInv, TypeOK

LEMMA SwappedType ==
  ASSUME NEW S, NEW s \in Seq(S), NEW p \in 1 .. Len(s), p + 1 \in 1 .. Len(s)
  PROVE  Swapped(s, p) \in Seq(S) /\ Len(Swapped(s, p)) = Len(s)
BY DEF Swapped

LEMMA SortType == FileInv /\ Sort /\ SortFileInv' => FileInv'
<1> SUFFICES ASSUME FileInv, Sort, SortFileInv' PROVE FileInv'
  OBVIOUS
<1>1. /\ pc = "sort" /\ SortNext /\ SortInv
      /\ UNCHANGED <<file, pc, pos, buffer, at, written, original>>
  BY DEF Sort, options, FileInv, SortFileInv, SortNext, SortPair, NextPass
<1>2. /\ i \in 0 .. size /\ j \in Nat /\ array \in Seq(Ints)
      /\ size \in Nat /\ size = Len(array) /\ written = 0
  BY <1>1 DEF FileInv, TypeOK, SortInv, SortTypeOK, size
<1>3. array' \in Seq(Ints) /\ Len(array') = Len(array)
  <2>1. CASE array' = array  BY <1>2, <2>1
  <2>2. CASE array' # array
    <3>1. array' = Swapped(array, j + 1) /\ j < size - 1 - i
      BY <1>1, <2>2 DEF SortNext, SortPair, NextPass
    <3>2. j + 1 \in 1 .. Len(array) /\ (j + 1) + 1 \in 1 .. Len(array)
      BY <1>2, <3>1
    <3> QED  BY <1>2, <3>1, <3>2, SwappedType
  <2> QED  BY <2>1, <2>2
<1>4. i' \in 0 .. size'
  BY <1>1 DEF SortFileInv, SortInv, SortTypeOK
<1>5. size' = size
  BY <1>2, <1>3 DEF size
<1> QED  BY <1>1, <1>2, <1>3, <1>4, <1>5 DEF FileInv, TypeOK

LEMMA WriteNumberType == FileInv /\ WriteNumber => FileInv'
<1> SUFFICES ASSUME FileInv, WriteNumber PROVE FileInv'
  OBVIOUS
<1>1. /\ pc = "write" /\ written < size /\ written' = written + 1
      /\ UNCHANGED <<sortVars, file, pc, pos, buffer, at>>
  BY DEF WriteNumber, options
<1>2. written \in 0 .. size /\ size \in Nat
  BY DEF FileInv, TypeOK, size
<1>3. UNCHANGED <<array, i, original, size>>
  BY <1>1 DEF sortVars, size
<1>4. written' \in 0 .. size'
  BY <1>1, <1>2, <1>3
<1>5. SortFileInv'
  BY <1>1, SortInvKept DEF FileInv, SortFileInv
<1> QED  BY <1>1, <1>3, <1>4, <1>5 DEF FileInv, TypeOK

(* The steps that read, sort and write nothing.                            *)
LEMMA OnlyPcType ==
  ASSUME FileInv, SortFileInv',
         UNCHANGED <<sortVars, file, pos, buffer, at, written>>,
         pc' \in {"open", "read", "sort", "write", "done", "failed", "crashed",
                  "gaveUp", "outside"},
         pc' \in {"open", "read"} => pc \in {"open", "read"},
         pc' \in {"open", "read", "sort"} => pc \in {"open", "read", "sort"}
  PROVE  FileInv'
<1>1. UNCHANGED <<array, i, original, size>>
  BY DEF sortVars, size
<1> QED  BY <1>1 DEF FileInv, TypeOK

LEMMA FileStep == FileInv /\ [Next]_vars => FileInv'
<1> SUFFICES ASSUME FileInv, [Next]_vars PROVE FileInv'
  OBVIOUS
<1>0. SortFileInv'
  BY SortFileStep DEF FileInv
<1>1. CASE Open  BY <1>0, <1>1, OnlyPcType DEF Open, options
<1>2. CASE OpenFails
  <2>1. pc' \in {"failed", "crashed"}
    BY <1>2 DEF OpenFails
  <2> QED  BY <1>0, <1>2, <2>1, OnlyPcType DEF OpenFails, options
<1>3. CASE Read  BY <1>3, ReadInv
<1>4. CASE SkipSeparator  BY <1>4, SkipSeparatorInv
<1>5. CASE ReadNumber  BY <1>5, ReadNumberType
<1>6. CASE EndOfFile
  BY <1>0, <1>6, SortBeginsType DEF EndOfFile, options
<1>7. CASE ScanNumber  BY <1>7, ScanNumberType
<1>8. CASE ScanOutside  BY <1>0, <1>8, OnlyPcType DEF ScanOutside, options
<1>9. CASE ScanNothing  BY <1>9, ScanNothingType
<1>10. CASE ScanEnd
  <2>1. pc = "read" /\ UNCHANGED <<file, pos, buffer, at, written>>
    BY <1>10 DEF ScanEnd, Scanning, options
  <2>2. CASE SortBegins  BY <1>0, <2>1, <2>2, SortBeginsType
  <2>3. CASE pc' = "outside" /\ UNCHANGED sortVars
    BY <1>0, <2>1, <2>3, OnlyPcType
  <2> QED  BY <1>10, <2>2, <2>3 DEF ScanEnd
<1>11. CASE Sort  BY <1>0, <1>11, SortType
<1>12. CASE StartWriting
  <2>1. pc' \in {"write", "crashed"}
    BY <1>12 DEF StartWriting
  <2> QED  BY <1>0, <1>12, <2>1, OnlyPcType DEF StartWriting, options
<1>13. CASE WriteNumber  BY <1>13, WriteNumberType
<1>14. CASE Exit  BY <1>0, <1>14, OnlyPcType DEF Exit, options
<1>15. CASE Overrun  BY <1>0, <1>15, OnlyPcType DEF Overrun, options
<1>16. CASE ReadFails
  BY <1>0, <1>16, SortBeginsType DEF ReadFails, options
<1>17. CASE UNCHANGED vars
  <2>1. UNCHANGED <<sortVars, file, pc, pos, buffer, at, written>>
    BY <1>17 DEF vars, sortVars
  <2>2. pc \in {"open", "read", "sort", "write", "done", "failed", "crashed",
                "gaveUp", "outside"}
    BY DEF FileInv, TypeOK
  <2> QED  BY <1>0, <2>1, <2>2, OnlyPcType
<1> QED
  BY <1>1, <1>2, <1>3, <1>4, <1>5, <1>6, <1>7, <1>8, <1>9, <1>10, <1>11, <1>12,
     <1>13, <1>14, <1>15, <1>16, <1>17 DEF Next

LEMMA FileInvariance == Spec => []FileInv
BY FileInitInv, FileStep, PTL DEF Spec

(* Whatever the file holds and wherever the reading ends: what is read are *)
(* ints, the index of readNumbers comes to one past its buffer and no      *)
(* further, and those of bubbleSort and writeNumbers stay in their array.  *)
THEOREM TypeCorrect == Spec => []TypeOK
<1>1. FileInv => TypeOK
  BY DEF FileInv
<1> QED  BY <1>1, FileInvariance, PTL

(* Whatever was read, by any of the three programs: when bubbleSort is     *)
(* done it is in order, nothing of it is lost, and so it stays while it is *)
(* written.                                                                *)
THEOREM SortsCorrect == Spec => []SortsWhatItRead
<1>1. FileInv => SortsWhatItRead
  BY SortInvSorts DEF FileInv, SortFileInv, SortsWhatItRead
<1> QED  BY <1>1, FileInvariance, PTL

-----------------------------------------------------------------------------
(***************************************************************************)
(* What is read is what the file says.  Each of the readers goes through   *)
(* the file once; up to where it is, the array holds the numbers that      *)
(* begin there, the k-th of them at place k.                               *)
(***************************************************************************)

(* The numbers of s that begin at n or before.                             *)
StartsTo(s, n, cuts) == {q \in Starts(s, cuts) : q <= n}

LEMMA StartsFinite ==
  ASSUME NEW s \in Seq(Int), NEW n \in Int, NEW cuts
  PROVE  /\ IsFiniteSet(StartsTo(s, n, cuts)) /\ Cardinality(StartsTo(s, n, cuts)) \in Nat
         /\ StartsTo(s, n, cuts) \subseteq 1 .. Len(s)
<1>1. IsFiniteSet(1 .. Len(s))
  BY FS_Interval
<1>2. StartsTo(s, n, cuts) \in SUBSET (1 .. Len(s))
  BY DEF StartsTo, Starts
<1>3. IsFiniteSet(StartsTo(s, n, cuts))
  BY <1>1, <1>2, FS_Subset
<1> QED  BY <1>2, <1>3, FS_CardinalityType

(* The next number that begins is the next in rank.                        *)
LEMMA NextRank ==
  ASSUME NEW s \in Seq(Int), NEW n \in Int, NEW cuts,
         NEW p \in Starts(s, cuts), n < p,
         \A q \in Starts(s, cuts) : ~ (n < q /\ q < p)
  PROVE  Rank(s, p, cuts) = Cardinality(StartsTo(s, n, cuts)) + 1
<1>1. p \in Int /\ Starts(s, cuts) \subseteq Int
  BY DEF Starts
<1>2. StartsTo(s, p, cuts) = StartsTo(s, n, cuts) \cup {p} /\ p \notin StartsTo(s, n, cuts)
  BY <1>1 DEF StartsTo
<1>3. Rank(s, p, cuts) = Cardinality(StartsTo(s, p, cuts))
  BY DEF Rank, StartsTo
<1> QED  BY <1>2, <1>3, StartsFinite, FS_AddElement

LEMMA RanksDiffer ==
  ASSUME NEW s \in Seq(Int), NEW cuts,
         NEW p \in Starts(s, cuts), NEW q \in Starts(s, cuts),
         Rank(s, p, cuts) = Rank(s, q, cuts)
  PROVE  p = q
<1>1. p \in Int /\ q \in Int /\ Starts(s, cuts) \subseteq Int
  BY DEF Starts
<1>2. /\ Rank(s, p, cuts) = Cardinality(StartsTo(s, p, cuts))
      /\ Rank(s, q, cuts) = Cardinality(StartsTo(s, q, cuts))
  BY DEF Rank, StartsTo
<1>3. CASE p <= q
  <2>1. StartsTo(s, p, cuts) \in SUBSET StartsTo(s, q, cuts)
    BY <1>1, <1>3 DEF StartsTo
  <2>2. StartsTo(s, p, cuts) = StartsTo(s, q, cuts)
    BY <1>1, <1>2, <2>1, StartsFinite, FS_Subset
  <2> QED  BY <1>1, <1>3, <2>2 DEF StartsTo
<1>4. CASE q <= p
  <2>1. StartsTo(s, q, cuts) \in SUBSET StartsTo(s, p, cuts)
    BY <1>1, <1>4 DEF StartsTo
  <2>2. StartsTo(s, p, cuts) = StartsTo(s, q, cuts)
    BY <1>1, <1>2, <2>1, StartsFinite, FS_Subset
  <2> QED  BY <1>1, <1>4, <2>2 DEF StartsTo
<1> QED  BY <1>1, <1>3, <1>4

(* ns are the numbers of s that begin at n or before.                      *)
ReadTo(s, n, base, ns, cuts) ==
  /\ Len(ns) = Cardinality(StartsTo(s, n, cuts))
  /\ \A k \in 1 .. Len(ns) : \E p \in StartsTo(s, n, cuts) :
       Rank(s, p, cuts) = k /\ ns[k] = strtol(Piece(s, p, cuts), base)

(* No number goes on after the first n characters.                         *)
Between(s, n, cuts) ==
  /\ n \in 0 .. Len(s)
  /\ n = 0 \/ n = Len(s) \/ s[n] = Space \/ s[n + 1] = Space \/ n \in cuts

LEMMA NothingRead ==
  ASSUME NEW s \in Seq(Int), NEW base, NEW cuts
  PROVE  ReadTo(s, 0, base, << >>, cuts) /\ Between(s, 0, cuts)
<1>1. StartsTo(s, 0, cuts) = {}
  BY DEF StartsTo, Starts
<1>2. Cardinality(StartsTo(s, 0, cuts)) = 0
  BY <1>1, FS_EmptySet
<1>3. Len(<< >>) = 0 /\ 0 \in 0 .. Len(s)
  OBVIOUS
<1> QED  BY <1>2, <1>3 DEF ReadTo, Between

(* Separators are no numbers.                                              *)
LEMMA ReadSpaces ==
  ASSUME NEW s \in Seq(Int), NEW n, NEW m, NEW base, NEW ns, NEW cuts,
         ReadTo(s, n, base, ns, cuts), Between(s, n, cuts), m \in n .. Len(s),
         \A q \in n + 1 .. m : s[q] = Space
  PROVE  ReadTo(s, m, base, ns, cuts) /\ Between(s, m, cuts)
<1>1. n \in 0 .. Len(s) /\ m \in Int
  BY DEF Between
<1>2. StartsTo(s, m, cuts) = StartsTo(s, n, cuts)
  BY <1>1 DEF StartsTo, Starts
<1>3. Between(s, m, cuts)
  BY <1>1 DEF Between
<1> QED  BY <1>2, <1>3 DEF ReadTo

(* The first character after them begins a number.                         *)
LEMMA NumberBegins ==
  ASSUME NEW s \in Seq(Int), NEW n, NEW cuts, Between(s, n, cuts),
         NEW first \in 1 .. Len(s), n < first, s[first] # Space,
         \A q \in n + 1 .. first - 1 : s[q] = Space
  PROVE  first \in Starts(s, cuts)
<1>1. /\ Len(s) \in Nat /\ n \in 0 .. Len(s)
      /\ n = 0 \/ n = Len(s) \/ s[n] = Space \/ s[n + 1] = Space \/ n \in cuts
  BY DEF Between
<1>2. first > 1 => s[first - 1] = Space \/ first - 1 \in cuts
  <2>1. CASE first = n + 1
    <3>1. first - 1 = n /\ n # Len(s) /\ s[n + 1] # Space /\ (first > 1 => n # 0)
      BY <1>1, <2>1
    <3> QED  BY <1>1, <3>1
  <2>2. CASE first > n + 1
    <3>1. first - 1 \in n + 1 .. first - 1
      BY <1>1, <2>2
    <3> QED  BY <3>1
  <2> QED  BY <1>1, <2>1, <2>2
<1> QED  BY <1>2 DEF Starts

(* The next number becomes the next element.                               *)
LEMMA ReadPiece ==
  ASSUME NEW s \in Seq(Int), NEW n, NEW first, NEW last, NEW base \in Nat,
         NEW ns \in Seq(Ints), NEW cuts,
         ReadTo(s, n, base, ns, cuts), Between(s, n, cuts), n < first,
         \A q \in n + 1 .. first - 1 : s[q] = Space,
         IsPiece(s, first, last, cuts)
  PROVE  /\ ReadTo(s, last, base,
                   Append(ns, strtol(SubSeq(s, first, last), base)), cuts)
         /\ Between(s, last, cuts)
<1> DEFINE value == strtol(SubSeq(s, first, last), base)
           more == Append(ns, value)
<1>1. /\ first \in 1 .. Len(s) /\ last \in first .. Len(s) /\ Len(s) \in Nat
      /\ \A q \in first .. last : s[q] # Space
      /\ \A q \in first .. last - 1 : q \notin cuts
      /\ last < Len(s) => s[last + 1] = Space \/ last \in cuts
      /\ n \in 0 .. Len(s)
  BY DEF IsPiece, Between
<1>2. first \in Starts(s, cuts)
  <2>1. s[first] # Space
    BY <1>1
  <2> QED  BY <1>1, <2>1, NumberBegins
<1>3. /\ StartsTo(s, last, cuts) = StartsTo(s, n, cuts) \cup {first}
      /\ \A q \in Starts(s, cuts) : ~ (n < q /\ q < first)
  <2>1. ASSUME NEW q \in Starts(s, cuts), n < q, q <= last PROVE q = first
    <3>1. /\ q \in 1 .. Len(s) /\ s[q] # Space
          /\ q > 1 => s[q - 1] = Space \/ q - 1 \in cuts
      BY DEF Starts
    <3>2. ~ q < first
      BY <1>1, <2>1, <3>1
    <3>3. ~ q > first
      <4> SUFFICES ASSUME q > first PROVE FALSE
        OBVIOUS
      <4>1. q - 1 \in first .. last - 1 /\ q - 1 \in first .. last /\ q > 1
        BY <1>1, <2>1, <3>1
      <4> QED  BY <1>1, <3>1, <4>1
    <3> QED  BY <1>1, <3>1, <3>2, <3>3
  <2>2. Starts(s, cuts) \subseteq Int
    BY DEF Starts
  <2> QED  BY <1>1, <1>2, <2>1, <2>2, SMTT(30) DEF StartsTo
<1>4. Rank(s, first, cuts) = Cardinality(StartsTo(s, n, cuts)) + 1
  BY <1>1, <1>2, <1>3, NextRank
<1>5. /\ Len(ns) = Cardinality(StartsTo(s, n, cuts)) /\ Len(ns) \in Nat
      /\ \A k \in 1 .. Len(ns) : \E p \in StartsTo(s, n, cuts) :
           Rank(s, p, cuts) = k /\ ns[k] = strtol(Piece(s, p, cuts), base)
  BY DEF ReadTo
<1>6. Cardinality(StartsTo(s, last, cuts)) = Len(ns) + 1
  <2>1. first \notin StartsTo(s, n, cuts)
    BY <1>1 DEF StartsTo
  <2>2. IsFiniteSet(StartsTo(s, n, cuts))
    BY <1>1, StartsFinite
  <2>3. Cardinality(StartsTo(s, n, cuts) \cup {first})
          = Cardinality(StartsTo(s, n, cuts)) + 1
    BY <2>1, <2>2, FS_AddElement
  <2> QED  BY <1>3, <1>5, <2>3
<1>7. Piece(s, first, cuts) = SubSeq(s, first, last)
  BY PieceEnds
<1> HIDE DEF value
<1>8. /\ Len(more) = Len(ns) + 1 /\ more[Len(ns) + 1] = value
      /\ \A k \in 1 .. Len(ns) : more[k] = ns[k]
  BY <1>5
<1>9. ASSUME NEW k \in 1 .. Len(more)
      PROVE  \E p \in StartsTo(s, last, cuts) :
               Rank(s, p, cuts) = k /\ more[k] = strtol(Piece(s, p, cuts), base)
  <2> HIDE DEF more
  <2>1. CASE k \in 1 .. Len(ns)
    BY <1>3, <1>5, <1>8, <2>1
  <2>2. CASE k = Len(ns) + 1
    <3>1. first \in StartsTo(s, last, cuts)
      BY <1>3
    <3> QED  BY <1>4, <1>5, <1>7, <1>8, <2>2, <3>1 DEF value
  <2> QED  BY <1>5, <1>8, <2>1, <2>2
<1>10. Between(s, last, cuts)
  BY <1>1 DEF Between
<1> HIDE DEF more
<1>11. ReadTo(s, last, base, more, cuts)
  BY <1>6, <1>8, <1>9 DEF ReadTo
<1> QED  BY <1>10, <1>11 DEF more, value

(* At the end of the file all of it has been read.                         *)
LEMMA AllRead ==
  ASSUME NEW s \in Seq(Int), NEW base, NEW S, NEW ns \in Seq(S), NEW cuts,
         ReadTo(s, Len(s), base, ns, cuts)
  PROVE  ns = Numbers(s, base, cuts)
<1>1. StartsTo(s, Len(s), cuts) = Starts(s, cuts)
  BY DEF StartsTo, Starts
<1>2. /\ Len(ns) = Cardinality(Starts(s, cuts))
      /\ \A k \in 1 .. Len(ns) : \E p \in Starts(s, cuts) :
           Rank(s, p, cuts) = k /\ ns[k] = strtol(Piece(s, p, cuts), base)
  BY <1>1 DEF ReadTo
<1>3. ASSUME NEW k \in 1 .. Len(ns)
      PROVE  ns[k] = strtol(Piece(s, CHOOSE p \in Starts(s, cuts) :
                                         Rank(s, p, cuts) = k, cuts), base)
  <2>1. PICK p \in Starts(s, cuts) :
          Rank(s, p, cuts) = k /\ ns[k] = strtol(Piece(s, p, cuts), base)
    BY <1>2
  <2> DEFINE q == CHOOSE r \in Starts(s, cuts) : Rank(s, r, cuts) = k
  <2>2. q \in Starts(s, cuts) /\ Rank(s, q, cuts) = k
    BY <2>1
  <2> HIDE DEF q
  <2>3. q = p
    BY <2>1, <2>2, RanksDiffer
  <2> QED  BY <2>1, <2>3 DEF q
<1>4. ns = [k \in 1 .. Len(ns) |-> ns[k]]
  OBVIOUS
<1>5. ns = [k \in 1 .. Len(ns) |->
              strtol(Piece(s, CHOOSE p \in Starts(s, cuts) :
                                  Rank(s, p, cuts) = k, cuts), base)]
  BY <1>3, <1>4, Zenon
<1> QED  BY <1>2, <1>5 DEF Numbers

(* What has been read is never more than there is.                         *)
LEMMA ReadIsInFile ==
  ASSUME NEW s \in Seq(Int), NEW n \in Int, NEW base, NEW ns, NEW cuts,
         ReadTo(s, n, base, ns, cuts)
  PROVE  Len(ns) <= Len(Numbers(s, base, cuts))
<1>1. StartsTo(s, Len(s), cuts) = Starts(s, cuts)
  BY DEF StartsTo, Starts
<1>2. IsFiniteSet(Starts(s, cuts)) /\ Cardinality(Starts(s, cuts)) \in Nat
  <2>1. Len(s) \in Int
    OBVIOUS
  <2> QED  BY <1>1, <2>1, StartsFinite
<1>3. StartsTo(s, n, cuts) \in SUBSET Starts(s, cuts)
  BY DEF StartsTo
<1>4. Cardinality(StartsTo(s, n, cuts)) <= Cardinality(Starts(s, cuts))
  BY <1>2, <1>3, FS_Subset
<1>5. Len(Numbers(s, base, cuts)) = Cardinality(Starts(s, cuts))
  BY <1>2 DEF Numbers
<1> QED  BY <1>4, <1>5 DEF ReadTo

LEMMA NumbersCount ==
  ASSUME NEW s \in Seq(Int), NEW base, NEW cuts
  PROVE  Len(Numbers(s, base, cuts)) \in Nat
<1>1. StartsTo(s, Len(s), cuts) = Starts(s, cuts) /\ Len(s) \in Int
  BY DEF StartsTo, Starts
<1>2. Cardinality(Starts(s, cuts)) \in Nat
  BY <1>1, StartsFinite
<1> QED  BY <1>2 DEF Numbers

(* s is the beginning of t, and no number goes on in the rest of it.       *)
Begins(s, t, cuts) ==
  /\ Len(s) <= Len(t) /\ \A k \in 1 .. Len(s) : t[k] = s[k]
  /\ s = << >> \/ Len(s) = Len(t) \/ s[Len(s)] = Space \/ Len(s) \in cuts

(* The numbers of s are the first ones of t.                               *)
LEMMA BeginningReads ==
  ASSUME NEW s \in Seq(Int), NEW t \in Seq(Int), NEW base, NEW ns, NEW cuts,
         Begins(s, t, cuts)
  PROVE  /\ ReadTo(s, Len(s), base, ns, cuts) <=> ReadTo(t, Len(s), base, ns, cuts)
         /\ Between(t, Len(s), cuts)
<1>1. /\ Len(s) \in Nat /\ Len(t) \in Nat /\ Len(s) <= Len(t)
      /\ \A k \in 1 .. Len(s) : t[k] = s[k]
      /\ DOMAIN s = 1 .. Len(s) /\ DOMAIN t = 1 .. Len(t)
  BY DEF Begins
<1>0. Len(s) = 0 \/ Len(s) = Len(t) \/ s[Len(s)] = Space \/ Len(s) \in cuts
  BY DEF Begins
<1>2. ASSUME NEW q \in Int, q <= Len(s)
      PROVE  q \in Starts(s, cuts) <=> q \in Starts(t, cuts)
  <2>1. CASE q \in 1 .. Len(s)
    <3>1. s[q] = t[q] /\ q \in 1 .. Len(t)
      BY <1>1, <2>1
    <3>2. q > 1 => s[q - 1] = t[q - 1]
      <4> SUFFICES ASSUME q > 1 PROVE s[q - 1] = t[q - 1]
        OBVIOUS
      <4>1. q - 1 \in 1 .. Len(s)
        BY <1>1, <2>1
      <4> QED  BY <1>1, <4>1
    <3> QED  BY <1>1, <2>1, <3>1, <3>2 DEF Starts
  <2>2. CASE q \notin 1 .. Len(s)
    <3>1. q < 1
      BY <1>1, <1>2, <2>2
    <3> QED  BY <1>1, <3>1 DEF Starts
  <2> QED  BY <2>1, <2>2
<1>3. /\ Starts(s, cuts) \subseteq Int /\ Starts(t, cuts) \subseteq Int
      /\ \A q \in Starts(s, cuts) : q <= Len(s)
  BY <1>1 DEF Starts
<1>4. StartsTo(t, Len(s), cuts) = StartsTo(s, Len(s), cuts)
  BY <1>1, <1>2, <1>3 DEF StartsTo
<1>5. ASSUME NEW p \in StartsTo(s, Len(s), cuts)
      PROVE  Rank(t, p, cuts) = Rank(s, p, cuts) /\ Piece(t, p, cuts) = Piece(s, p, cuts)
  <2>1. p \in Starts(s, cuts) /\ p \in 1 .. Len(s) /\ s[p] # Space
    BY <1>1 DEF StartsTo, Starts
  <2>2. {q \in Starts(t, cuts) : q <= p} = {q \in Starts(s, cuts) : q <= p}
    BY <1>1, <1>2, <1>3, <2>1
  <2>3. PICK e \in p .. Len(s) :
          IsPiece(s, p, e, cuts) /\ Piece(s, p, cuts) = SubSeq(s, p, e)
    BY <2>1, PieceExists
  <2>4. /\ e \in 1 .. Len(s) /\ p <= e /\ (\A q \in p .. e : s[q] # Space)
        /\ \A q \in p .. e - 1 : q \notin cuts
        /\ e < Len(s) => s[e + 1] = Space \/ e \in cuts
    BY <1>1, <2>1, <2>3 DEF IsPiece
  <2>5. e < Len(t) => t[e + 1] = Space \/ e \in cuts
    <3> SUFFICES ASSUME e < Len(t) PROVE t[e + 1] = Space \/ e \in cuts
      OBVIOUS
    <3>1. CASE e < Len(s)
      <4>1. e + 1 \in 1 .. Len(s)
        BY <1>1, <2>4, <3>1
      <4> QED  BY <1>1, <2>4, <3>1, <4>1
    <3>2. CASE e = Len(s)
      <4>1. s[e] # Space
        BY <1>1, <2>1, <2>4
      <4>2. Len(s) # 0
        BY <1>1, <2>1
      <4>3. Len(s) # Len(t)
        <5>1. Len(s) < Len(t)
          BY <3>2
        <5>2. Len(s) \in Nat /\ Len(t) \in Nat
          OBVIOUS
        <5> QED  BY <5>1, <5>2
      <4> QED  BY <1>0, <3>2, <4>1, <4>2, <4>3, Zenon
    <3>3. e \in Int /\ e <= Len(s)
      BY <2>4
    <3> QED  BY <1>1, <3>1, <3>2, <3>3
  <2>6. IsPiece(t, p, e, cuts)
    <3>1. e \in p .. Len(t) /\ p \in 1 .. Len(t)
      BY <1>1, <2>1, <2>4
    <3>2. ASSUME NEW q \in p .. e PROVE t[q] # Space
      <4>1. q \in 1 .. Len(s)
        BY <1>1, <2>1, <2>4
      <4> QED  BY <1>1, <2>4, <4>1
    <3> QED  BY <2>4, <2>5, <3>1, <3>2 DEF IsPiece
  <2>7. SubSeq(t, p, e) = SubSeq(s, p, e)
    <3> DEFINE x == SubSeq(s, p, e)
               y == SubSeq(t, p, e)
    <3>1. p \in Int /\ e \in Int /\ p <= e
      BY <1>1, <2>1, <2>4
    <3>2. \A q \in p .. e : s[q] \in Int /\ t[q] = s[q]
      <4> SUFFICES ASSUME NEW q \in p .. e PROVE s[q] \in Int /\ t[q] = s[q]
        OBVIOUS
      <4>1. q \in 1 .. Len(s)
        BY <1>1, <2>1, <2>4
      <4> QED  BY <1>1, <4>1
    <3>3. /\ x \in Seq(Int) /\ Len(x) = e - p + 1
          /\ \A k \in 1 .. e - p + 1 : x[k] = s[p + k - 1]
      BY <3>1, <3>2, SubSeqProperties
    <3>4. /\ y \in Seq(Int) /\ Len(y) = e - p + 1
          /\ \A k \in 1 .. e - p + 1 : y[k] = t[p + k - 1]
      <4>1. \A q \in p .. e : t[q] \in Int
        BY <3>2
      <4> QED  BY <3>1, <4>1, SubSeqProperties
    <3> HIDE DEF x, y
    <3>5. ASSUME NEW k \in 1 .. Len(x) PROVE x[k] = y[k]
      <4>1. p + k - 1 \in p .. e
        BY <3>1, <3>3
      <4> QED  BY <3>2, <3>3, <3>4, <4>1
    <3>6. x = y
      BY <3>3, <3>4, <3>5, SeqEqual
    <3> QED  BY <3>6 DEF x, y
  <2>8. Piece(t, p, cuts) = SubSeq(t, p, e)
    BY <2>6, PieceEnds
  <2> QED  BY <2>2, <2>3, <2>7, <2>8 DEF Rank
<1>6. Between(t, Len(s), cuts)
  <2>1. Len(s) = 0 \/ Len(s) = Len(t) \/ t[Len(s)] = Space \/ Len(s) \in cuts
    <3>1. Len(s) # 0 => Len(s) \in 1 .. Len(s)
      BY <1>1
    <3> QED  BY <1>0, <1>1, <3>1
  <2>2. Len(s) \in 0 .. Len(t)
    BY <1>1
  <2> QED  BY <2>1, <2>2 DEF Between
<1>7. ReadTo(s, Len(s), base, ns, cuts) <=> ReadTo(t, Len(s), base, ns, cuts)
  BY <1>4, <1>5 DEF ReadTo
<1> QED  BY <1>6, <1>7

(* How far the file has been read, the buffer's rest left out.             *)
reached == pos - Len(buffer) + at - 1

SoFar ==
  /\ ReadTo(file, reached, Base(readHex), array, Cuts)
  /\ Between(file, reached, Cuts)

(* The buffer of hw6 is a part of the file from where one read began to    *)
(* where it ended.                                                         *)
Buffered ==
  /\ Len(buffer) <= pos
  /\ buffer = SubSeq(file, pos - Len(buffer) + 1, pos)
  /\ \E m \in Nat : pos - Len(buffer) = BufferSize * m
  /\ pos = Len(file) \/ \E m \in Nat : pos = BufferSize * m

(* What each reader can make sense of.                                     *)
Legible == program = "hw6" \/ OnlyNumbers(file, Base(readHex))

ReadingInv ==
  /\ program # "hw6" => buffer = << >>
  /\ pc = "open" => pos = 0 /\ buffer = << >> /\ array = << >>
  /\ pc = "read" /\ program = "hw6" => Buffered
  /\ pc = "read" /\ program # "hw6" => limit = MaxNumbers \div IntSize
  /\ pc = "read" /\ Legible => SoFar
  /\ ReadsTheFile

LEMMA ReachedType ==
  ASSUME FileInv
  PROVE  /\ file \in Seq(Int) /\ buffer \in Seq(Int) /\ array \in Seq(Ints)
         /\ Len(file) \in Nat /\ Len(buffer) \in Nat
         /\ pos \in 0 .. Len(file) /\ at \in 1 .. Len(buffer) + 1
         /\ BufferSize \in Nat \ {0} /\ reached \in Int
         /\ buffer = << >> => reached = pos /\ at = 1
<1>1. /\ file \in Seq(Int) /\ buffer \in Seq(Int) /\ array \in Seq(Ints)
      /\ pos \in 0 .. Len(file) /\ at \in 1 .. Len(buffer) + 1
      /\ BufferSize \in Nat \ {0}
  BY SortFileAssumption DEF FileInv, TypeOK
<1>2. Len(file) \in Nat /\ Len(buffer) \in Nat
  BY <1>1
<1>3. reached \in Int
  BY <1>1, <1>2 DEF reached
<1>4. buffer = << >> => reached = pos /\ at = 1
  <2>1. Len(<< >>) = 0
    OBVIOUS
  <2> QED  BY <1>1, <1>2, <2>1 DEF reached
<1> QED  BY <1>1, <1>2, <1>3, <1>4

LEMMA ReadInvInit == Init => ReadingInv
BY DEF Init, Call, ReadingInv, ReadsTheFile, ReadsItsBuffers, ScansItsNumbers

(* What is said of the file once it has been read is not said before.      *)
LEMMA StillReading ==
  pc' \in {"open", "read", "failed", "crashed"} => ReadsTheFile'
BY DEF ReadsTheFile, ReadsItsBuffers, ScansItsNumbers

(* main opens the file, and nothing is read.                               *)
LEMMA OpenReads == FileInv /\ ReadingInv /\ Open => ReadingInv'
<1> SUFFICES ASSUME FileInv, ReadingInv, Open PROVE ReadingInv'
  OBVIOUS
<1>1. /\ pc = "open" /\ pc' = "read"
      /\ limit' = IF program = "hw6" THEN FirstLimit ELSE MaxNumbers \div IntSize
      /\ UNCHANGED <<array, original, program, file, readHex, pos, buffer, at>>
  BY DEF Open, options, sortVars
<1>2. pos = 0 /\ buffer = << >> /\ array = << >> /\ at = 1 /\ reached = 0
  BY <1>1, ReachedType DEF ReadingInv
<1>3. reached' = 0
  BY <1>1, <1>2 DEF reached
<1>4. SoFar'
  <2>1. file \in Seq(Int)
    BY ReachedType
  <2>2. /\ ReadTo(file, 0, Base(readHex), << >>, Cuts)
        /\ Between(file, 0, Cuts)
    BY <2>1, NothingRead
  <2>3. Cuts' = Cuts
    BY <1>1 DEF Cuts
  <2> QED  BY <1>1, <1>2, <1>3, <2>2, <2>3 DEF SoFar
<1>5. Buffered'
  <2>1. /\ file \in Seq(Int) /\ BufferSize \in Nat /\ Len(<< >>) = 0
    BY ReachedType
  <2>2. SubSeq(file, 1, 0) = << >> /\ 0 = BufferSize * 0 /\ 0 - 0 = 0
    BY <2>1
  <2> QED  BY <1>1, <1>2, <2>1, <2>2 DEF Buffered
<1>6. (program # "hw6" => buffer = << >>)'
  BY <1>1 DEF ReadingInv
<1> QED  BY <1>1, <1>4, <1>5, <1>6, StillReading DEF ReadingInv

(* The next piece of the file comes into the buffer.                       *)
LEMMA ReadReads == FileInv /\ ReadingInv /\ Read => ReadingInv'
<1> SUFFICES ASSUME FileInv, ReadingInv, Read PROVE ReadingInv'
  OBVIOUS
<1> DEFINE end == Min({pos + BufferSize, Len(file)})
<1>1. /\ program = "hw6" /\ pc = "read" /\ at > Len(buffer) /\ pos < Len(file)
      /\ buffer' = SubSeq(file, pos + 1, end) /\ pos' = end /\ at' = 1
      /\ UNCHANGED <<array, original, program, file, readHex, pc, limit>>
  BY DEF Read, options, sortVars
<1>2. /\ file \in Seq(Int) /\ Len(file) \in Nat /\ Len(buffer) \in Nat
      /\ pos \in 0 .. Len(file) /\ at \in 1 .. Len(buffer) + 1
      /\ BufferSize \in Nat \ {0}
  BY ReachedType
<1>3. /\ end \in {pos + BufferSize, Len(file)}
      /\ end <= pos + BufferSize /\ end <= Len(file)
  <2>1. pos + BufferSize \in Int /\ Len(file) \in Int
    BY <1>2
  <2> QED  BY <2>1, MinOfTwo
<1> HIDE DEF end
<1>4. end \in pos + 1 .. Len(file)
  BY <1>1, <1>2, <1>3
<1>5. Len(buffer') = end - pos
  BY <1>1, <1>2, <1>4
<1>6. reached' = pos /\ reached = pos
  <2>1. reached' = pos' - Len(buffer') + at' - 1
    BY DEF reached
  <2>2. reached = pos - Len(buffer) + at - 1
    BY DEF reached
  <2>3. end \in Int
    BY <1>4
  <2>4. reached' = end - (end - pos) + 1 - 1
    BY <1>1, <1>5, <2>1
  <2>5. at = Len(buffer) + 1
    BY <1>1, <1>2
  <2> QED  BY <1>2, <2>2, <2>3, <2>4, <2>5
<1>7. Buffered'
  <2>1. Buffered
    BY <1>1 DEF ReadingInv
  <2>2. PICK m \in Nat : pos = BufferSize * m
    BY <1>1, <1>2, <2>1 DEF Buffered
  <2>3. pos + BufferSize = BufferSize * (m + 1)
    BY <1>2, <2>2
  <2>4. pos' = Len(file) \/ \E n \in Nat : pos' = BufferSize * n
    BY <1>1, <1>3, <2>3
  <2>5. /\ pos' - Len(buffer') + 1 = pos + 1 /\ Len(buffer') <= pos'
        /\ pos' - Len(buffer') = BufferSize * m
    BY <1>1, <1>2, <1>4, <1>5, <2>2
  <2> QED  BY <1>1, <2>4, <2>5 DEF Buffered
<1>8. Legible' = Legible /\ Cuts' = Cuts
  BY <1>1 DEF Legible, Cuts
<1>9. Legible => SoFar'
  BY <1>1, <1>6, <1>8 DEF ReadingInv, SoFar
<1> QED  BY <1>1, <1>7, <1>8, <1>9, StillReading DEF ReadingInv

LEMMA TimesGrows ==
  ASSUME NEW n \in Nat, NEW a \in Int, NEW b \in Int, a <= b
  PROVE  n * a <= n * b /\ n * a \in Int /\ n * b \in Int
<1>1. n * (b - a) >= 0 /\ n * (b - a) = n * b - n * a
  BY SMTT(20)
<1> QED  BY <1>1

LEMMA RemainderIs ==
  ASSUME NEW r \in Nat \ {0}, NEW m \in Int, NEW a \in 0 .. r - 1
  PROVE  (r * m + a) \div r = m /\ (r * m + a) % r = a
<1> DEFINE x == r * m + a
           k == x \div r
           b == x % r
<1>1. x \in Int
  OBVIOUS
<1> HIDE DEF x
<1>2. x = r * k + b /\ b \in 0 .. r - 1 /\ k \in Int
  BY <1>1, SMTT(30)
<1>3. x = r * m + a
  BY DEF x
<1> HIDE DEF k, b
<1>4. r * (k - m) = a - b
  BY <1>2, <1>3, SMTT(30)
<1>5. ~ k - m >= 1
  <2> SUFFICES ASSUME k - m >= 1 PROVE FALSE
    OBVIOUS
  <2>1. r * 1 <= r * (k - m)
    BY <1>2, TimesGrows
  <2> QED  BY <1>2, <1>4, <2>1
<1>6. ~ k - m <= -1
  <2> SUFFICES ASSUME k - m <= -1 PROVE FALSE
    OBVIOUS
  <2>1. r * (k - m) <= r * (-1)
    BY <1>2, TimesGrows
  <2> QED  BY <1>2, <1>4, <2>1
<1>7. k = m
  BY <1>2, <1>5, <1>6
<1>8. b = a
  BY <1>2, <1>4, <1>7, SMTT(30)
<1> QED  BY <1>7, <1>8 DEF k, b, x

LEMMA MultipleMod ==
  ASSUME NEW r \in Nat \ {0}, NEW m \in Int
  PROVE  (r * m) % r = 0
<1>1. r * m + 0 = r * m /\ 0 \in 0 .. r - 1
  OBVIOUS
<1>2. (r * m + 0) % r = 0
  BY <1>1, RemainderIs
<1> QED  BY <1>1, <1>2

(* The characters of the buffer are those of the file.                     *)
LEMMA BufferShowsFile ==
  ASSUME FileInv, Buffered
  PROVE  /\ \A q \in 1 .. Len(buffer) : /\ buffer[q] = file[pos - Len(buffer) + q]
                                        /\ pos - Len(buffer) + q \in 1 .. Len(file)
         /\ \A p \in 1 .. Len(buffer), q \in 1 .. Len(buffer) :
              p <= q => SubSeq(buffer, p, q)
                          = SubSeq(file, pos - Len(buffer) + p, pos - Len(buffer) + q)
<1> DEFINE o == pos - Len(buffer)
<1>1. /\ file \in Seq(Int) /\ Len(file) \in Nat /\ Len(buffer) \in Nat
      /\ pos \in 0 .. Len(file) /\ buffer \in Seq(Int)
  BY ReachedType
<1>2. o \in Nat /\ buffer = SubSeq(file, o + 1, pos) /\ o + Len(buffer) = pos
  BY <1>1 DEF Buffered
<1> HIDE DEF o
<1>3. ASSUME NEW q \in 1 .. Len(buffer)
      PROVE  buffer[q] = file[o + q] /\ o + q \in 1 .. Len(file)
  <2>1. \A k \in o + 1 .. pos : file[k] \in Int
    BY <1>1, <1>2
  <2>2. \A k \in 1 .. pos - (o + 1) + 1 : buffer[k] = file[o + 1 + k - 1]
    <3>1. \A k \in 1 .. pos - (o + 1) + 1 :
            SubSeq(file, o + 1, pos)[k] = file[o + 1 + k - 1]
      <4>1. o + 1 \in Int /\ pos \in Int
        BY <1>1, <1>2
      <4> QED  BY <2>1, <4>1, SubSeqProperties
    <3> QED  BY <1>2, <3>1
  <2>3. q \in 1 .. pos - (o + 1) + 1 /\ o + 1 + q - 1 = o + q
    BY <1>1, <1>2
  <2>4. o + q \in 1 .. Len(file)
    BY <1>1, <1>2
  <2> QED  BY <2>2, <2>3, <2>4
<1>4. ASSUME NEW p \in 1 .. Len(buffer), NEW q \in 1 .. Len(buffer), p <= q
      PROVE  SubSeq(buffer, p, q) = SubSeq(file, o + p, o + q)
  <2> DEFINE s == SubSeq(buffer, p, q)
             t == SubSeq(file, o + p, o + q)
  <2>1. o + q \in 1 .. Len(file) /\ o + p \in 1 .. Len(file) /\ p \in Int /\ q \in Int
    BY <1>3
  <2>2. /\ s \in Seq(Int) /\ Len(s) = q - p + 1
        /\ \A k \in 1 .. q - p + 1 : s[k] = buffer[p + k - 1]
    <3>1. q \in p .. Len(buffer)
      BY <1>1, <1>4, <2>1
    <3> QED  BY <1>1, <3>1, PieceIs
  <2>3. /\ t \in Seq(Int) /\ Len(t) = q - p + 1
        /\ \A k \in 1 .. q - p + 1 : t[k] = file[o + p + k - 1]
    <3>1. o + q \in o + p .. Len(file) /\ (o + q) - (o + p) + 1 = q - p + 1
      BY <1>1, <1>2, <1>4, <2>1
    <3>2. o + p \in 1 .. Len(file) /\ file \in Seq(Int)
      BY <1>1, <2>1
    <3> HIDE DEF s
    <3>3. /\ t \in Seq(Int) /\ Len(t) = (o + q) - (o + p) + 1
          /\ \A k \in 1 .. (o + q) - (o + p) + 1 : t[k] = file[(o + p) + k - 1]
      BY <3>1, <3>2, PieceIs
    <3> QED  BY <3>1, <3>3
  <2> HIDE DEF s, t
  <2>4. ASSUME NEW k \in 1 .. Len(s) PROVE s[k] = t[k]
    <3>1. p + k - 1 \in 1 .. Len(buffer) /\ o + (p + k - 1) = o + p + k - 1
      BY <1>1, <1>2, <1>4, <2>1, <2>2
    <3>2. buffer[p + k - 1] = file[o + p + k - 1]
      BY <1>3, <3>1
    <3> QED  BY <2>2, <2>3, <3>2
  <2>5. s = t
    BY <2>2, <2>3, <2>4, SeqEqual
  <2> QED  BY <2>5 DEF s, t
<1> QED  BY <1>3, <1>4 DEF o

LEMMA SkipSeparatorReads == FileInv /\ ReadingInv /\ SkipSeparator => ReadingInv'
<1> SUFFICES ASSUME FileInv, ReadingInv, SkipSeparator PROVE ReadingInv'
  OBVIOUS
<1>1. /\ pc = "read" /\ at <= Len(buffer) /\ buffer[at] = Space /\ at' = at + 1
      /\ UNCHANGED <<array, original, program, file, readHex, pc, pos, buffer, limit>>
  BY DEF SkipSeparator, options, sortVars
<1>2. /\ file \in Seq(Int) /\ Len(file) \in Nat /\ Len(buffer) \in Nat
      /\ pos \in 0 .. Len(file) /\ at \in 1 .. Len(buffer) + 1 /\ reached \in Int
  BY ReachedType
<1>3. program = "hw6" /\ Buffered
  <2>1. buffer # << >>
    BY <1>1, <1>2
  <2> QED  BY <1>1, <2>1 DEF ReadingInv
<1>4. reached' = reached + 1 /\ file[reached + 1] = Space /\ reached + 1 \in 1 .. Len(file)
  <2>1. at \in 1 .. Len(buffer) /\ reached + 1 = pos - Len(buffer) + at
    BY <1>1, <1>2 DEF reached
  <2>2. reached' = reached + 1
    BY <1>1, <1>2 DEF reached
  <2> QED  BY <1>1, <1>3, <2>1, <2>2, BufferShowsFile
<1>5. Legible' = Legible /\ Cuts' = Cuts /\ Buffered'
  BY <1>1, <1>3 DEF Legible, Cuts, Buffered
<1>6. Legible => SoFar'
  <2> SUFFICES ASSUME SoFar PROVE SoFar'
    BY <1>1 DEF ReadingInv
  <2>1. /\ ReadTo(file, reached, Base(readHex), array, Cuts)
        /\ Between(file, reached, Cuts)
        /\ \A q \in reached + 1 .. reached + 1 : file[q] = Space
        /\ reached + 1 \in reached .. Len(file)
    BY <1>2, <1>4 DEF SoFar
  <2>2. /\ ReadTo(file, reached + 1, Base(readHex), array, Cuts)
        /\ Between(file, reached + 1, Cuts)
    BY <1>2, <2>1, ReadSpaces
  <2> QED  BY <1>1, <1>4, <1>5, <2>2 DEF SoFar
<1> QED  BY <1>1, <1>5, <1>6, StillReading DEF ReadingInv

(* A number of the buffer is one of the file as it is cut into buffers.    *)
LEMMA BufferToken ==
  ASSUME FileInv, Buffered, program = "hw6", at <= Len(buffer), buffer[at] # Space
  PROVE  \E last \in reached + 1 .. Len(file) :
           /\ IsPiece(file, reached + 1, last, Cuts)
           /\ Token(buffer, at) = SubSeq(file, reached + 1, last)
           /\ Len(Token(buffer, at)) = last - reached
<1> DEFINE o == pos - Len(buffer)
<1>1. /\ file \in Seq(Int) /\ Len(file) \in Nat /\ Len(buffer) \in Nat
      /\ pos \in 0 .. Len(file) /\ at \in 1 .. Len(buffer) /\ reached \in Int
      /\ buffer \in Seq(Int) /\ BufferSize \in Nat \ {0}
  BY ReachedType
<1>2. /\ o \in Nat /\ o + Len(buffer) = pos /\ reached + 1 = o + at
  BY <1>1 DEF Buffered, reached
<1>3. /\ \A q \in 1 .. Len(buffer) : buffer[q] = file[o + q] /\ o + q \in 1 .. Len(file)
      /\ \A p \in 1 .. Len(buffer), q \in 1 .. Len(buffer) :
           p <= q => SubSeq(buffer, p, q) = SubSeq(file, o + p, o + q)
  BY BufferShowsFile
<1> HIDE DEF o
<1>4. PICK e \in at .. Len(buffer) :
        IsPiece(buffer, at, e, {}) /\ Token(buffer, at) = SubSeq(buffer, at, e)
  BY <1>1, PieceExists DEF Token
<1>7. e \in at .. Len(buffer) /\ \A k \in at .. e : buffer[k] # Space
  BY <1>4 DEF IsPiece
<1>8. e < Len(buffer) => buffer[e + 1] = Space
  BY <1>4 DEF IsPiece
<1>9. e = Len(buffer) /\ pos < Len(file) => pos \in Cuts
  <2> SUFFICES ASSUME e = Len(buffer), pos < Len(file) PROVE pos \in Cuts
    OBVIOUS
  <2>1. PICK m \in Nat : pos = BufferSize * m
    BY <1>1 DEF Buffered
  <2>2. pos % BufferSize = 0
    <3>0. BufferSize \in Nat \ {0} /\ m \in Int
      BY <1>1
    <3>1. (BufferSize * m) % BufferSize = 0
      BY <3>0, MultipleMod
    <3> QED  BY <2>1, <3>1
  <2>3. pos \in DOMAIN file
    BY <1>1, <1>2, <1>7
  <2> QED  BY <2>2, <2>3 DEF Cuts
<1> DEFINE last == o + e
<1>10. /\ last \in reached + 1 .. Len(file) /\ reached + 1 \in 1 .. Len(file)
       /\ last - reached = e - at + 1
  <2>1. e \in 1 .. Len(buffer) /\ at <= e
    BY <1>1, <1>7
  <2>2. last \in 1 .. Len(file) /\ o + at \in 1 .. Len(file)
    BY <1>1, <1>3, <2>1
  <2>3. last = o + e /\ o \in Int /\ e \in Int /\ at \in Int /\ reached = o + at - 1
    BY <1>1, <1>2, <2>1
  <2> HIDE DEF last
  <2>4. last - reached = e - at + 1 /\ last >= reached + 1 /\ reached + 1 = o + at
    BY <2>1, <2>3
  <2> QED  BY <1>1, <2>2, <2>4
<1>11. ASSUME NEW q \in reached + 1 .. last PROVE file[q] # Space
  <2>1. /\ o \in Int /\ e \in Int /\ at \in Int /\ q \in Int /\ Len(buffer) \in Int
        /\ reached + 1 = o + at /\ last = o + e /\ q >= reached + 1 /\ q <= last
        /\ 1 <= at /\ e <= Len(buffer)
    BY <1>1, <1>2, <1>7, <1>10
  <2> HIDE DEF last
  <2>2. q - o \in at .. e /\ o + (q - o) = q /\ q - o \in 1 .. Len(buffer)
    BY <2>1
  <2> QED  BY <1>3, <1>7, <2>2
<1>12. last < Len(file) => file[last + 1] = Space \/ last \in Cuts
  <2>1. CASE e < Len(buffer)
    <3>1. e + 1 \in 1 .. Len(buffer) /\ o + (e + 1) = last + 1
      BY <1>1, <1>2, <1>7, <2>1
    <3> QED  BY <1>3, <1>8, <2>1, <3>1
  <2>2. CASE e = Len(buffer)
    <3>1. last = pos
      BY <1>2, <2>2
    <3> QED  BY <1>9, <2>2, <3>1
  <2> QED  BY <1>1, <1>7, <2>1, <2>2
<1>13. ASSUME NEW q \in reached + 1 .. last - 1 PROVE q \notin Cuts
  <2>1. PICK m \in Nat : o = BufferSize * m
    BY DEF Buffered, o
  <2>2. Len(buffer) <= BufferSize
    BY DEF FileInv, TypeOK
  <2> DEFINE a == q - o
  <2>3. a \in 1 .. BufferSize - 1 /\ a \in 0 .. BufferSize - 1 /\ q = o + a
    <3>1. /\ o \in Int /\ e \in Int /\ at \in Int /\ q \in Int /\ Len(buffer) \in Int
          /\ reached + 1 = o + at /\ q >= reached + 1 /\ q <= o + e - 1
          /\ 1 <= at /\ e <= Len(buffer) /\ BufferSize \in Int
      BY <1>1, <1>2, <1>7, <1>10
    <3> QED  BY <2>2, <3>1
  <2> HIDE DEF a
  <2>4. (BufferSize * m + a) % BufferSize = a
    <3>1. BufferSize \in Nat \ {0} /\ m \in Int /\ a \in 0 .. BufferSize - 1
      BY <1>1, <2>3
    <3> QED  BY <3>1, RemainderIs
  <2>5. q % BufferSize # 0
    BY <2>1, <2>3, <2>4
  <2> QED  BY <2>5 DEF Cuts
<1>16. IsPiece(file, reached + 1, last, Cuts)
  BY <1>10, <1>11, <1>12, <1>13 DEF IsPiece
<1>14. SubSeq(buffer, at, e) = SubSeq(file, reached + 1, last)
  <2>1. e \in 1 .. Len(buffer) /\ at <= e
    BY <1>1, <1>7
  <2>2. SubSeq(buffer, at, e) = SubSeq(file, o + at, o + e)
    BY <1>1, <1>3, <2>1
  <2> QED  BY <1>2, <2>2
<1>15. Len(SubSeq(buffer, at, e)) = e - at + 1
  BY <1>1, <1>7
<1> QED  BY <1>4, <1>10, <1>14, <1>15, <1>16

LEMMA ReadNumberReads == FileInv /\ ReadingInv /\ ReadNumber => ReadingInv'
<1> SUFFICES ASSUME FileInv, ReadingInv, ReadNumber PROVE ReadingInv'
  OBVIOUS
<1> DEFINE str == Token(buffer, at)
<1>1. /\ pc = "read" /\ at <= Len(buffer) /\ buffer[at] # Space
      /\ array' = Append(array, strtol(str, Base(readHex)))
      /\ at' = at + Len(str)
      /\ UNCHANGED <<original, program, file, readHex, pc, pos, buffer>>
  BY DEF ReadNumber, AtNumber, options
<1> HIDE DEF str
<1>2. /\ file \in Seq(Int) /\ Len(file) \in Nat /\ Len(buffer) \in Nat
      /\ array \in Seq(Ints) /\ pos \in 0 .. Len(file)
      /\ at \in 1 .. Len(buffer) + 1 /\ reached \in Int
  BY ReachedType
<1>3. program = "hw6" /\ Buffered
  <2>1. buffer # << >>
    BY <1>1, <1>2
  <2> QED  BY <1>1, <2>1 DEF ReadingInv
<1>4. Legible' = Legible /\ Cuts' = Cuts /\ Buffered'
  BY <1>1, <1>3 DEF Legible, Cuts, Buffered
<1>5. SoFar'
  <2>0. SoFar
    BY <1>1, <1>3 DEF ReadingInv, Legible
  <2>1. PICK last \in reached + 1 .. Len(file) :
          /\ IsPiece(file, reached + 1, last, Cuts)
          /\ str = SubSeq(file, reached + 1, last)
          /\ Len(str) = last - reached
    BY <1>1, <1>3, BufferToken DEF str
  <2>2. reached' = last
    <3>1. reached' = pos' - Len(buffer') + at' - 1 /\ reached = pos - Len(buffer) + at - 1
      BY DEF reached
    <3>2. reached' = pos - Len(buffer) + (at + (last - reached)) - 1
      BY <1>1, <2>1, <3>1
    <3>3. last \in Int
      BY <1>2, <2>1
    <3> QED  BY <1>2, <3>1, <3>2, <3>3
  <2>3. /\ ReadTo(file, reached, Base(readHex), array, Cuts)
        /\ Between(file, reached, Cuts)
        /\ reached < reached + 1
    BY <1>2, <2>0 DEF SoFar
  <2>4. /\ ReadTo(file, last, Base(readHex),
                  Append(array, strtol(SubSeq(file, reached + 1, last), Base(readHex))),
                  Cuts)
        /\ Between(file, last, Cuts)
    <3> DEFINE first == reached + 1
               base == Base(readHex)
    <3>1. \A q \in reached + 1 .. first - 1 : file[q] = Space
      BY <1>2
    <3>2. reached < first /\ IsPiece(file, first, last, Cuts) /\ base \in Nat
      BY <2>1, <2>3, BaseType
    <3>3. ReadTo(file, reached, base, array, Cuts) /\ Between(file, reached, Cuts)
      BY <2>3
    <3> HIDE DEF first, base
    <3>4. /\ ReadTo(file, last, base,
                    Append(array, strtol(SubSeq(file, first, last), base)), Cuts)
          /\ Between(file, last, Cuts)
      BY <1>2, <3>1, <3>2, <3>3, ReadPiece
    <3> QED  BY <3>4 DEF first, base
  <2> QED  BY <1>1, <1>4, <2>1, <2>2, <2>4 DEF SoFar
<1> QED  BY <1>1, <1>3, <1>4, <1>5, StillReading DEF ReadingInv

(* A number that is too long for str is one of the file.                   *)
LEMMA OverrunReads == FileInv /\ ReadingInv /\ Overrun => ReadingInv'
<1> SUFFICES ASSUME FileInv, ReadingInv, Overrun PROVE ReadingInv'
  OBVIOUS
<1>1. /\ pc = "read" /\ pc' = "outside" /\ at <= Len(buffer) /\ buffer[at] # Space
      /\ Len(Token(buffer, at)) >= StrSize
      /\ UNCHANGED <<program, file, readHex, buffer>>
  BY DEF Overrun, AtNumber, options
<1>2. /\ file \in Seq(Int) /\ Len(file) \in Nat /\ Len(buffer) \in Nat
      /\ at \in 1 .. Len(buffer) + 1 /\ reached \in Int
  BY ReachedType
<1>3. program = "hw6" /\ Buffered
  <2>1. buffer # << >>
    BY <1>1, <1>2
  <2> QED  BY <1>1, <2>1 DEF ReadingInv
<1> DEFINE p == reached + 1
<1>4. PICK last \in p .. Len(file) :
        /\ IsPiece(file, p, last, Cuts)
        /\ Token(buffer, at) = SubSeq(file, p, last)
  BY <1>1, <1>3, BufferToken
<1>5. p \in Starts(file, Cuts)
  <2>1. Between(file, reached, Cuts)
    BY <1>1, <1>3 DEF ReadingInv, Legible, SoFar
  <2>2. p \in 1 .. Len(file) /\ last \in p .. Len(file) /\ \A q \in p .. last : file[q] # Space
    BY <1>4 DEF IsPiece
  <2>3. file[p] # Space /\ reached < p /\ \A q \in reached + 1 .. p - 1 : file[q] = Space
    BY <1>2, <2>2
  <2> HIDE DEF p
  <2> QED  BY <1>2, <2>1, <2>2, <2>3, NumberBegins
<1>6. Piece(file, p, Cuts) = Token(buffer, at)
  BY <1>2, <1>4, PieceEnds
<1> HIDE DEF p
<1>7. Cuts' = Cuts
  BY <1>1 DEF Cuts
<1>8. ReadsTheFile'
  BY <1>1, <1>3, <1>5, <1>6, <1>7 DEF ReadsTheFile, ReadsItsBuffers
<1> QED  BY <1>1, <1>3, <1>8 DEF ReadingInv

(* When the buffer is empty all that has been read of the file is in the   *)
(* array.                                                                  *)
LEMMA BuffersRead ==
  ASSUME FileInv, ReadingInv, program = "hw6", pc = "read", at > Len(buffer)
  PROVE  array = Numbers(SubSeq(file, 1, pos), Base(readHex), Cuts)
<1>1. /\ file \in Seq(Int) /\ Len(file) \in Nat /\ Len(buffer) \in Nat
      /\ array \in Seq(Ints) /\ at \in 1 .. Len(buffer) + 1
      /\ pos \in 0 .. Len(file) /\ BufferSize \in Nat \ {0}
  BY ReachedType
<1> DEFINE s == SubSeq(file, 1, pos)
<1>2. /\ s \in Seq(Int) /\ Len(s) = pos
      /\ \A k \in 1 .. Len(s) : file[k] = s[k]
  <2>1. CASE pos = 0
    BY <1>1, <2>1
  <2>2. CASE pos # 0
    <3>1. 1 \in 1 .. Len(file) /\ pos \in 1 .. Len(file) /\ pos - 1 + 1 = pos
      BY <1>1, <2>2
    <3>2. /\ s \in Seq(Int) /\ Len(s) = pos - 1 + 1
          /\ \A k \in 1 .. pos - 1 + 1 : s[k] = file[1 + k - 1]
      BY <1>1, <3>1, PieceIs
    <3> HIDE DEF s
    <3>3. \A k \in 1 .. Len(s) : 1 + k - 1 = k
      OBVIOUS
    <3> QED  BY <3>1, <3>2, <3>3
  <2> QED  BY <2>1, <2>2
<1>3. pos = 0 \/ pos = Len(file) \/ pos \in Cuts
  <2> SUFFICES ASSUME pos # 0, pos # Len(file) PROVE pos \in Cuts
    OBVIOUS
  <2>1. PICK m \in Nat : pos = BufferSize * m
    BY DEF ReadingInv, Buffered
  <2>2. pos % BufferSize = 0
    <3>1. BufferSize \in Nat \ {0} /\ m \in Int
      BY <1>1
    <3>2. (BufferSize * m) % BufferSize = 0
      BY <3>1, MultipleMod
    <3> QED  BY <2>1, <3>2
  <2>3. pos \in DOMAIN file
    BY <1>1
  <2> QED  BY <2>2, <2>3 DEF Cuts
<1> HIDE DEF s
<1>4. Begins(s, file, Cuts)
  <2>1. Len(s) <= Len(file) /\ (pos = 0 => s = << >>)
    BY <1>1, <1>2
  <2> QED  BY <1>2, <1>3, <2>1 DEF Begins
<1>5. ReadTo(file, pos, Base(readHex), array, Cuts)
  <2>1. reached = pos
    BY <1>1, SMTT(30) DEF reached
  <2> QED  BY <2>1 DEF ReadingInv, Legible, SoFar
<1>6. ReadTo(s, Len(s), Base(readHex), array, Cuts)
  BY <1>1, <1>2, <1>4, <1>5, BeginningReads
<1> QED  BY <1>1, <1>2, <1>6, AllRead DEF s

(* read returns 0 when all of the file has been through the buffer.        *)
LEMMA EndOfFileReads == FileInv /\ ReadingInv /\ EndOfFile => ReadingInv'
<1> SUFFICES ASSUME FileInv, ReadingInv, EndOfFile PROVE ReadingInv'
  OBVIOUS
<1>1. /\ program = "hw6" /\ pc = "read" /\ at > Len(buffer) /\ pos = Len(file)
      /\ pc' = "sort" /\ original' = array
      /\ UNCHANGED <<program, file, readHex, buffer, pos>>
  BY DEF EndOfFile, SortBegins, options
<1>2. array = Numbers(SubSeq(file, 1, pos), Base(readHex), Cuts) /\ Cuts' = Cuts
  BY <1>1, BuffersRead DEF Cuts
<1>3. ReadsTheFile'
  BY <1>1, <1>2 DEF ReadsTheFile, ReadsItsBuffers
<1> QED  BY <1>1, <1>3 DEF ReadingInv

(* When it returns -1 there may be more.                                   *)
LEMMA ReadFailsReads == FileInv /\ ReadingInv /\ ReadFails => ReadingInv'
<1> SUFFICES ASSUME FileInv, ReadingInv, ReadFails PROVE ReadingInv'
  OBVIOUS
<1>1. /\ program = "hw6" /\ pc = "read" /\ at > Len(buffer) /\ ~ intact
      /\ pc' = "sort" /\ original' = array
      /\ UNCHANGED <<program, file, intact, readHex, buffer, pos>>
  BY DEF ReadFails, SortBegins, options
<1>2. array = Numbers(SubSeq(file, 1, pos), Base(readHex), Cuts) /\ Cuts' = Cuts
  BY <1>1, BuffersRead DEF Cuts
<1>3. ReadsTheFile'
  BY <1>1, <1>2 DEF ReadsTheFile, ReadsItsBuffers
<1> QED  BY <1>1, <1>3 DEF ReadingInv

(* Where a file holds numbers only, a number is an optional sign and       *)
(* digits up to its end, of which there is one at least.                   *)
LEMMA OnlyDigits ==
  ASSUME NEW s \in Seq(Int), NEW base \in Nat, OnlyNumbers(s, base),
         NEW p \in Starts(s, {}), NEW e, IsPiece(s, p, e, {}),
         NEW d, d = IF s[p] \in Signs THEN 1 ELSE 0
  PROVE  p + d <= e /\ \A q \in p + d .. e : s[q] \in 0 .. base - 1
<1> DEFINE str == Token(s, p)
           digits == IF str[1] \in Signs THEN Tail(str) ELSE str
<1>1. p \in 1 .. Len(s) /\ e \in p .. Len(s) /\ Len(s) \in Nat
  BY DEF IsPiece
<1>2. digits # << >> /\ \A k \in DOMAIN digits : digits[k] \in 0 .. base - 1
  BY DEF OnlyNumbers
<1>3. /\ str \in Seq(Int) /\ Len(str) = e - p + 1
      /\ \A k \in 1 .. e - p + 1 : str[k] = s[p + k - 1]
  <2>1. \A k \in p .. e : s[k] \in Int
    BY <1>1
  <2>2. str = SubSeq(s, p, e)
    BY PieceEnds DEF Token
  <2>3. /\ SubSeq(s, p, e) \in Seq(Int)
        /\ Len(SubSeq(s, p, e)) = e - p + 1
        /\ \A k \in 1 .. e - p + 1 : SubSeq(s, p, e)[k] = s[p + k - 1]
    BY <1>1, <2>1, SubSeqProperties
  <2> QED  BY <2>2, <2>3
<1> HIDE DEF str
<1>4. str[1] = s[p] /\ str # << >>
  BY <1>1, <1>3
<1>5. CASE s[p] \in Signs
  <2>1. digits = Tail(str) /\ d = 1
    BY <1>4, <1>5
  <2>2. /\ Tail(str) \in Seq(Int) /\ Len(Tail(str)) = e - p
        /\ \A k \in 1 .. Len(Tail(str)) : Tail(str)[k] = str[k + 1]
    BY <1>1, <1>3, <1>4, HeadTailProperties
  <2> HIDE DEF digits
  <2>3. /\ digits \in Seq(Int) /\ Len(digits) = e - p
        /\ \A k \in 1 .. e - p : digits[k] = s[p + k]
    <3>1. ASSUME NEW k \in 1 .. e - p PROVE str[k + 1] = s[p + k]
      <4>1. k + 1 \in 1 .. e - p + 1 /\ p + (k + 1) - 1 = p + k
        BY <1>1
      <4> QED  BY <1>3, <4>1
    <3> QED  BY <2>1, <2>2, <3>1
  <2>4. p + 1 <= e
    BY <1>1, <1>2, <2>3
  <2>5. ASSUME NEW q \in p + 1 .. e PROVE s[q] \in 0 .. base - 1
    <3>1. q - p \in 1 .. e - p /\ p + (q - p) = q /\ q - p \in DOMAIN digits
      BY <1>1, <2>3
    <3> QED  BY <1>2, <2>3, <3>1
  <2> QED  BY <2>1, <2>4, <2>5
<1>6. CASE s[p] \notin Signs
  <2>1. digits = str /\ d = 0
    BY <1>4, <1>6
  <2> HIDE DEF digits
  <2>2. ASSUME NEW q \in p .. e PROVE s[q] \in 0 .. base - 1
    <3>1. q - p + 1 \in 1 .. e - p + 1 /\ p + (q - p + 1) - 1 = q
      BY <1>1
    <3>2. q - p + 1 \in DOMAIN digits
      BY <1>3, <2>1, <3>1
    <3> QED  BY <1>2, <1>3, <2>1, <3>1, <3>2
  <2> QED  BY <1>1, <2>1, <2>2
<1> QED  BY <1>5, <1>6

(* Where fscanf comes to a number, it takes all of it, and never nothing.  *)
LEMMA TakesToken ==
  ASSUME FileInv, Between(file, pos, {}), OnlyNumbers(file, Base(readHex)),
         NEW first \in DOMAIN file, SkipsTo(first)
  PROVE  \E last \in DOMAIN file :
           /\ IsPiece(file, first, last, {}) /\ Takes(first, last)
           /\ \A e \in DOMAIN file : Takes(first, e) => e = last
<1>1. /\ file \in Seq(Int) /\ Len(file) \in Nat /\ pos \in 0 .. Len(file)
      /\ DOMAIN file = 1 .. Len(file) /\ Base(readHex) \in Nat
  BY ReachedType, BaseType
<1>2. /\ first \in 1 .. Len(file) /\ pos < first /\ file[first] # Space
      /\ \A q \in pos + 1 .. first - 1 : file[q] = Space
  BY <1>1 DEF SkipsTo
<1>3. first \in Starts(file, {})
  BY <1>1, <1>2, NumberBegins
<1>4. PICK last \in first .. Len(file) : IsPiece(file, first, last, {})
  BY <1>1, <1>2, PieceExists
<1>5. /\ first + Sign(first) <= last
      /\ \A q \in first + Sign(first) .. last : IsDigit(q)
      /\ Sign(first) \in {0, 1}
  BY <1>1, <1>3, <1>4, OnlyDigits DEF Sign, IsDigit
<1>6. last < Len(file) => ~ IsDigit(last + 1)
  BY <1>1, <1>4 DEF IsPiece, IsDigit, Space
<1>7. Takes(first, last)
  BY <1>5, <1>6 DEF Takes
<1>8. ASSUME NEW e \in DOMAIN file, Takes(first, e) PROVE e = last
  <2>1. /\ first + Sign(first) <= e
        /\ \A q \in first + Sign(first) .. e : IsDigit(q)
        /\ e < Len(file) => ~ IsDigit(e + 1)
        /\ e \in Int /\ last \in Int /\ first \in Int
    BY <1>1, <1>2, <1>8 DEF Takes
  <2>2. ~ e < last
    BY <1>1, <1>4, <1>5, <2>1
  <2>3. ~ last < e
    BY <1>1, <1>4, <1>5, <1>6, <1>8, <2>1, SMTT(30)
  <2> QED  BY <2>1, <2>2, <2>3
<1> QED  BY <1>1, <1>2, <1>4, <1>7, <1>8

(* Where fscanf is: it has no buffer of which the model knows.             *)
LEMMA Scans ==
  ASSUME FileInv, ReadingInv, Scanning
  PROVE  /\ program # "hw6" /\ pc = "read" /\ buffer = << >> /\ reached = pos
         /\ limit = MaxNumbers \div IntSize
         /\ OnlyNumbers(file, Base(readHex)) =>
              /\ ReadTo(file, pos, Base(readHex), array, {})
              /\ Between(file, pos, {})
<1>1. program # "hw6" /\ pc = "read"
  BY DEF Scanning
<1>2. buffer = << >> /\ reached = pos
  BY <1>1, ReachedType DEF ReadingInv
<1>3. Cuts = {}
  BY <1>1 DEF Cuts
<1> QED  BY <1>1, <1>2, <1>3 DEF ReadingInv, Legible, SoFar

LEMMA ScanNumberReads == FileInv /\ ReadingInv /\ ScanNumber => ReadingInv'
<1> SUFFICES ASSUME FileInv, ReadingInv, ScanNumber PROVE ReadingInv'
  OBVIOUS
<1>1. PICK first \in DOMAIN file, last \in DOMAIN file :
        /\ Takes(first, last) /\ pos' = last
        /\ Counted(strtol(SubSeq(file, first, last), Base(readHex)))
  BY DEF ScanNumber
<1>2. /\ Scanning /\ size < limit
      /\ UNCHANGED <<original, program, file, readHex, buffer, at, limit>>
  BY DEF ScanNumber, options
<1> DEFINE value == strtol(SubSeq(file, first, last), Base(readHex))
<1>3. /\ file \in Seq(Int) /\ Len(file) \in Nat /\ DOMAIN file = 1 .. Len(file)
      /\ array \in Seq(Ints) /\ pos \in 0 .. Len(file) /\ size \in Nat
  BY ReachedType DEF size
<1>4. /\ program # "hw6" /\ pc = "read" /\ buffer = << >> /\ reached = pos
      /\ limit = MaxNumbers \div IntSize
      /\ OnlyNumbers(file, Base(readHex)) =>
           /\ ReadTo(file, pos, Base(readHex), array, {})
           /\ Between(file, pos, {})
  BY <1>2, Scans
<1>5. array' = Append(array, value) /\ pc' = "read"
  <2>1. Counted(value)
    BY <1>1
  <2> HIDE DEF value
  <2>2. /\ size + 1 <= limit /\ limit < GiveUp /\ limit \in Int /\ GiveUp \in Nat
    BY <1>2, <1>3, <1>4, SortFileAssumption, SMTT(30)
  <2>3. array' = Append(array, value)
    BY <1>3, <2>1, <2>2 DEF Counted
  <2>4. Len(array') = size + 1
    BY <1>3, <2>3 DEF size
  <2> QED  BY <1>3, <2>1, <2>2, <2>3, <2>4 DEF Counted
<1>6. reached' = last
  <2>1. reached' = pos' - Len(buffer') + at' - 1 /\ reached = pos - Len(buffer) + at - 1
    BY DEF reached
  <2>2. Len(buffer) \in Nat /\ at \in Int
    BY ReachedType
  <2>3. pos = pos - Len(buffer) + at - 1
    BY <1>4, <2>1
  <2>4. reached' = last - Len(buffer) + at - 1
    BY <1>1, <1>2, <2>1
  <2> QED  BY <1>3, <2>2, <2>3, <2>4
<1>7. ASSUME OnlyNumbers(file, Base(readHex)) PROVE SoFar'
  <2>1. /\ ReadTo(file, pos, Base(readHex), array, {})
        /\ Between(file, pos, {})
    BY <1>4, <1>7
  <2>2. SkipsTo(first)
    BY <1>1 DEF Takes
  <2>3. IsPiece(file, first, last, {})
    BY <1>1, <1>7, <2>1, <2>2, TakesToken
  <2>4. pos < first /\ \A q \in pos + 1 .. first - 1 : file[q] = Space
    BY <2>2 DEF SkipsTo
  <2> DEFINE base == Base(readHex)
  <2>5. base \in Nat
    BY BaseType
  <2>6. ReadTo(file, pos, base, array, {})
    BY <2>1
  <2> HIDE DEF base, value
  <2>7. /\ ReadTo(file, last, base,
                  Append(array, strtol(SubSeq(file, first, last), base)), {})
        /\ Between(file, last, {})
    BY <1>3, <2>1, <2>3, <2>4, <2>5, <2>6, ReadPiece
  <2>8. ReadTo(file, last, base, array', {})
    BY <1>5, <2>7 DEF value, base
  <2>9. Cuts' = {}
    BY <1>2, <1>4 DEF Cuts
  <2> QED  BY <1>2, <1>6, <2>7, <2>8, <2>9 DEF SoFar, base
<1>8. Legible' => OnlyNumbers(file, Base(readHex))
  BY <1>2, <1>4 DEF Legible
<1> HIDE DEF value
<1>9. ReadsTheFile'
  BY <1>5, StillReading
<1>10. (pc = "read" /\ Legible => SoFar)'
  BY <1>7, <1>8
<1> QED  BY <1>2, <1>4, <1>5, <1>9, <1>10 DEF ReadingInv

(* There is one number more than the array has room for.                   *)
LEMMA ScanOutsideReads == FileInv /\ ReadingInv /\ ScanOutside => ReadingInv'
<1> SUFFICES ASSUME FileInv, ReadingInv, ScanOutside PROVE ReadingInv'
  OBVIOUS
<1>1. /\ Scanning /\ size >= limit /\ pc' = "outside"
      /\ UNCHANGED <<program, file, readHex, buffer>>
  BY DEF ScanOutside, options
<1>2. PICK first \in DOMAIN file : \E last \in DOMAIN file : Takes(first, last)
  BY DEF ScanOutside
<1>3. /\ program # "hw6" /\ pc = "read" /\ buffer = << >>
      /\ limit = MaxNumbers \div IntSize
      /\ OnlyNumbers(file, Base(readHex)) =>
           /\ ReadTo(file, pos, Base(readHex), array, {})
           /\ Between(file, pos, {})
  BY <1>1, Scans
<1>4. /\ file \in Seq(Int) /\ DOMAIN file = 1 .. Len(file) /\ array \in Seq(Ints)
      /\ size = Len(array) /\ size \in Nat
  BY ReachedType DEF size
<1> DEFINE base == Base(readHex)
<1>5. ASSUME OnlyNumbers(file, Base(readHex))
      PROVE  Len(Numbers(file, base, {})) > limit
  <2>1. ReadTo(file, pos, base, array, {}) /\ Between(file, pos, {})
    BY <1>3, <1>5
  <2>2. SkipsTo(first)
    BY <1>2 DEF Takes
  <2>3. PICK last \in DOMAIN file : IsPiece(file, first, last, {})
    BY <1>5, <2>1, <2>2, TakesToken
  <2>4. pos < first /\ \A q \in pos + 1 .. first - 1 : file[q] = Space
    BY <2>2 DEF SkipsTo
  <2>5. base \in Nat
    BY BaseType
  <2> HIDE DEF base
  <2> DEFINE n == strtol(SubSeq(file, first, last), base)
             more == Append(array, n)
  <2>6. ReadTo(file, last, base, more, {})
    BY <1>4, <2>1, <2>3, <2>4, <2>5, ReadPiece
  <2> HIDE DEF n
  <2>7. Len(more) = size + 1
    BY <1>4
  <2>8. last \in Int
    BY <1>4
  <2> HIDE DEF more
  <2>9. Len(more) <= Len(Numbers(file, base, {}))
    BY <1>4, <2>6, <2>8, ReadIsInFile
  <2>10. /\ limit \in Int /\ Len(Numbers(file, base, {})) \in Int
    <3>1. limit \in Int
      BY <1>3, SortFileAssumption
    <3> QED  BY <1>4, <3>1, NumbersCount
  <2> QED  BY <1>1, <1>4, <2>7, <2>9, <2>10
<1>6. ReadsTheFile'
  BY <1>1, <1>3, <1>5 DEF ReadsTheFile, ScansItsNumbers
<1> QED  BY <1>1, <1>3, <1>6 DEF ReadingInv

(* What fscanf cannot read is no number.                                   *)
LEMMA ScanNothingReads == FileInv /\ ReadingInv /\ ScanNothing => ReadingInv'
<1> SUFFICES ASSUME FileInv, ReadingInv, ScanNothing PROVE ReadingInv'
  OBVIOUS
<1>1. PICK first \in DOMAIN file :
        SkipsTo(first) /\ ~ \E last \in DOMAIN file : Takes(first, last)
  BY DEF ScanNothing
<1>2. Scanning /\ UNCHANGED <<original, program, file, readHex, buffer, limit>>
  BY DEF ScanNothing, options
<1>3. /\ pc' \in {"gaveUp", "read"}
      /\ pc' = "gaveUp" => program = "hw5" /\ ~ readHex
  <2>1. PICK value \in Junk : Counted(value)
    BY DEF ScanNothing
  <2> QED  BY <2>1 DEF Counted
<1>4. /\ program # "hw6" /\ pc = "read" /\ buffer = << >>
      /\ limit = MaxNumbers \div IntSize
      /\ OnlyNumbers(file, Base(readHex)) => Between(file, pos, {})
  BY <1>2, Scans
<1>5. ~ OnlyNumbers(file, Base(readHex))
  <2> SUFFICES ASSUME OnlyNumbers(file, Base(readHex)) PROVE FALSE
    OBVIOUS
  <2> QED  BY <1>1, <1>4, TakesToken
<1>6. ~ Legible'
  BY <1>2, <1>4, <1>5 DEF Legible
<1>7. ~ readHex => Base(readHex) = Decimal
  BY DEF Base
<1>8. ReadsTheFile'
  BY <1>2, <1>3, <1>4, <1>5, <1>7 DEF ReadsTheFile, ScansItsNumbers
<1> QED  BY <1>2, <1>3, <1>4, <1>6, <1>8 DEF ReadingInv

(* At EOF there is nothing left but separators.                            *)
LEMMA ScanEndReads == FileInv /\ ReadingInv /\ ScanEnd => ReadingInv'
<1> SUFFICES ASSUME FileInv, ReadingInv, ScanEnd PROVE ReadingInv'
  OBVIOUS
<1>1. /\ Scanning /\ SkipsTo(Len(file) + 1)
      /\ SortBegins \/ (pc' = "outside" /\ size > limit)
      /\ UNCHANGED <<program, file, readHex, buffer>>
  <2>1. size \in Nat /\ limit \in Int
    <3>1. limit = MaxNumbers \div IntSize
      BY Scans DEF ScanEnd
    <3>2. limit \in Int
      BY <3>1, SortFileAssumption
    <3>3. array \in Seq(Ints)
      BY ReachedType
    <3> QED  BY <3>2, <3>3 DEF size
  <2> QED  BY <2>1 DEF ScanEnd, options
<1>2. /\ program # "hw6" /\ pc = "read" /\ buffer = << >>
      /\ limit = MaxNumbers \div IntSize
      /\ OnlyNumbers(file, Base(readHex)) =>
           /\ ReadTo(file, pos, Base(readHex), array, {})
           /\ Between(file, pos, {})
  BY <1>1, Scans
<1>3. /\ file \in Seq(Int) /\ Len(file) \in Nat
      /\ array \in Seq(Ints) /\ pos \in 0 .. Len(file)
  BY ReachedType
<1>4. ASSUME OnlyNumbers(file, Base(readHex))
      PROVE  array = Numbers(file, Base(readHex), {})
  <2>1. /\ ReadTo(file, pos, Base(readHex), array, {})
        /\ Between(file, pos, {})
    BY <1>2, <1>4
  <2>2. \A q \in pos + 1 .. Len(file) : file[q] = Space
    BY <1>1, <1>3 DEF SkipsTo
  <2>3. Len(file) \in pos .. Len(file)
    BY <1>3
  <2>4. ReadTo(file, Len(file), Base(readHex), array, {})
    BY <1>3, <2>1, <2>2, <2>3, ReadSpaces
  <2> QED  BY <1>3, <2>4, AllRead
<1>5. pc' = "sort" => original' = array
  BY <1>1 DEF SortBegins
<1>6. pc' \in {"sort", "outside"} /\ (pc' = "outside" => Len(array) > limit)
  BY <1>1 DEF SortBegins, size
<1>7. ReadsTheFile'
  BY <1>1, <1>2, <1>4, <1>5, <1>6 DEF ReadsTheFile, ScansItsNumbers
<1> QED  BY <1>1, <1>2, <1>6, <1>7 DEF ReadingInv

(* What has been read stays so while it is sorted and written.             *)
LEMMA ReadsTheFileKept ==
  ASSUME ReadsTheFile, pc \in {"sort", "write"}, pc' \in {"sort", "write", "crashed", "done"},
         UNCHANGED <<original, program, file, intact, readHex, pos>>
  PROVE  ReadsTheFile'
<1>1. Cuts' = Cuts
  BY DEF Cuts
<1> QED  BY <1>1 DEF ReadsTheFile, ReadsItsBuffers, ScansItsNumbers

LEMMA ReadStep == FileInv /\ ReadingInv /\ [Next]_vars => ReadingInv'
<1> SUFFICES ASSUME FileInv, ReadingInv, [Next]_vars PROVE ReadingInv'
  OBVIOUS
<1>1. CASE OpenFails
  <2>1. pc' \in {"failed", "crashed"} /\ UNCHANGED <<program, buffer>>
    BY <1>1 DEF OpenFails, options
  <2> QED  BY <2>1, StillReading DEF ReadingInv
<1>2. CASE Sort
  <2>1. /\ pc = "sort"
        /\ UNCHANGED <<original, program, file, intact, readHex, pc, pos, buffer>>
    BY <1>2 DEF Sort, SortNext, SortPair, NextPass, options
  <2>2. ReadsTheFile'
    BY <2>1, ReadsTheFileKept DEF ReadingInv
  <2> QED  BY <2>1, <2>2 DEF ReadingInv
<1>3. CASE StartWriting \/ WriteNumber \/ Exit
  <2>1. /\ pc \in {"sort", "write"} /\ pc' \in {"write", "crashed", "done"}
        /\ UNCHANGED <<original, program, file, intact, readHex, pos, buffer>>
    BY <1>3 DEF StartWriting, WriteNumber, Exit, options, sortVars
  <2>2. ReadsTheFile'
    BY <2>1, ReadsTheFileKept DEF ReadingInv
  <2> QED  BY <2>1, <2>2 DEF ReadingInv
<1>4. CASE UNCHANGED vars
  <2>1. Cuts' = Cuts
    BY <1>4 DEF vars, Cuts
  <2> QED
    BY <1>4, <2>1 DEF vars, ReadingInv, Legible, SoFar, reached, Buffered,
                      ReadsTheFile, ReadsItsBuffers, ScansItsNumbers
<1> QED
  BY <1>1, <1>2, <1>3, <1>4, OpenReads, ReadReads, SkipSeparatorReads,
     ReadNumberReads, OverrunReads, EndOfFileReads, ReadFailsReads,
     ScanNumberReads, ScanOutsideReads, ScanNothingReads, ScanEndReads
     DEF Next

(* Whatever the file and the size of the buffer: hw6 sorts all the numbers *)
(* of what it has read, one that crosses from a buffer into the next read  *)
(* as two, and leaves its str only at a number that does not fit.  hw4 and *)
(* hw5 sort those of a file that holds nothing else, and leave their array *)
(* only if it has more of them than fit.                                   *)
THEOREM ReadsCorrect == Spec => []ReadsTheFile
<1>1. Init => FileInv /\ ReadingInv
  BY FileInitInv, ReadInvInit
<1>2. FileInv /\ ReadingInv /\ [Next]_vars => (FileInv /\ ReadingInv)'
  BY FileStep, ReadStep
<1>3. ReadingInv => ReadsTheFile
  BY DEF ReadingInv
<1> QED  BY <1>1, <1>2, <1>3, PTL DEF Spec

-----------------------------------------------------------------------------
(***************************************************************************)
(* What is written is what the array holds: its digits are the remainders  *)
(* of divisions by the base, and put together they make the number again.  *)
(***************************************************************************)

LEMMA DivisionShrinks ==
  ASSUME NEW base \in Nat \ {0, 1}, NEW x \in Nat
  PROVE  /\ x = base * (x \div base) + (x % base)
         /\ x % base \in 0 .. base - 1 /\ x \div base \in Nat
         /\ x # 0 => x \div base < x
         /\ 0 \div base = 0
<1> DEFINE q == x \div base
           r == x % base
<1>1. x = base * q + r /\ r \in 0 .. base - 1 /\ q \in Int
  BY SMTT(30)
<1>2. 0 \div base = 0
  <2>1. base * 0 + 0 = 0 /\ 0 \in 0 .. base - 1 /\ base \in Nat \ {0}
    OBVIOUS
  <2>2. (base * 0 + 0) \div base = 0
    BY <2>1, RemainderIs
  <2> QED  BY <2>1, <2>2
<1> HIDE DEF q, r
<1>3. q >= 0
  <2> SUFFICES ASSUME q <= -1 PROVE FALSE
    BY <1>1
  <2>1. base * q <= base * (-1) /\ base * q \in Int
    BY <1>1, TimesGrows
  <2> QED  BY <1>1, <2>1
<1>4. x # 0 => q < x
  <2> SUFFICES ASSUME x # 0, q >= x PROVE FALSE
    BY <1>1
  <2>1. q * 2 <= q * base /\ q * base = base * q
    <3>1. q \in Nat /\ 2 <= base
      BY <1>1, <1>3
    <3>2. q * 2 <= q * base
      BY <3>1, TimesGrows
    <3> QED  BY <1>1, <3>2
  <2>2. base * q \in Int
    BY <1>1
  <2> QED  BY <1>1, <2>1, <2>2
<1>5. /\ x = base * q + r /\ r \in 0 .. base - 1 /\ q \in Nat
      /\ x # 0 => q < x
  BY <1>1, <1>3, <1>4
<1> QED  BY <1>2, <1>5 DEF q, r

(* rest[m] is what is left of n after m divisions.                         *)
Leaves(rest, n, base) ==
  rest = [m \in 0 .. n + 1 |-> IF m = 0 THEN n ELSE rest[m - 1] \div base]

LEMMA RestsSteps ==
  ASSUME NEW n \in Nat, NEW base \in Nat \ {0, 1}
  PROVE  /\ Rests(n, base)[0] = n
         /\ \A m \in 1 .. n + 1 :
              Rests(n, base)[m] = Rests(n, base)[m - 1] \div base
<1> DEFINE F == [x \in Nat \X (1 .. n + 1) |-> x[1] \div base]
<1>1. F \in [Nat \X (1 .. n + 1) -> Nat]
  <2>1. ASSUME NEW x \in Nat \X (1 .. n + 1) PROVE x[1] \div base \in Nat
    <3>1. x[1] \in Nat
      OBVIOUS
    <3> QED  BY <3>1, DivisionShrinks
  <2> QED  BY <2>1
<1>2. ASSUME NEW x \in Nat, NEW k \in 1 .. n + 1 PROVE F[<<x, k>>] = x \div base
  OBVIOUS
<1> HIDE DEF F
<1>3. PICK f : /\ f \in [0 .. n + 1 -> Nat] /\ f[0] = n
               /\ \A m \in 1 .. n + 1 : f[m] = F[<<f[m - 1], m>>]
  <2>1. n + 1 \in Nat
    OBVIOUS
  <2>2. \E f : Recurs(f, Nat, n, n + 1, F)
    BY <1>1, <2>1, RecursionExists
  <2> QED  BY <2>2 DEF Recurs
<1>4. ASSUME NEW m \in 1 .. n + 1 PROVE f[m] = f[m - 1] \div base
  <2>1. f[m - 1] \in Nat
    BY <1>3
  <2>2. f[m] = F[<<f[m - 1], m>>]
    BY <1>3
  <2> QED  BY <1>2, <2>1, <2>2
<1>5. Leaves(f, n, base)
  BY <1>3, <1>4 DEF Leaves
<1> DEFINE v == CHOOSE h : Leaves(h, n, base)
<1>6. Rests(n, base) = v
  BY DEF Rests, Leaves
<1>7. Leaves(v, n, base)
  BY <1>5
<1> HIDE DEF v
<1>8. v[0] = n /\ \A m \in 1 .. n + 1 : v[m] = v[m - 1] \div base
  BY <1>7 DEF Leaves
<1> QED  BY <1>6, <1>8

(* Nothing is left in the end.                                             *)
LEMMA RestsEnd ==
  ASSUME NEW n \in Nat, NEW base \in Nat \ {0, 1}
  PROVE  /\ \A m \in 0 .. n + 1 : Rests(n, base)[m] \in Nat
         /\ Rests(n, base)[n + 1] = 0
<1> DEFINE r == Rests(n, base)
           T == {m \in Nat : m <= n + 1 => r[m] \in Nat /\ (r[m] = 0 \/ r[m] <= n - m)}
<1>1. r[0] = n /\ \A m \in 1 .. n + 1 : r[m] = r[m - 1] \div base
  BY RestsSteps
<1> HIDE DEF r
<1>2. 0 \in T
  BY <1>1
<1>3. ASSUME NEW m \in Nat, m \in T PROVE m + 1 \in T
  <2> SUFFICES ASSUME m + 1 <= n + 1
               PROVE r[m + 1] \in Nat /\ (r[m + 1] = 0 \/ r[m + 1] <= n - (m + 1))
    OBVIOUS
  <2>1. r[m] \in Nat /\ (r[m] = 0 \/ r[m] <= n - m)
    BY <1>3
  <2>2. r[m + 1] = r[m] \div base
    <3>1. m + 1 \in 1 .. n + 1 /\ (m + 1) - 1 = m
      OBVIOUS
    <3> QED  BY <1>1, <3>1
  <2>3. /\ r[m] \div base \in Nat /\ 0 \div base = 0
        /\ r[m] # 0 => r[m] \div base < r[m]
    BY <2>1, DivisionShrinks
  <2> HIDE DEF T
  <2>4. CASE r[m] = 0
    BY <2>2, <2>3, <2>4
  <2>5. CASE r[m] # 0
    BY <2>1, <2>2, <2>3, <2>5
  <2> QED  BY <2>4, <2>5
<1>4. \A m \in Nat : m \in T
  <2> HIDE DEF T
  <2> QED  BY <1>2, <1>3, NaturalsByInduction
<1>5. ASSUME NEW m \in 0 .. n + 1 PROVE r[m] \in Nat /\ (r[m] = 0 \/ r[m] <= n - m)
  BY <1>4
<1>6. r[n + 1] = 0
  <2>1. n + 1 \in 0 .. n + 1 /\ n - (n + 1) = -1
    OBVIOUS
  <2> QED  BY <1>5, <2>1
<1> QED  BY <1>5, <1>6 DEF r

(* The digits of a number are digits, at least one, and write it.          *)
LEMMA DigitsWrite ==
  ASSUME NEW n \in Nat, NEW base \in Nat \ {0, 1}
  PROVE  /\ Digits(n, base) \in Seq(0 .. base - 1) /\ Digits(n, base) # << >>
         /\ Value(Digits(n, base), Len(Digits(n, base)), base) = n
<1> DEFINE r == Rests(n, base)
           ends == {m \in 1 .. n + 1 : r[m] = 0}
           k == Min(ends)
           d == [p \in 1 .. k |-> r[k - p] % base]
<1>1. /\ r[0] = n /\ \A m \in 1 .. n + 1 : r[m] = r[m - 1] \div base
      /\ \A m \in 0 .. n + 1 : r[m] \in Nat
      /\ r[n + 1] = 0
  BY RestsSteps, RestsEnd
<1>2. Digits(n, base) = d
  BY DEF Digits
<1> HIDE DEF r
<1>3. k \in ends
  <2>1. n + 1 \in ends /\ ends \subseteq Nat
    BY <1>1
  <2> HIDE DEF ends
  <2>2. \E x \in ends : \A y \in ends : x <= y
    BY <2>1, LeastNatural
  <2> QED  BY <2>2 DEF Min
<1>4. k \in 1 .. n + 1 /\ r[k] = 0
  BY <1>3
<1> HIDE DEF k, ends
<1>5. ASSUME NEW p \in 1 .. k
      PROVE  /\ k - p \in 0 .. n + 1 /\ d[p] = r[k - p] % base
             /\ r[k - p] \in Nat /\ r[k - p] % base \in 0 .. base - 1
             /\ r[k - p] = base * (r[k - p] \div base) + (r[k - p] % base)
             /\ r[k - p + 1] = r[k - p] \div base
  <2>1. k - p \in 0 .. n + 1 /\ k - p + 1 \in 1 .. n + 1 /\ (k - p + 1) - 1 = k - p
    BY <1>4
  <2>2. r[k - p] \in Nat
    BY <1>1, <2>1
  <2>3. r[k - p + 1] = r[k - p] \div base
    BY <1>1, <2>1
  <2>4. d[p] = r[k - p] % base
    OBVIOUS
  <2> HIDE DEF d
  <2> QED  BY <2>1, <2>2, <2>3, <2>4, DivisionShrinks
<1>6. d \in Seq(0 .. base - 1) /\ Len(d) = k /\ d # << >>
  <2>1. \A p \in 1 .. k : r[k - p] % base \in 0 .. base - 1
    BY <1>5
  <2>2. d \in [1 .. k -> 0 .. base - 1] /\ k \in Nat /\ k # 0
    BY <1>4, <2>1
  <2> HIDE DEF d
  <2>3. d \in Seq(0 .. base - 1) /\ Len(d) = k
    BY <2>2
  <2> QED  BY <2>2, <2>3
<1> HIDE DEF d
<1>7. PICK v : /\ Value(d, k, base) = v[k] /\ v[0] = 0
               /\ \A p \in 1 .. k : v[p] = v[p - 1] * base + d[p]
  <2>1. k \in Nat /\ base \in Int /\ \A p \in 1 .. k : d[p] \in Int
    <3>1. \A p \in 1 .. k : d[p] \in 0 .. base - 1
      BY <1>6
    <3> QED  BY <1>4, <3>1
  <2> QED  BY <2>1, ValueSteps
<1> DEFINE T == {p \in Nat : p <= k => v[p] = r[k - p]}
<1>8. 0 \in T
  BY <1>4, <1>7
<1>9. ASSUME NEW p \in Nat, p \in T PROVE p + 1 \in T
  <2> SUFFICES ASSUME p + 1 <= k PROVE v[p + 1] = r[k - (p + 1)]
    OBVIOUS
  <2> DEFINE q == p + 1
             x == r[k - q]
  <2>1. q \in 1 .. k /\ q - 1 = p /\ k - p = k - q + 1
    BY <1>4
  <2>2. v[p] = r[k - q + 1]
    BY <1>4, <1>9, <2>1
  <2>3. v[q] = v[p] * base + d[q]
    BY <1>7, <2>1
  <2>4. /\ d[q] = x % base /\ r[k - q + 1] = x \div base /\ x \in Nat
        /\ x = base * (x \div base) + (x % base)
    BY <1>5, <2>1
  <2> HIDE DEF q, x
  <2>5. v[q] = (x \div base) * base + (x % base)
    BY <2>2, <2>3, <2>4
  <2>6. x \div base \in Int /\ x % base \in Int
    BY <2>4, DivisionShrinks
  <2>7. (x \div base) * base = base * (x \div base)
    BY <2>6
  <2>8. v[q] = x
    BY <2>4, <2>5, <2>7
  <2> QED  BY <2>8 DEF q, x
<1>10. k \in T
  <2> HIDE DEF T
  <2> QED  BY <1>4, <1>8, <1>9, NaturalsByInduction
<1>11. v[k] = n
  <2>1. k - k = 0 /\ k \in Nat
    BY <1>4, SMTT(30)
  <2> QED  BY <1>1, <1>10, <2>1
<1> QED  BY <1>2, <1>6, <1>7, <1>11

(* strtol takes all of a string of digits.                                 *)
LEMMA AllDigits ==
  ASSUME NEW base \in Nat, NEW d \in Seq(0 .. base - 1)
  PROVE  Max({m \in 0 .. Len(d) : \A k \in 1 .. m : d[k] \in 0 .. base - 1}) = Len(d)
<1> DEFINE prefixes == {m \in 0 .. Len(d) : \A k \in 1 .. m : d[k] \in 0 .. base - 1}
           x == Max(prefixes)
<1>1. Len(d) \in Nat
  OBVIOUS
<1>2. Len(d) \in prefixes /\ prefixes \subseteq Int /\ \A m \in prefixes : m <= Len(d)
  BY <1>1
<1>3. x \in prefixes /\ \A m \in prefixes : m <= x
  <2> HIDE DEF prefixes
  <2>1. prefixes # {} /\ Len(d) \in Int
    BY <1>1, <1>2
  <2>2. IsLargest(Max(prefixes), prefixes)
    BY <1>2, <2>1, MaxIsLargest, Zenon
  <2> QED  BY <2>2 DEF IsLargest
<1> HIDE DEF prefixes, x
<1>4. x = Len(d)
  <2>1. x <= Len(d) /\ Len(d) <= x /\ x \in Int
    BY <1>2, <1>3
  <2> QED  BY <1>1, <2>1
<1> QED  BY <1>4, Zenon DEF x, prefixes

(* It sees no sign and no 0x among them.                                   *)
LEMMA DigitsAreSignless ==
  ASSUME NEW base \in Nat, NEW d \in Seq(0 .. base - 1)
  PROVE  /\ \A k \in 1 .. Len(d) : d[k] \notin Signs /\ d[k] # X
         /\ ~ (base = Hex /\ Len(d) > 2 /\ d[1] = 0 /\ d[2] = X)
<1>1. ASSUME NEW k \in 1 .. Len(d) PROVE d[k] \notin Signs /\ d[k] # X
  <2>1. d[k] \in 0 .. base - 1
    OBVIOUS
  <2> QED  BY <2>1 DEF Signs, Minus, Plus, X
<1>2. Len(d) > 2 => 2 \in 1 .. Len(d)
  OBVIOUS
<1> QED  BY <1>1, <1>2

LEMMA StrtolOfDigits ==
  ASSUME NEW base \in Nat, NEW d \in Seq(0 .. base - 1), d # << >>
  PROVE  strtol(d, base) = AsInt(Value(d, Len(d), base))
<1>1. d[1] \notin Signs /\ d[1] # Minus
  <2>1. 1 \in 1 .. Len(d)
    OBVIOUS
  <2> QED  BY <2>1, DigitsAreSignless DEF Signs
<1>2. ~ (base = Hex /\ Len(d) > 2 /\ d[1] = 0 /\ d[2] = X)
  BY DigitsAreSignless
<1>3. Max({m \in 0 .. Len(d) : \A k \in 1 .. m : d[k] \in 0 .. base - 1}) = Len(d)
  BY AllDigits
<1> QED  BY <1>1, <1>2, <1>3, Zenon DEF strtol

LEMMA StrtolOfSigned ==
  ASSUME NEW base \in Nat, NEW d \in Seq(0 .. base - 1)
  PROVE  strtol(<<Minus>> \o d, base) = AsInt(- Value(d, Len(d), base))
<1> DEFINE str == <<Minus>> \o d
<1>1. <<Minus>> \in Seq(Int) /\ d \in Seq(Int) /\ Len(<<Minus>>) = 1 /\ <<Minus>>[1] = Minus
  BY DEF Minus
<1>2. /\ str \in Seq(Int) /\ Len(str) = 1 + Len(d)
      /\ \A k \in 1 .. 1 + Len(d) :
           str[k] = IF k <= 1 THEN <<Minus>>[k] ELSE d[k - 1]
  BY <1>1, ConcatProperties
<1> HIDE DEF str
<1>3. str[1] = Minus /\ str # << >> /\ Len(d) \in Nat /\ str[1] \in Signs
  BY <1>1, <1>2 DEF Signs
<1>4. Tail(str) = d
  <2>1. /\ Tail(str) \in Seq(Int) /\ Len(Tail(str)) = Len(d)
        /\ \A k \in 1 .. Len(Tail(str)) : Tail(str)[k] = str[k + 1]
    BY <1>2, <1>3, HeadTailProperties
  <2>2. ASSUME NEW k \in 1 .. Len(Tail(str)) PROVE Tail(str)[k] = d[k]
    <3>1. k + 1 \in 1 .. 1 + Len(d) /\ ~ k + 1 <= 1 /\ (k + 1) - 1 = k
      BY <1>3, <2>1
    <3>2. str[k + 1] = d[(k + 1) - 1]
      BY <1>2, <3>1
    <3> QED  BY <2>1, <3>1, <3>2
  <2> QED  BY <1>1, <2>1, <2>2, SeqEqual
<1>5. Max({m \in 0 .. Len(d) : \A k \in 1 .. m : d[k] \in 0 .. base - 1}) = Len(d)
  BY AllDigits
<1>6. ~ (base = Hex /\ Len(d) > 2 /\ d[1] = 0 /\ d[2] = X)
  BY DigitsAreSignless
<1>7. strtol(str, base) = AsInt(- Value(d, Len(d), base))
  BY <1>3, <1>4, <1>5, <1>6, Zenon DEF strtol
<1> QED  BY <1>7 DEF str

(* The cast to int keeps an int, and gives one back that %x took as        *)
(* unsigned.                                                               *)
LEMMA AsIntKeeps ==
  ASSUME NEW n \in Ints
  PROVE  /\ AsInt(n) = n /\ n % IntRange \in Nat
         /\ AsInt(n % IntRange) = n
         /\ n >= 0 => n % IntRange = n
<1> DEFINE half == MaxInt + 1
           all == IntRange
<1>1. half \in Nat \ {0} /\ all = 2 * half
  BY SortFileAssumption DEF IntRange
<1>2. /\ n \in (- half) .. half - 1
      /\ \A x : AsInt(x) = ((x - (- half)) % all) + (- half)
  <2>1. MinInt = - half /\ half - 1 = MaxInt
    BY SortFileAssumption DEF MinInt
  <2> QED  BY <2>1 DEF AsInt, Ints
<1> HIDE DEF half, all
<1>3. all \in Nat \ {0} /\ n \in Int
  BY <1>1, <1>2
<1>4. (n - (- half)) % all = n + half
  <2>1. n + half \in 0 .. all - 1 /\ all * 0 + (n + half) = n - (- half)
    BY <1>1, <1>2
  <2>2. (all * 0 + (n + half)) % all = n + half
    BY <1>3, <2>1, RemainderIs
  <2> QED  BY <2>1, <2>2
<1>5. AsInt(n) = n
  BY <1>1, <1>2, <1>3, <1>4
<1>6. CASE n >= 0
  <2>1. n \in 0 .. all - 1 /\ all * 0 + n = n
    BY <1>1, <1>2, <1>6
  <2>2. (all * 0 + n) % all = n
    BY <1>3, <2>1, RemainderIs
  <2>3. n % all = n /\ n \in Nat
    BY <2>1, <2>2
  <2> QED  BY <1>5, <2>3 DEF all
<1>7. CASE n < 0
  <2>1. n + all \in 0 .. all - 1 /\ all * (-1) + (n + all) = n
    BY <1>1, <1>2, <1>7
  <2>2. (all * (-1) + (n + all)) % all = n + all
    BY <1>3, <2>1, RemainderIs
  <2>3. n % all = n + all /\ n + all \in Nat
    BY <2>1, <2>2
  <2> DEFINE m == 1
  <2>4. /\ n + half \in 0 .. all - 1 /\ m \in Int
        /\ all * m + (n + half) = (n + all) - (- half)
    BY <1>1, <1>2, <1>7
  <2> HIDE DEF m
  <2>5. (all * m + (n + half)) % all = n + half
    BY <1>3, <2>4, RemainderIs
  <2>6. AsInt(n + all) = n
    BY <1>1, <1>2, <1>3, <2>4, <2>5
  <2> QED  BY <1>3, <1>5, <1>7, <2>3, <2>6 DEF all
<1> QED  BY <1>3, <1>6, <1>7

(* What strtol reads as n: a sign and digits, and no separator.            *)
Spells(w, n, base) ==
  /\ w \in Seq(Int) /\ w # << >> /\ \A k \in 1 .. Len(w) : w[k] # Space
  /\ strtol(w, base) = n

LEMMA DigitsSpell ==
  ASSUME NEW n \in Nat, NEW base \in Nat \ {0, 1}
  PROVE  /\ Spells(Digits(n, base), AsInt(n), base)
         /\ Spells(<<Minus>> \o Digits(n, base), AsInt(- n), base)
<1> DEFINE d == Digits(n, base)
<1>1. d \in Seq(0 .. base - 1) /\ d # << >> /\ Value(d, Len(d), base) = n
  BY DigitsWrite
<1> HIDE DEF d
<1>2. d \in Seq(Int) /\ Len(d) \in Nat /\ \A k \in 1 .. Len(d) : d[k] # Space
  BY <1>1 DEF Space
<1>3. Spells(d, AsInt(n), base)
  <2>1. strtol(d, base) = AsInt(n)
    BY <1>1, StrtolOfDigits
  <2> QED  BY <1>1, <1>2, <2>1 DEF Spells
<1>4. Spells(<<Minus>> \o d, AsInt(- n), base)
  <2> DEFINE str == <<Minus>> \o d
  <2>1. /\ <<Minus>> \in Seq(Int) /\ Len(<<Minus>>) = 1
        /\ <<Minus>>[1] # Space
    BY DEF Minus, Space
  <2>2. /\ str \in Seq(Int) /\ Len(str) = 1 + Len(d)
        /\ \A k \in 1 .. 1 + Len(d) :
             str[k] = IF k <= 1 THEN <<Minus>>[k] ELSE d[k - 1]
    BY <1>2, <2>1, ConcatProperties
  <2>3. strtol(str, base) = AsInt(- n)
    BY <1>1, StrtolOfSigned
  <2> HIDE DEF str
  <2>4. ASSUME NEW k \in 1 .. Len(str) PROVE str[k] # Space
    <3>1. CASE k <= 1
      <4>1. k = 1
        BY <1>2, <2>2, <3>1
      <4> QED  BY <1>2, <2>1, <2>2, <4>1
    <3>2. CASE k > 1
      <4>1. k - 1 \in 1 .. Len(d) /\ ~ k <= 1
        BY <1>2, <2>2, <3>2
      <4>2. str[k] = d[k - 1]
        BY <2>2, <4>1
      <4> QED  BY <1>2, <4>1, <4>2
    <3> QED  BY <1>2, <2>2, <3>1, <3>2
  <2>5. str # << >>
    BY <1>2, <2>2
  <2> QED  BY <2>2, <2>3, <2>4, <2>5 DEF Spells, str
<1> QED  BY <1>3, <1>4 DEF d

(* The number that is written, a separator after it.                       *)
LEMMA PrintedSpells ==
  ASSUME NEW n \in Ints, NEW hex \in BOOLEAN
  PROVE  \E w : Printed(n, hex) = w \o <<Space>> /\ Spells(w, n, Base(hex))
<1>1. n \in Int
  BY DEF Ints
<1>2. Decimal \in Nat \ {0, 1} /\ Hex \in Nat \ {0, 1}
  BY SortFileAssumption
<1>3. CASE hex
  <2> DEFINE m == n % IntRange
  <2>1. m \in Nat /\ AsInt(m) = n
    BY AsIntKeeps
  <2>2. Printed(n, hex) = Digits(m, Hex) \o <<Space>> /\ Base(hex) = Hex
    BY <1>3 DEF Printed, Base
  <2> HIDE DEF m
  <2>3. Spells(Digits(m, Hex), AsInt(m), Hex)
    BY <1>2, <2>1, DigitsSpell
  <2> QED  BY <2>1, <2>2, <2>3
<1>4. CASE ~ hex /\ n < 0
  <2>1. /\ Printed(n, hex) = <<Minus>> \o Digits(- n, Decimal) \o <<Space>>
        /\ Base(hex) = Decimal
    BY <1>4 DEF Printed, Base
  <2>2. - n \in Nat /\ - (- n) = n
    BY <1>1, <1>4
  <2>3. Spells(<<Minus>> \o Digits(- n, Decimal), AsInt(- (- n)), Decimal)
    BY <1>2, <2>2, DigitsSpell
  <2>4. AsInt(- (- n)) = n
    BY <2>2, AsIntKeeps
  <2> QED  BY <2>1, <2>3, <2>4
<1>5. CASE ~ hex /\ ~ n < 0
  <2>1. n \in Nat
    BY <1>1, <1>5
  <2>2. Spells(Digits(n, Decimal), n, Decimal)
    BY <1>2, <2>1, DigitsSpell, AsIntKeeps
  <2>3. << >> \o Digits(n, Decimal) = Digits(n, Decimal)
    BY <2>2, ConcatEmptySeq DEF Spells
  <2>4. Printed(n, hex) = Digits(n, Decimal) \o <<Space>> /\ Base(hex) = Decimal
    BY <1>5, <2>3 DEF Printed, Base
  <2> QED  BY <2>2, <2>4
<1> QED  BY <1>3, <1>4, <1>5

LEMMA WrittenSpells ==
  ASSUME NEW n \in Ints, n # MinInt, NEW base \in Nat \ {0, 1}
  PROVE  \E w : Written(n, base) = w \o <<Space>> /\ Spells(w, n, base)
<1>1. n \in Int
  BY DEF Ints
<1>2. CASE n < 0
  <2>1. Written(n, base) = <<Minus>> \o Digits(- n, base) \o <<Space>>
    BY <1>2 DEF Written
  <2>2. - n \in Nat /\ - (- n) = n
    BY <1>1, <1>2
  <2>3. Spells(<<Minus>> \o Digits(- n, base), AsInt(- (- n)), base)
    BY <2>2, DigitsSpell
  <2>4. AsInt(- (- n)) = n
    BY <2>2, AsIntKeeps
  <2> QED  BY <2>1, <2>3, <2>4
<1>3. CASE ~ n < 0
  <2>1. n \in Nat
    BY <1>1, <1>3
  <2>2. Spells(Digits(n, base), n, base)
    BY <2>1, DigitsSpell, AsIntKeeps
  <2>3. << >> \o Digits(n, base) = Digits(n, base)
    BY <2>2, ConcatEmptySeq DEF Spells
  <2>4. Written(n, base) = Digits(n, base) \o <<Space>>
    BY <1>3, <2>3 DEF Written
  <2> QED  BY <2>2, <2>4
<1> QED  BY <1>2, <1>3

(* A number and a separator after it, written to the end of what has been  *)
(* written, are read as one more number.                                   *)
LEMMA NumberAppended ==
  ASSUME NEW s \in Seq(Int), NEW w, NEW n \in Ints, NEW base \in Nat,
         NEW ns \in Seq(Ints),
         s = << >> \/ s[Len(s)] = Space, ReadTo(s, Len(s), base, ns, {}),
         Spells(w, n, base)
  PROVE  LET t == s \o (w \o <<Space>>)
         IN  /\ t \in Seq(Int) /\ t[Len(t)] = Space
             /\ ReadTo(t, Len(t), base, Append(ns, n), {})
<1> DEFINE t == s \o (w \o <<Space>>)
           a == Len(s)
           b == Len(s) + Len(w)
<1>1. /\ w \in Seq(Int) /\ w # << >> /\ (\A k \in 1 .. Len(w) : w[k] # Space)
      /\ strtol(w, base) = n
  BY DEF Spells
<1>2. a \in Nat /\ Len(w) \in Nat \ {0} /\ b \in Nat /\ a < b
  BY <1>1
<1>3. /\ <<Space>> \in Seq(Int) /\ Len(<<Space>>) = 1 /\ <<Space>>[1] = Space
  BY DEF Space
<1>4. /\ s \o w \in Seq(Int) /\ Len(s \o w) = b
      /\ \A k \in 1 .. b : (s \o w)[k] = IF k <= a THEN s[k] ELSE w[k - a]
  BY <1>1, ConcatProperties
<1>5. t = (s \o w) \o <<Space>>
  BY <1>1, <1>3, ConcatAssociative, SMTT(30)
<1> HIDE DEF t
<1>6. /\ t \in Seq(Int) /\ Len(t) = b + 1
      /\ \A k \in 1 .. b + 1 :
           t[k] = IF k <= b THEN (s \o w)[k] ELSE <<Space>>[k - b]
  <2> DEFINE sw == s \o w
             sp == <<Space>>
  <2>1. sw \in Seq(Int) /\ sp \in Seq(Int) /\ Len(sw) = b /\ Len(sp) = 1 /\ t = sw \o sp
    BY <1>3, <1>4, <1>5
  <2> HIDE DEF sw, sp
  <2>2. /\ sw \o sp \in Seq(Int) /\ Len(sw \o sp) = Len(sw) + Len(sp)
        /\ \A k \in 1 .. Len(sw) + Len(sp) :
             (sw \o sp)[k] = IF k <= Len(sw) THEN sw[k] ELSE sp[k - Len(sw)]
    <3>1. sw \in Seq(Int) /\ sp \in Seq(Int)
      BY <2>1
    <3> QED  BY <3>1, ConcatProperties
  <2>3. /\ t \in Seq(Int) /\ Len(t) = b + 1
        /\ \A k \in 1 .. b + 1 : t[k] = IF k <= b THEN sw[k] ELSE sp[k - b]
    BY <2>1, <2>2, Zenon
  <2> QED  BY <2>3 DEF sw, sp
<1>7. ASSUME NEW k \in 1 .. a PROVE t[k] = s[k]
  <2>1. k \in 1 .. b + 1 /\ k <= b /\ k \in 1 .. b /\ k <= a
    BY <1>2
  <2> QED  BY <1>4, <1>6, <2>1
<1>8. ASSUME NEW k \in a + 1 .. b PROVE t[k] # Space
  <2>1. /\ k \in 1 .. b + 1 /\ k <= b /\ k \in 1 .. b /\ ~ k <= a
        /\ k - a \in 1 .. Len(w)
    BY <1>2
  <2>2. t[k] = w[k - a]
    BY <1>4, <1>6, <2>1
  <2> QED  BY <1>1, <2>1, <2>2
<1>9. t[b + 1] = Space
  <2>1. b + 1 \in 1 .. b + 1 /\ ~ b + 1 <= b /\ (b + 1) - b = 1
    BY <1>2
  <2>2. t[b + 1] = <<Space>>[(b + 1) - b]
    BY <1>6, <2>1
  <2> QED  BY <1>3, <2>1, <2>2
<1>10. ReadTo(t, a, base, ns, {}) /\ Between(t, a, {})
  <2>1. Begins(s, t, {})
    BY <1>2, <1>6, <1>7 DEF Begins
  <2> QED  BY <1>6, <2>1, BeginningReads
<1>11. IsPiece(t, a + 1, b, {})
  <2>1. a + 1 \in 1 .. Len(t) /\ b \in a + 1 .. Len(t)
    BY <1>2, <1>6, SMTT(30)
  <2> HIDE DEF a, b
  <2> QED  BY <1>8, <1>9, <2>1 DEF IsPiece
<1>12. SubSeq(t, a + 1, b) = w
  <2> DEFINE x == SubSeq(t, a + 1, b)
  <2>1. /\ x \in Seq(Int) /\ Len(x) = b - (a + 1) + 1
        /\ \A k \in 1 .. b - (a + 1) + 1 : x[k] = t[a + 1 + k - 1]
    <3>1. a + 1 \in Int /\ b \in Int /\ a + 1 <= b /\ \A k \in a + 1 .. b : t[k] \in Int
      BY <1>2, <1>6, SMTT(30)
    <3> QED  BY <3>1, SubSeqProperties
  <2> HIDE DEF x
  <2>2. Len(x) = Len(w)
    BY <1>2, <2>1
  <2>3. ASSUME NEW k \in 1 .. Len(x) PROVE x[k] = w[k]
    <3>1. /\ k \in 1 .. b - (a + 1) + 1 /\ a + 1 + k - 1 = a + k
          /\ a + k \in 1 .. b + 1 /\ a + k <= b /\ a + k \in 1 .. b /\ ~ a + k <= a
          /\ (a + k) - a = k
      BY <1>2, <2>2
    <3>2. t[a + k] = w[(a + k) - a]
      BY <1>4, <1>6, <3>1
    <3> QED  BY <2>1, <3>1, <3>2
  <2>4. x = w
    BY <1>1, <2>1, <2>2, <2>3, SeqEqual
  <2> QED  BY <2>4 DEF x
<1>13. ReadTo(t, b, base, Append(ns, n), {}) /\ Between(t, b, {})
  <2> DEFINE f == a + 1
  <2>1. a < f /\ (\A q \in a + 1 .. f - 1 : t[q] = Space) /\ IsPiece(t, f, b, {})
    BY <1>2, <1>11
  <2>2. strtol(SubSeq(t, f, b), base) = n
    BY <1>1, <1>12
  <2> HIDE DEF f, a, b
  <2>3. /\ ReadTo(t, b, base, Append(ns, strtol(SubSeq(t, f, b), base)), {})
        /\ Between(t, b, {})
    BY <1>6, <1>10, <2>1, ReadPiece
  <2> QED  BY <2>2, <2>3
<1>14. ReadTo(t, b + 1, base, Append(ns, n), {})
  <2>1. b + 1 \in b .. Len(t) /\ \A q \in b + 1 .. b + 1 : t[q] = Space
    BY <1>2, <1>6, <1>9
  <2> HIDE DEF b
  <2> QED  BY <1>6, <1>13, <2>1, ReadSpaces
<1> QED  BY <1>6, <1>9, <1>14 DEF t

(* The array of hw6 whose least int it cannot write.                       *)
LeastIn == program = "hw6" /\ \E p \in 1 .. size : array[p] = MinInt

(* The output file holds the first numbers of the array.                   *)
WrittenSoFar ==
  /\ out \in Seq(Int) /\ (out = << >> \/ out[Len(out)] = Space)
  /\ \E ns \in Seq(Ints) :
       /\ Len(ns) = written /\ \A k \in 1 .. written : ns[k] = array[k]
       /\ ReadTo(out, Len(out), Base(writeHex), ns, {})

WritingInv ==
  /\ pc \in {"open", "read", "sort"} => out = << >>
  /\ pc \in {"write", "done"} /\ writable => LeastIn \/ WrittenSoFar
  /\ pc = "done" => written = size
  /\ writeHex \in BOOLEAN

LEMMA WritingInvInit == Init => WritingInv
BY DEF Init, WritingInv

(* Nothing has been written when writing begins.                           *)
LEMMA StartsWriting == FileInv /\ WritingInv /\ StartWriting => WritingInv'
<1> SUFFICES ASSUME FileInv, WritingInv, StartWriting PROVE WritingInv'
  OBVIOUS
<1>1. /\ pc = "sort" /\ pc' \in {"write", "crashed"}
      /\ UNCHANGED <<array, program, writable, writeHex, written, out>>
  BY DEF StartWriting, options, sortVars
<1>2. out = << >> /\ written = 0
  BY <1>1 DEF WritingInv, FileInv
<1>3. WrittenSoFar'
  <2>1. /\ << >> \in Seq(Int) /\ << >> \in Seq(Ints) /\ Len(<< >>) = 0
        /\ 1 .. 0 = {}
    OBVIOUS
  <2>2. ReadTo(<< >>, 0, Base(writeHex), << >>, {})
    BY <2>1, NothingRead
  <2>3. out' = << >> /\ written' = 0 /\ Base(writeHex') = Base(writeHex)
    BY <1>1, <1>2
  <2>4. ReadTo(out', Len(out'), Base(writeHex'), << >>, {})
    BY <2>1, <2>2, <2>3
  <2> QED  BY <2>1, <2>3, <2>4 DEF WrittenSoFar
<1> QED  BY <1>1, <1>3 DEF WritingInv

LEMMA WritesNumber == FileInv /\ WritingInv /\ WriteNumber => WritingInv'
<1> SUFFICES ASSUME FileInv, WritingInv, WriteNumber PROVE WritingInv'
  OBVIOUS
<1> DEFINE n == array[written + 1]
           base == Base(writeHex)
<1>1. /\ pc = "write" /\ written < size /\ written' = written + 1
      /\ out' = IF ~ writable THEN out
                ELSE out \o (IF program = "hw6" THEN Written(n, base)
                                               ELSE Printed(n, writeHex))
      /\ UNCHANGED <<array, program, writable, writeHex, pc>>
  BY DEF WriteNumber, options, sortVars
<1>2. LeastIn' = LeastIn
  BY <1>1 DEF LeastIn, size
<1>3. ASSUME writable, ~ LeastIn PROVE WrittenSoFar'
  <2>1. /\ array \in Seq(Ints) /\ written \in Nat /\ size = Len(array) /\ size \in Nat
        /\ written + 1 \in 1 .. size
    <3>1. array \in Seq(Ints) /\ written \in 0 .. size
      BY DEF FileInv, TypeOK
    <3> QED  BY <1>1, <3>1 DEF size
  <2>2. n \in Ints
    BY <2>1
  <2>3. base \in Nat \ {0, 1} /\ writeHex \in BOOLEAN
    BY SortFileAssumption DEF Base, WritingInv
  <2>4. WrittenSoFar
    BY <1>1, <1>3 DEF WritingInv
  <2>5. PICK ns \in Seq(Ints) :
          /\ Len(ns) = written /\ \A k \in 1 .. written : ns[k] = array[k]
          /\ ReadTo(out, Len(out), base, ns, {})
    BY <2>4 DEF WrittenSoFar
  <2> HIDE DEF n
  <2>6. \E w : out' = out \o (w \o <<Space>>) /\ Spells(w, n, base)
    <3>1. CASE program = "hw6"
      <4>1. n # MinInt
        BY <1>3, <2>1, <3>1 DEF LeastIn, n
      <4>2. out' = out \o Written(n, base)
        BY <1>1, <1>3, <3>1
      <4> HIDE DEF base
      <4> QED  BY <2>2, <2>3, <4>1, <4>2, WrittenSpells
    <3>2. CASE program # "hw6"
      <4>1. out' = out \o Printed(n, writeHex)
        BY <1>1, <1>3, <3>2
      <4> QED  BY <2>2, <2>3, <4>1, PrintedSpells
    <3> QED  BY <3>1, <3>2
  <2>7. PICK w : out' = out \o (w \o <<Space>>) /\ Spells(w, n, base)
    BY <2>6
  <2>8. out \in Seq(Int) /\ (out = << >> \/ out[Len(out)] = Space)
    BY <2>4 DEF WrittenSoFar
  <2> DEFINE more == Append(ns, n)
  <2>9. /\ out' \in Seq(Int) /\ out'[Len(out')] = Space
        /\ ReadTo(out', Len(out'), base, more, {})
    <3> DEFINE t == out \o (w \o <<Space>>)
    <3>1. base \in Nat
      BY <2>3
    <3> HIDE DEF base
    <3>2. t \in Seq(Int) /\ t[Len(t)] = Space /\ ReadTo(t, Len(t), base, more, {})
      BY <2>2, <2>5, <2>7, <2>8, <3>1, NumberAppended
    <3>3. out' = t
      BY <2>7
    <3> QED  BY <3>2, <3>3
  <2>10. /\ more \in Seq(Ints) /\ Len(more) = written'
         /\ \A k \in 1 .. written' : more[k] = array'[k]
    <3>1. /\ more \in Seq(Ints) /\ Len(more) = written + 1
          /\ \A k \in 1 .. written : more[k] = ns[k]
          /\ more[written + 1] = n
      BY <2>2, <2>5, AppendProperties
    <3> HIDE DEF more
    <3>2. ASSUME NEW k \in 1 .. written + 1 PROVE more[k] = array[k]
      <4>1. CASE k \in 1 .. written
        BY <2>5, <3>1, <4>1
      <4>2. CASE k = written + 1
        BY <3>1, <4>2 DEF n
      <4> QED  BY <2>1, <4>1, <4>2
    <3> QED  BY <1>1, <3>1, <3>2
  <2>11. base = Base(writeHex')
    BY <1>1
  <2> HIDE DEF more, base
  <2> QED  BY <2>9, <2>10, <2>11 DEF WrittenSoFar
<1> QED  BY <1>1, <1>2, <1>3 DEF WritingInv

LEMMA WritingStep == FileInv /\ WritingInv /\ [Next]_vars => WritingInv'
<1> SUFFICES ASSUME FileInv, WritingInv, [Next]_vars PROVE WritingInv'
  OBVIOUS
<1>1. CASE /\ pc \notin {"write", "done"} /\ pc' \notin {"write", "done"}
           /\ pc \in {"open", "read", "sort"} \/ pc' \notin {"open", "read", "sort"}
           /\ UNCHANGED <<writeHex, out>>
  BY <1>1 DEF WritingInv
<1>2. CASE Open \/ OpenFails
  BY <1>1, <1>2 DEF Open, OpenFails, options
<1>3. CASE Read \/ SkipSeparator \/ ReadNumber \/ Overrun
  BY <1>1, <1>3 DEF Read, SkipSeparator, ReadNumber, Overrun, AtNumber, options
<1>4. CASE EndOfFile \/ ReadFails \/ ScanEnd
  BY <1>1, <1>4 DEF EndOfFile, ReadFails, ScanEnd, Scanning, SortBegins, options
<1>5. CASE ScanNumber \/ ScanOutside \/ ScanNothing
  BY <1>1, <1>5 DEF ScanNumber, ScanOutside, ScanNothing, Scanning, Counted, options
<1>6. CASE Sort
  BY <1>1, <1>6 DEF Sort, options
<1>7. CASE Exit
  <2>1. /\ pc = "write" /\ pc' = "done" /\ written = size
        /\ UNCHANGED <<array, program, writable, writeHex, written, out>>
    BY <1>7 DEF Exit, options, sortVars
  <2>2. size' = size /\ LeastIn' = LeastIn /\ WrittenSoFar' = WrittenSoFar
    BY <2>1 DEF size, LeastIn, WrittenSoFar
  <2> QED  BY <2>1, <2>2 DEF WritingInv
<1>8. CASE UNCHANGED vars
  <2>1. UNCHANGED <<array, program, writable, writeHex, pc, written, out>>
    BY <1>8 DEF vars
  <2>2. size' = size /\ LeastIn' = LeastIn /\ WrittenSoFar' = WrittenSoFar
    BY <2>1 DEF size, LeastIn, WrittenSoFar
  <2> QED  BY <2>1, <2>2 DEF WritingInv
<1> QED
  BY <1>2, <1>3, <1>4, <1>5, <1>6, <1>7, <1>8, StartsWriting, WritesNumber DEF Next

(* Whatever ints were sorted, in whatever base: who reads the output file  *)
(* in that base finds all of them, in their order, but for the least int,  *)
(* which hw6 cannot write.                                                 *)
THEOREM WritesCorrect == Spec => []WritesTheArray
<1>1. Init => FileInv /\ WritingInv
  BY FileInitInv, WritingInvInit
<1>2. FileInv /\ WritingInv /\ [Next]_vars => (FileInv /\ WritingInv)'
  BY FileStep, WritingStep
<1>3. FileInv /\ WritingInv => WritesTheArray
  <2> SUFFICES ASSUME FileInv, WritingInv, pc = "done", writable, ~ LeastIn
               PROVE  Numbers(out, Base(writeHex), {}) = array
    BY DEF WritesTheArray, LeastIn
  <2>1. WrittenSoFar /\ written = size
    BY DEF WritingInv
  <2>2. array \in Seq(Ints) /\ size = Len(array) /\ out \in Seq(Int)
    BY <2>1 DEF FileInv, TypeOK, size, WrittenSoFar
  <2>3. PICK ns \in Seq(Ints) :
          /\ Len(ns) = size /\ \A k \in 1 .. size : ns[k] = array[k]
          /\ ReadTo(out, Len(out), Base(writeHex), ns, {})
    BY <2>1 DEF WrittenSoFar
  <2>4. ns = array
    BY <2>2, <2>3, SeqEqual
  <2> QED  BY <2>2, <2>3, <2>4, AllRead
<1> QED  BY <1>1, <1>2, <1>3, PTL DEF Spec

=============================================================================
