----------------------------- MODULE SortFile ------------------------------
(***************************************************************************)
(* The sortfile of hw4, hw5 and hw6: it reads the numbers of a file, sorts *)
(* them, and writes them to another file.  hw4 and hw5 read with fscanf    *)
(* into an array of fixed size, hw6 reads through a buffer into an array   *)
(* that grows; hw4 knows no hexadecimal.  A file is a sequence of          *)
(* characters: a digit is its number.  Printing is left out.               *)
(***************************************************************************)
EXTENDS BubbleSort, SequencesExt

CONSTANTS
  Files,         \* the files that may be given
  BufferSize,    \* 512
  StrSize,       \* 10, the characters of readNumbers's str (fileio.c:57)
  FirstLimit,    \* 100, the numbers that the first malloc has room for
  MoreLimit,     \* 50, the numbers that each realloc adds room for
  Decimal, Hex,  \* 10 and 16
  MaxInt,        \* INT_MAX, 2^31 - 1
  MaxNumbers,    \* 100, the bytes of the array of hw4 and hw5
  IntSize,       \* 4, the bytes of an int
  GiveUp,        \* 100, the numbers at which hw5 gives up
  Junk           \* what memory may hold that was never written

ASSUME SortFileAssumption ==
  /\ {BufferSize, FirstLimit, MoreLimit, MaxNumbers, IntSize} \subseteq Nat \ {0}
  /\ StrSize \in Nat
  /\ MaxInt \in Nat
  /\ Decimal \in Nat \ {0, 1} /\ Hex \in Nat \ {0, 1} /\ Hex # Decimal
  /\ GiveUp \in Nat /\ MaxNumbers \div IntSize < GiveUp
  /\ Files \subseteq Seq(Int)

VARIABLES
  program,                    \* "hw4", "hw5" or "hw6"
  file, readable, writable,   \* the files, and whether they can be opened
  intact,                     \* hw6's read never returns -1
  readHex, writeHex,          \* the options -x and -y
  pc,
  pos,                        \* how much of the file has been read
  buffer, at,                 \* the buffer and readNumbers's i
  limit,                      \* the numbers that array has room for
  written,                    \* writeNumbers's i
  out                         \* the output file

vars == <<array, i, j, original, perm, program, file, readable, writable, intact,
          readHex, writeHex, pc, pos, buffer, at, limit, written, out>>

-----------------------------------------------------------------------------
(* Characters.  Space is a separator, and the only white space; X is the x *)
(* of 0x, and Garbage any other character.                                 *)

Space == -1
Minus == -2
Garbage == -3
X == -4
Plus == -5

Signs == {Minus, Plus}

(* What is left of a number in a variable of type int.                     *)
MinInt == - MaxInt - 1
Ints == MinInt .. MaxInt
IntRange == 2 * (MaxInt + 1)
AsInt(n) == ((n - MinInt) % IntRange) + MinInt

ASSUME JunkAssumption == Junk # {} /\ Junk \subseteq Ints

(* The number that the first n digits write.                               *)
Value(digits, n, base) ==
  LET value[m \in 0 .. n] == IF m = 0 THEN 0 ELSE value[m - 1] * base + digits[m]
  IN  value[n]

(* strtol and atoi, and the cast of what they return: a sign, in base 16   *)
(* a 0x, and digits up to the first character that is none.  With 0x base  *)
(* 0 is base 16.                                                           *)
strtol(str, base) ==
  LET signless == IF str[1] \in Signs THEN Tail(str) ELSE str
      prefixed == /\ base = Hex /\ Len(signless) > 2
                  /\ signless[1] = 0 /\ signless[2] = X
      digits == IF prefixed THEN SubSeq(signless, 3, Len(signless)) ELSE signless
      n == Max({m \in 0 .. Len(digits) :
                  \A k \in 1 .. m : digits[k] \in 0 .. base - 1})
      value == Value(digits, n, base)
  IN  AsInt(IF str[1] = Minus THEN - value ELSE value)

(* The longest run of characters of s, from p on, that are no separators   *)
(* and that no position of cuts parts.                                     *)
Piece(s, p, cuts) ==
  SubSeq(s, p, Max({q \in p .. Len(s) :
                      /\ \A k \in p .. q : s[k] # Space
                      /\ \A k \in p .. q - 1 : k \notin cuts}))

Token(s, p) == Piece(s, p, {})

(* What is left of n when its last m digits are taken off, one by one, in  *)
(* the loop of writeNumbers; n + 1 of them are enough for any base.        *)
Rests(n, base) ==
  LET rest[m \in 0 .. n + 1] == IF m = 0 THEN n ELSE rest[m - 1] \div base
  IN  rest

(* The digits of writeNumbers, lowest last.  abs leaves the least int as   *)
(* it is, and the loop stops at a remainder that is not positive.          *)
(* Mutant: the loop ends before a digit of 0 is made.                      *)
DigitsWhilePositive(n, base) ==
  LET rest == Rests(n, base)
      k == Min({m \in 0 .. n + 1 : rest[m] = 0})
  IN  [p \in 1 .. k |-> rest[k - p] % base]
Digits(n, base) ==
  LET rest == Rests(n, base)
      k == Min({m \in 1 .. n + 1 : rest[m] = 0})
  IN  IF n < 0 THEN <<IF (- n) % base = 0 THEN 0 ELSE Garbage>>
               ELSE [p \in 1 .. k |-> rest[k - p] % base]

Written(n, base) ==
  LET magnitude == IF n < 0 /\ n # MinInt THEN - n ELSE n
  IN  (IF n < 0 THEN <<Minus>> ELSE << >>)
        \o Digits(magnitude, base) \o <<Space>>

(* fprintf of hw4 and hw5: %d, and %x, which takes the int as unsigned.    *)
Printed(n, hex) ==
  IF hex THEN Digits(n % IntRange, Hex) \o <<Space>>
  ELSE (IF n < 0 THEN <<Minus>> ELSE << >>)
         \o Digits(IF n < 0 THEN - n ELSE n, Decimal) \o <<Space>>

Base(hex) == IF hex THEN Hex ELSE Decimal

-----------------------------------------------------------------------------
Init ==
  /\ program \in {"hw4", "hw5", "hw6"}
  /\ file \in Files /\ readable \in BOOLEAN /\ writable \in BOOLEAN
  /\ readHex \in BOOLEAN /\ writeHex \in BOOLEAN
  /\ ~ readable => file = << >> /\ ~ readHex /\ ~ writeHex
  /\ intact \in BOOLEAN /\ (~ readable \/ program # "hw6" => intact)
  /\ program = "hw4" => ~ readHex /\ ~ writeHex
  /\ program = "hw5" /\ readHex => \A p \in DOMAIN file : file[p] # X
  /\ Call(<< >>)
  /\ pc = "open" /\ pos = 0 /\ buffer = << >> /\ at = 1
  /\ limit = 0 /\ written = 0 /\ out = << >>

options == <<program, file, readable, writable, intact, readHex, writeHex>>

Open ==
  /\ pc = "open" /\ readable
  /\ pc' = "read"
  /\ limit' = IF program = "hw6" THEN FirstLimit ELSE MaxNumbers \div IntSize
  /\ UNCHANGED <<sortVars, options, pos, buffer, at, written, out>>

(* readNumbers returns -1; main of hw6 frees a pointer that nothing set.   *)
OpenFails ==
  /\ pc = "open" /\ ~ readable
  /\ pc' \in (IF program = "hw6" THEN {"failed", "crashed"} ELSE {"failed"})
  /\ UNCHANGED <<sortVars, options, pos, buffer, at, limit, written, out>>

Read ==
  /\ program = "hw6" /\ pc = "read" /\ at > Len(buffer) /\ pos < Len(file)
  /\ LET end == Min({pos + BufferSize, Len(file)})
     IN  buffer' = SubSeq(file, pos + 1, end) /\ pos' = end
  /\ at' = 1
  /\ UNCHANGED <<sortVars, options, pc, limit, written, out>>

(* Mutant: a separator hides what follows it.                              *)
SkipSeparatorAndNext ==
  /\ pc = "read" /\ at <= Len(buffer) /\ buffer[at] = Space
  /\ at' = Min({at + 2, Len(buffer) + 1})
  /\ UNCHANGED <<sortVars, options, pc, pos, buffer, limit, written, out>>
SkipSeparator ==
  /\ pc = "read" /\ at <= Len(buffer) /\ buffer[at] = Space
  /\ at' = at + 1
  /\ UNCHANGED <<sortVars, options, pc, pos, buffer, limit, written, out>>

(* A number: up to a separator or the end of the buffer.  Line 69 looks at *)
(* the character after it, past the 512 of a full buffer too, and then     *)
(* line 65 finds the end, whatever is there.                               *)
AtNumber == pc = "read" /\ at <= Len(buffer) /\ buffer[at] # Space

(* The number fits into str, with the zero that ends it.                   *)
(* Mutant: the array grows when it is over full.                           *)
ReadNumberGrowsLate ==
  /\ AtNumber
  /\ LET str == Token(buffer, at)
     IN  /\ Len(str) < StrSize
         /\ array' = Append(array, strtol(str, Base(readHex)))
         /\ at' = at + Len(str)
  /\ limit' = IF Len(array') > limit THEN limit + MoreLimit ELSE limit
  /\ UNCHANGED <<i, j, original, perm, options, pc, pos, buffer, written, out>>
(* Mutant: the separator after the number is skipped, even if the buffer   *)
(* ends instead of it.                                                     *)
ReadNumberSkipsOne ==
  /\ AtNumber
  /\ LET str == Token(buffer, at)
     IN  /\ Len(str) < StrSize
         /\ array' = Append(array, strtol(str, Base(readHex)))
         /\ at' = at + Len(str) + 1
  /\ limit' = IF Len(array') = limit THEN limit + MoreLimit ELSE limit
  /\ UNCHANGED <<i, j, original, perm, options, pc, pos, buffer, written, out>>
ReadNumber ==
  /\ AtNumber
  /\ LET str == Token(buffer, at)
     IN  /\ Len(str) < StrSize
         /\ array' = Append(array, strtol(str, Base(readHex)))
         /\ at' = at + Len(str)
  /\ limit' = IF Len(array') = limit THEN limit + MoreLimit ELSE limit
  /\ UNCHANGED <<i, j, original, perm, options, pc, pos, buffer, written, out>>

(* It does not: the characters are stored past str, or there is no zero    *)
(* where strtol looks for it, and what follows is undefined.               *)
Overrun ==
  /\ AtNumber /\ Len(Token(buffer, at)) >= StrSize
  /\ pc' = "outside"
  /\ UNCHANGED <<sortVars, options, pos, buffer, at, limit, written, out>>

SortBegins ==
  /\ pc' = "sort"
  /\ array' = array /\ original' = array
  /\ perm' = [p \in DOMAIN array |-> p] /\ i' = 0 /\ j' = 0

(* read returns 0; main calls bubbleSort.                                  *)
EndOfFile ==
  /\ program = "hw6" /\ pc = "read" /\ at > Len(buffer) /\ pos = Len(file)
  /\ SortBegins
  /\ UNCHANGED <<options, pos, buffer, at, limit, written, out>>

(* read returns -1, which ends the loop as well.                           *)
ReadFails ==
  /\ program = "hw6" /\ pc = "read" /\ at > Len(buffer) /\ ~ intact
  /\ SortBegins
  /\ UNCHANGED <<options, pos, buffer, at, limit, written, out>>

-----------------------------------------------------------------------------
(* fscanf, of hw4 and hw5: it skips separators, and takes a sign and the   *)
(* digits that follow.  When there are none it has consumed the sign and   *)
(* nothing else, stores nothing, and returns 0, which is not EOF.  What %x *)
(* makes of a 0x is left out: no file for hw5 -x has an X (Init).          *)

Scanning == program # "hw6" /\ pc = "read"

SkipsTo(p) ==
  /\ pos < p /\ \A q \in pos + 1 .. p - 1 : file[q] = Space
  /\ p <= Len(file) => file[p] # Space

Sign(p) == IF file[p] \in Signs THEN 1 ELSE 0
IsDigit(p) == file[p] \in 0 .. Base(readHex) - 1

Takes(first, last) ==
  /\ SkipsTo(first) /\ first + Sign(first) <= last
  /\ \A p \in first + Sign(first) .. last : IsDigit(p)
  /\ last < Len(file) => ~ IsDigit(last + 1)

(* The loop of readNumbers counts what fscanf has done, whether it stored  *)
(* a number or left what the memory held; past limit array only counts.    *)
(* The decimal loop of hw5 ends the program at GiveUp, and for the others  *)
(* a larger count is no different.                                         *)
Counted(value) ==
  /\ array' = IF size < GiveUp THEN Append(array, value) ELSE array
  /\ pc' = IF program = "hw5" /\ ~ readHex /\ Len(array') >= GiveUp
           THEN "gaveUp" ELSE "read"

ScanNumber ==
  /\ Scanning /\ size < limit
  /\ \E first, last \in DOMAIN file :
       /\ Takes(first, last) /\ pos' = last
       /\ \E value \in {strtol(SubSeq(file, first, last), Base(readHex))} :
            Counted(value)
  /\ UNCHANGED <<i, j, original, perm, options, buffer, at, limit, written, out>>

(* The array is full, and what follows is undefined.                       *)
ScanOutside ==
  /\ Scanning /\ size >= limit
  /\ \E first, last \in DOMAIN file : Takes(first, last)
  /\ pc' = "outside"
  /\ UNCHANGED <<sortVars, options, pos, buffer, at, limit, written, out>>

ScanNothing ==
  /\ Scanning
  /\ \E first \in DOMAIN file :
       /\ SkipsTo(first) /\ ~ \E last \in DOMAIN file : Takes(first, last)
       /\ pos' = first + Sign(first) - 1
  /\ \E value \in Junk : Counted(value)
  /\ UNCHANGED <<i, j, original, perm, options, buffer, at, limit, written, out>>

(* fscanf returns EOF; what was counted may be more than the array holds.  *)
ScanEnd ==
  /\ Scanning /\ SkipsTo(Len(file) + 1)
  /\ IF size <= limit THEN SortBegins
                      ELSE pc' = "outside" /\ UNCHANGED sortVars
  /\ UNCHANGED <<options, pos, buffer, at, limit, written, out>>

-----------------------------------------------------------------------------

Sort ==
  /\ pc = "sort" /\ SortNext
  /\ UNCHANGED <<options, pc, pos, buffer, at, limit, written, out>>

(* bubbleSort returns, and writeNumbers opens its file.  If that fails it  *)
(* goes on: hw6's writes fail, one by one and silently, and the others     *)
(* use a file pointer of NULL.                                             *)
StartWriting ==
  /\ pc = "sort" /\ Finished
  /\ pc' = IF writable \/ program = "hw6" THEN "write" ELSE "crashed"
  /\ UNCHANGED <<sortVars, options, pos, buffer, at, limit, written, out>>

WriteNumber ==
  /\ pc = "write" /\ written < size
  /\ written' = written + 1
  /\ \E n \in {array[written + 1]} :
       out' = IF ~ writable THEN out
              ELSE out \o (IF program = "hw6" THEN Written(n, Base(writeHex))
                                             ELSE Printed(n, writeHex))
  /\ UNCHANGED <<sortVars, options, pc, pos, buffer, at, limit>>

Exit ==
  /\ pc = "write" /\ written = size
  /\ pc' = "done"
  /\ UNCHANGED <<sortVars, options, pos, buffer, at, limit, written, out>>

Next ==
  \/ Open \/ OpenFails
  \/ Read \/ SkipSeparator \/ ReadNumber \/ Overrun \/ EndOfFile \/ ReadFails
  \/ ScanNumber \/ ScanOutside \/ ScanNothing \/ ScanEnd
  \/ Sort \/ StartWriting \/ WriteNumber \/ Exit

(* One process that waits for nobody.                                      *)
Spec == Init /\ [][Next]_vars /\ WF_vars(Next)

-----------------------------------------------------------------------------
(* The variables have their types.  The index of readNumbers is at most    *)
(* one past what was read, where line 69 looks, and those of bubbleSort    *)
(* and writeNumbers stay within the array.                                 *)
TypeOK ==
  /\ array \in Seq(Ints) /\ original \in Seq(Ints)
  /\ pc \in {"open", "read", "sort", "write", "done", "failed", "crashed",
            "gaveUp", "outside"}
  /\ pos \in 0 .. Len(file) /\ Len(buffer) <= BufferSize
  /\ at \in 1 .. Len(buffer) + 1
  /\ written \in 0 .. size /\ i \in 0 .. size

(* readNumbers (hw6/fileio.c:94) never stores a number past the end of the *)
(* array: there is room for one more whenever it goes on reading.          *)
RoomForOneMore == program = "hw6" /\ pc = "read" => Len(array) < limit

(* The numbers of a file: where they begin, and what they are, if each is  *)
(* read up to a separator or up to one of the positions cuts.              *)
Starts(s, cuts) ==
  {p \in DOMAIN s : s[p] # Space /\ (p > 1 => s[p - 1] = Space \/ p - 1 \in cuts)}
Rank(s, p, cuts) == Cardinality({q \in Starts(s, cuts) : q <= p})
Numbers(s, base, cuts) ==
  [k \in 1 .. Cardinality(Starts(s, cuts)) |->
     strtol(Piece(s, CHOOSE p \in Starts(s, cuts) : Rank(s, p, cuts) = k, cuts), base)]

(* hw6 reads a number that crosses from one buffer into the next as two.   *)
Cuts == IF program = "hw6" THEN {p \in DOMAIN file : p % BufferSize = 0} ELSE {}

(* Nothing but numbers and separators.                                     *)
OnlyNumbers(s, base) ==
  \A p \in Starts(s, {}) :
    LET str == Token(s, p)
        digits == IF str[1] \in Signs THEN Tail(str) ELSE str
    IN  digits # << >> /\ \A k \in DOMAIN digits : digits[k] \in 0 .. base - 1

(* hw6 (fileio.c:26) sorts the numbers it has read, all of them and in     *)
(* their order, whatever the file holds; those of the whole file unless    *)
(* read fails; and it leaves its str only at a number of StrSize           *)
(* characters or more.                                                     *)
ReadsItsBuffers ==
  /\ pc \in {"sort", "write", "done"} =>
       /\ original = Numbers(SubSeq(file, 1, pos), Base(readHex), Cuts)
       /\ intact => pos = Len(file)
  /\ pc = "outside" =>
       \E p \in Starts(file, Cuts) : Len(Piece(file, p, Cuts)) >= StrSize

(* hw4 and hw5 (fileio.c:23) sort the numbers of a file that holds nothing *)
(* else, and leave their array only when there are more than it has room   *)
(* for.  What hw5 says when it gives up is true.                           *)
ScansItsNumbers ==
  /\ OnlyNumbers(file, Base(readHex)) =>
       LET numbers == Numbers(file, Base(readHex), {})
       IN  /\ pc \in {"sort", "write", "done"} => original = numbers
           /\ pc = "outside" => Len(numbers) > MaxNumbers \div IntSize
  /\ pc = "gaveUp" => ~ OnlyNumbers(file, Decimal)

(* What is sorted is what the file says, in each of the three programs.    *)
ReadsTheFile == IF program = "hw6" THEN ReadsItsBuffers ELSE ScansItsNumbers

(* bubbleSort, called by main, sorts what has been read and loses nothing  *)
(* of it (sortfile.c:77).                                                  *)
SortsWhatItRead ==
  pc \in {"sort", "write", "done"} => Sorted /\ SameElements

(* Who reads the output file in the base it was written in, with room for  *)
(* its numbers, finds them again (hw6/fileio.c:126, hw5/fileio.c:82),      *)
(* which takes back the two's complement of %x; in hw6, unless the least   *)
(* int is among them.                                                      *)
WritesTheArray ==
  pc = "done" /\ writable =>
    \/ Numbers(out, Base(writeHex), {}) = array
    \/ program = "hw6" /\ \E p \in 1 .. size : array[p] = MinInt

(* Reading, sorting and writing come to an end, or leave defined           *)
(* behaviour; in hw4 and in the hexadecimal of hw5, if the file holds only *)
(* numbers: fscanf never gets past anything else (hw5/fileio.c:45).        *)
ScansForEver ==
  /\ program # "hw6" /\ (program = "hw4" \/ readHex)
  /\ ~ OnlyNumbers(file, Base(readHex))
Terminates ==
  <>(ScansForEver \/ pc \in {"done", "failed", "crashed", "gaveUp", "outside"})

=============================================================================
