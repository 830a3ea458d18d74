# TLA+ models and proofs for CS304-ComputerOrganization

The repository holds the programs of a computer organization course.  Those
that keep state or compute at the edges of a word are modelled here:

* `lab4/tsh.c`, a job-control shell whose signal handlers share a job list with
  its main loop;
* `lab3/mm.c` and `memlib.c`, a malloc package with boundary tags and next fit,
  with its driver `mdriver.c` and the K-best sampler `fcyc.c` on the cycle
  counter `clock.c`;
* `lab5:banksim/banksim.c`, a simulation with teller threads and a generator;
* `lab1/bits.c`, twenty puzzles on words and floats, and `btest.c`, the harness
  that scores them against `tests.c`;
* `sortfile.c` and `fileio.c` of `hw4`, `hw5` and `hw6`, which read, sort and
  write files of numbers.

TLC 2 checks the models on small instances; TLAPS 1.4.5 proves the theorems for
every value of the constants.

## Inventory

| part | state | operations | hard because |
| --- | --- | --- | --- |
| job list (`tsh.c` 572-742) | `jobs[16]`, `nextjid` | `addjob`, `deletejob`, searches, writes of `job->state` | slots are reused, `nextjid` wraps and moves back |
| shell (`tsh.c` 110-465) | locals of `eval`, `do_bgfg`, `waitfg`; the mask | read, quit, fork and list, fg, bg, wait | every step can be interrupted by a handler that writes the list; pointers into the list are kept across steps |
| handlers (`tsh.c` 478-565, 798) | their locals | reap, stop, delete; forward SIGINT and SIGTSTP; exit | they nest (SIGCHLD and the keys interrupt each other), signals of one kind merge, `kill` can fail |
| children (`tsh.c` 223-234, `my*.c`) | process state, group | setpgrp, exec, exit, kill or stop itself | they run between any two steps of the shell |
| `sdriver.pl` | position in a trace | sends commands and signals | timing against the shell |
| malloc package (`mm.c`) | tags in the heap, `nextFit_pointer` | init, malloc, free, realloc | one wrong tag shows only calls later |
| simulated memory (`memlib.c`) | `mem_brk` | sbrk, reset | the memory runs out |
| malloc driver (`mdriver.c`) | traces, range list, blocks, figures | replays each trace three times: checks, measures, times | its own checks must catch what it promises, and the replays share one heap |
| timing (`fcyc.c`, `fsecs.c`, `ftimer.c`, `clock.c`) | sample list, counter words, ticks | K-best sampling | static state across calls, a counter of two words, values that never agree |
| bank (`banksim.c`) | queue, two counters, mutex, threads | take, serve; arrive, realloc, end | a counter and the queue are written without the mutex that readers hold |
| sorters (`hw4`, `hw5`, `hw6`) | buffer, array (fixed or growing), files | read, sort, write | a hand-written reader works buffer by buffer; `fscanf` stops at what is no number |
| bit puzzles (`bits.c`, `tests.c`) | none | pure functions of 32-bit words | edge values of words and floats |
| puzzle harness (`btest.c`, `decl.c`) | the function under test, its errors, the score, an alarm | test, time out, score | the alarm may go off at any time, also when nothing waits for it |
| viewers, printers, assembly, bomb `main` | none or little | print | nothing to model |

How the parts interact: the shell and its handlers share `jobs` and `nextjid`;
the kernel connects children to the shell by SIGCHLD and `waitpid`, and
`sdriver.pl` sends the shell its signals.  `mm.c` calls `mem_sbrk`; `mdriver.c`
calls `mm.c` and compares what it gets with its range list, and hands
`eval_mm_speed` to `fsecs`, which the shipped build (`config.h`, `USE_GETTOD`)
lets `ftimer_gettod` repeat and other builds let `fcyc` sample.  The threads of
the bank share one struct.  Programs of different directories do not interact.

`PROJECT.json` lists every part under `components` with what is left out, and
under `hazards` what can go wrong at which line.

## Modules

| module | models | role |
| --- | --- | --- |
| `JobList` | the job list routines as operators on the array | used by the next two |
| `JobTable`, `MCJobTable` | the list used by one thread at a time | state machine |
| `Shell`, `MCShell` | shell, handlers, kernel, children, keyboard | state machine |
| `Heap` | `mm.c` on `memlib.c`, as operators on the heap | used by the next |
| `Ranges` | the range list of `mdriver.c` | used by the next |
| `HeapClient`, `MCHeap` | `eval_mm_valid` of `mdriver.c`, with any trace, on the package | state machine |
| `Allocator` | what `mdriver.c` demands of a malloc package | abstract specification that `HeapClient` implements |
| `Driver`, `MCDriver` | the trace reader, the three replays and the loop of `main` of `mdriver.c` | state machine that extends `HeapClient` |
| `Sampler`, `MCSampler` | `fcyc` of `fcyc.c` on the counter of `clock.c` | state machine |
| `Bank`, `MCBank` | tellers, generator, main | state machine |
| `Words` | C's `int` and `unsigned` as sets of bits | used by the next |
| `Puzzles` | each puzzle of `bits.c`, and its function of `tests.c` | operators |
| `Btest`, `MCBtest` | the harness | state machine |
| `BubbleSort` | `bubbleSort`, `sort`, `swap` | state machine, part of the next |
| `SortFile`, `MCSortFile` | the three `sortfile` programs: reading, sorting, writing | state machine |
| `JobListProofs`, `JobTableProofs`, `ShellProofs`, `BankProofs` | | theorems |
| `HeapProofs`, `SamplerProofs` | | theorems on `HeapClient`, `Allocator` and `Driver`; on `Sampler` |
| `BtestProofs`, `SortFileProofs` | | theorems on `Puzzles` and `Btest`; on `BubbleSort` and `SortFile` |

Operators whose comment begins with *Mutant* are plausible bugs of the
definition after them.  They are used by no specification; replacing the
definition by its mutant makes TLC find the property violated that the mutant
is listed with in `PROJECT.json`.

### JobList and JobTable

`jobs` is a function from slots `1..MAXJOBS` to records with the fields of
`struct job_t` but the text.  A pointer to a slot is the slot's number, `NULL`
is 0.  `FirstSlot` is the upward search every routine does.  `addjob`,
`deletejob` and `SetState` are one step each in `JobTable`.

### Shell

`pc` and `cmd` are the place and the locals of the main loop, `stack` the
handlers that run, innermost first, `chld` and `target` their locals,
`pending` the kernel's pending signals, `proc` the processes.  Each access of
the main loop to the list is one action: `addjob` is `AddPid`, `AddState`,
`AddLoad`, `AddJid`, `AddNext` (its four stores and the load of `nextjid`);
`fg` and `bg` are `BgFg` (search), `KillArg`, `Kill` or `KillFails`,
`SetState`, `WaitArg`; `waitfg` is `WaitfgFind`, `WaitfgSleep`,
`WaitfgReturn`.  The main loop runs only while `stack` is empty: that is what
running on one thread with signal handlers means.  A handler is `SigchldEnter`,
then `Waitpid` and one of `ChildStopped`, `ChildUnknown`, `ChildGone` for each
child, then `WaitpidNone`; the key handlers are `KeyEnter` and `KeyForward` or
`KeyFails`.  A signal whose handler runs stays pending (sa_mask is empty, so
other handlers may interrupt); SIGTSTP is blocked while `masked`, because
`eval` puts SIGTSTP where its comment says SIGCHLD.

The kernel is external: a killed or exited process is a zombie until `waitpid`
reports it, a stopped one is reported once, each change sends SIGCHLD, `kill`
of a group that does not exist fails.  A child before `setpgrp` has no group of
its own, and before `execvp` catches SIGINT and SIGTSTP with the shell's
handlers, so that the signal is lost.  `exit` of the shell ends the model.

### Heap, Ranges, HeapClient and Allocator

The package computes in doublewords only, so addresses and sizes are counted
in them; a request is in bytes.  The footer of one block and the header of the
next are the two words of one doubleword, so `hdr[a]` and `ftr[a]` are the words
before address `a`.  A word is a tag or a client's pattern, and `memset` and
`memcpy` write over tags where they reach them.  `coalesce`, `extend_heap`,
`place`, `find_fit`, `mm_malloc`, `mm_free` and `mm_realloc` are the functions
of those names.  `blocks` is a history variable: where blocks were meant to
begin.  The walks of `find_fit` are written with it; `HeapTiled` says that
walking through the headers meets exactly these addresses, so the searches
through `blocks` and through the memory agree.  The memory keeps what it held
when a new trace begins.

`HeapClient` holds at most one block per index, as a trace does.  Every new
block goes through the driver's checks (`Checked`): `add_range` compares it with
the heap and the range list, the contents that realloc kept are compared with
the low byte of the index (`NotPreserved`), and then the block is filled with
it.  `LowByte` gives each index its byte; indices may share one.  The comparison
in `mdriver.c:656` is of a signed `char` with a number from 0 to 255, so that it
fails for the bytes from 0x80 on (`Negative`) whatever the block holds.
`errors` is what `malloc_error` said of the last request: that a call returned
NULL, that a range was refused, or that data was lost.  After either of the last
two (`Over`) the driver returns 0, and only a new trace follows.  The client does
a little more than the driver: it goes on after a call that returned NULL, and
calls realloc without a block and with no size.

`add_range` compares only the ends of the new payload with the old ones, so it
misses a payload that contains another.  `Allocator` states the whole check. It
knows nothing of tags and addresses but the set of bytes each index holds
(`payload`): `Give` hands an index bytes that nobody else holds, as many as were
asked for, and frees take them back.  `HeapClient` implements it under the
mapping `Promise == INSTANCE Allocator WITH payload <- payload`, where
`HeapClient`'s `payload` takes a block to the bytes from its pointer to its
pointer plus its size; `Promised` is `Allocator`'s specification under that
mapping.

### Driver

`Driver` extends `HeapClient`: the state, the calls and the checks of the first
replay are the client's, and `DriverInit`, `DriverNext` and `DriverSpec` are the
program.  `pass` is what `main` does with the trace: `ReadOp` reads its
requests, one per step, and keeps it legal (`InUse`); `StartValid`/`ValidOp` are
`eval_mm_valid`, whose requests are the actions of `HeapClient`;
`StartUtil`/`UtilOp` are `eval_mm_util` with the bytes in use and their high
water mark; `StartSpeed`/`SpeedOp`/`EndSpeed` are the `Repeats` runs of
`eval_mm_speed` that `ftimer_gettod` makes, after which `main` frees the trace
and takes the next. Every replay begins with `mem_reset_brk` and `mm_init`;
nothing else resets the heap, so the memory and what `mm_init` leaves alone pass
from replay to replay. An invalid trace is not measured, and `Rejected` is what
makes it invalid: a call that returned NULL, a `realloc` for nothing among them,
or a complaint (`mdriver.c:607-660`).  Without the case of `realloc` the
measuring replay of such a trace would end in `app_error`; an attempt to prove
`ReplaysAlike` showed that the model had missed it.  A failing request in a
measuring replay is `app_error`: the program ends (`stopped`).  `seen` is a
history variable.  `Bytes`, of the property `UtilizationRight`, counts the bytes
of the blocks one by one, so that it does not repeat the additions of the code.

### Sampler

`Call` is `fcyc` up to its loop, `StartCounter` to `AddSample` one sample,
`Insert` one step of the insertion, `Again` and `Return` the end of the loop.
`tsc` is the processor's counter and never wraps; `get_counter` gets the
difference from two words of `Radix` values each, with the borrow of
`clock.c:64`.  With compensation, the ticks of the timer during a run are taken
off, at a price `callibrate` found before (possibly none).  `samples`, `from`
and `begun` are history variables that tell each value's run.  The function
under test is a run of some `Durations` cycles.

### Bank

`pc[t]` is the place of a teller; `reg[t]` is what it loaded of
`customersServiced` in `+= 1`.  `Start` is the unlocked reset at line 79,
`Check` to `Unlock` the critical section.  The generator's second is one of
`NoCustomer`, `Customer`, `Realloc`, `End`.  The queue is zero at the start: the
code clears only its first int, but malloc maps fresh pages for a block of that
size.  An access past what is allocated sets `undefined`, and nothing is said
of what follows.  `realloc` to a smaller size does not move a mapped block.

### Words, Puzzles and Btest

A word is the set of the positions of its one bits: `~`, `&`, `|` and `^` are
set operations, a shift moves the positions, and `+` goes through numbers and
back, reduced to the width (`Bits`, and `Unsigned`, a sum of powers `Pow2`).
Signed overflow, which C leaves undefined, wraps as
the build does.  Numbers that are only bit positions or byte numbers stay
numbers.  Each puzzle follows `bits.c` operator by operator, with `ByteSize`,
`W - 1` and `ExpBits` for 8, 31 and 8; `test_` and its name is the function of
`tests.c`.  Floats are doubled by their magnitudes: the word of twice the
magnitude, or infinity.

`Btest` is `run_tests` and `test_function`: `Skip` and `Start`, then `Call` and
`Compare` for each test, `Return`, `Tally`.  Which tests are made is left open:
every value of a small or sampled range may come, as the random values of
`gen_vals` may; the floats are only those of its regions, unless `-1` gives one.
`-1` is modelled for `sign` and the floats, and `-2` and `-3` are left out:
every other argument that they could give is in a range that is tested anyway,
or makes bits.c shift by an undefined amount.
`Timeout` is the alarm inside `test_function`.  Nothing cancels the alarm, so it
may also go off later (`LateTimeout`); `siglongjmp` is then undefined, and the
model stops.

### BubbleSort and SortFile

`SortPair` and `NextPass` are the two loops of `bubbleSort`, the same in the
three programs.  `original` and `perm` are history variables: what the array
was, and where each element came from.  `SortFile` extends this module and
starts it in `SortBegins`.  A file is a sequence of characters, a digit being
its number, and the space, minus, plus, the x of `0x` and one for any other.
`Read` fills the buffer from a regular file; `ReadNumber` takes a run of
characters up to a separator or the end of the buffer, converts it as `strtol`
or `atoi` and a cast to `int` do (`strtol`: a sign, in base 16 a `0x`, and
digits; `Value` is its loop, one digit after the other), and lets the array
grow.  The characters go to `str[10]`, whose size is `StrSize`: with a number of
so many characters or more `strtol` finds no zero or the store is past `str`,
which is undefined, and the model stops there (`Overrun`).  After the last
number of a full buffer line 69 loads `buffer[512]`; whatever it finds, line 65
then sees that the buffer has ended, and the index stays one past it.  `read`
may fail (`ReadFails`, with `intact` false), which ends the loop as the end of
the file does.  `Digits` is the loop of `writeNumbers`, with its single
character for the least int; `Rests` is what its divisions leave.

`program` is the directory.  `hw6` reads with `Read`, `SkipSeparator`,
`ReadNumber`, `Overrun`, `EndOfFile` and `ReadFails`.  `hw4` and `hw5` read with
`fscanf`, which is external: `ScanNumber` skips separators and takes a sign and
digits; at anything
else (`ScanNothing`) it stores nothing and does not move, but the loop of
`readNumbers` counts on, so the element is what the memory held (`Junk`).  The
loop ends only at EOF (`ScanEnd`), but the decimal one of `hw5` gives up at 100
(`GiveUp`).  Their `malloc(MAX_NUMBERS)` has room for 25 ints; the store after
that is undefined (`ScanOutside`).  `hw4` knows neither `-x` nor `-y`.

A failing `open` for reading makes `main` of `hw6` free a pointer that was never
set: it crashes or does not.  A failing `open` for writing goes unnoticed in
`hw6`, and makes the others write through a NULL pointer.

## Runs

| run | instance | shows |
| --- | --- | --- |
| `jobtable_pass` | 4 slots, 4 processes, job IDs up to 5 | `TypeOK`; `ListIsSound`: no process is listed twice and a slot is used or cleared in all its fields; `NoJidSkipped` |
| `jobtable_jid` | the same | **violated**: a job ID is given twice after the wrap |
| `shell_safety` | 2 slots, 2 processes, ctrl-c, ctrl-z, SIGQUIT, all programs | eight properties of the list under all interleavings |
| `shell_liveness` | 2 slots, 3 processes, children that do not stop | zombies are reaped, `waitfg` returns |
| `shell_ghost` | 2 slots, 2 processes | **violated**: a child reaped before it is listed stays listed |
| `shell_keys` | ctrl-c | **violated**: a ctrl-c ends the shell |
| `heap_pass` | 12 doublewords, chunks of 3, 4 blocks, one of them with a low byte from 0x80 on, requests of 0, 5, 12, 24 bytes | tags, coalescing, next fit, contents, the driver's range list and complaints; `Promised`: the refinement of `Allocator` |
| `driver_pass` | 14 doublewords, chunks of 3, 3 indices, requests of 0, 5 and 24 bytes, 2 traces of up to 5 requests, 2 timed runs | `ReplaysAlike`: the replays that measure hand out the blocks of the replay that was checked; `UtilizationRight`: the high water mark is the trace's |
| `sampler_pass` | 2 calls, `kbest` 3, `maxsamples` 4, words of 4 values, runs of 2, 3 and 7 cycles, 0 or 1 tick that costs 0 or 2 | `KBest`: the list holds the least costs of this call, in order; `GivesUpInTime` |
| `bank_pass` | 3 tellers, 4 seconds, queue of 4 | tellers that start in time take each customer once; termination |
| `bits_pass` | words of 8 bits, floats of 3 and 4; every word, one timeout | every solution agrees with `tests.c`, except that `float_twice` makes a NaN of each double that passes the largest float; scores |
| `sort_pass` | files up to 5 characters, up to 3 with a plus or an x, buffers and `str` of 4, ints of 3 bits, an array of 2 that grows by 1, or of 2; `hw5` gives up at 4 | reading, growing, sorting, writing, termination, for the three programs |

Bounds.  Two slots and two processes are enough for the shell: one job that is
being added or waited for and one in the background or being reaped; three
processes with two slots also reach the full list.  The wrap of `nextjid` is
reached in both instances, because `MAXJOBS` is both the number of slots and the
wrap.  In `jobtable_pass`, `JidBound` cuts off job IDs that `deletejob` lets
grow without bound (MAXJID is never enforced).  Three held blocks are what the
fourth case of `coalesce` needs; requests of 2, 3 and 4 doublewords against
chunks of 3 give splits, rests too small to split, extensions by a chunk and by
more than a chunk, and exhaustion.  The view of `MCHeap` leaves out words no
operation reads, and whether the last call failed, which nothing reads either.
Each index has a byte of its own, so that a block with the contents of another
is noticed.  `Alike` is a symmetry because no operation compares indices but by
their bytes, and only the one that is `High` is negative.  `driver_pass` has
none that is: a trace that reallocs such an index is invalid, and is not
replayed.  A replay can differ from the one before only through the next-fit
pointer and the words `mm_init` leaves, so `driver_pass` needs a trace that ends
its replay on a heap it has extended and with that pointer past a free block
large enough: allocate 24, allocate 24, free the first, allocate 5, allocate 5,
in a heap of 14 doublewords with chunks of 3.  Five requests on three indices
are the least that do this; a second trace then starts on what the first left.
A request of 0 bytes is the `realloc` that makes a trace invalid. The views of
`MCDriver` and `MCHeap` keep every word a later action reads.

The words of the counter count to 4, so that a run of 2, 3 or 7 cycles crosses
one wrap of the low word or two; `maxsamples` is one more than `kbest`, so that
the list is full once; two calls show what the static list keeps.
In the bank, 4 places, a first limit of 3 and blocks of 1 keep the
order of the code's 100000, 10000 and 1000, and reach the realloc and the
access outside that follows.

Eight bits are enough for the puzzles: every shift amount, constant and edge
value of the code has its counterpart, and every word is tried; the theorems
remove the bound for the puzzles that do not add.  Functions of two words are
tried on pairs of 18 words near the edges (`Sample`).  Files of five characters
hold three numbers, one that is split between two buffers, or one that fills a
buffer and overruns `str`; three numbers make the array grow twice or pass the
end of a fixed one, two digits reach the least int, and one character that is no
digit holds `fscanf` for ever.  Three characters hold a digit after a plus or
after `0x`.

Deadlock is checked in the runs of the shell, the bank and the heap; a program
that has ended stutters (`Exited`, `Finished`).  The harness and the sorter
simply end.

Fairness.  `Shell`: the main loop between two commands, the delivery of signals
and the handlers, and a child up to its `exec` make progress (the kernel
schedules every process); commands, keys and what a program does need not
happen.  `Bank`: every thread is scheduled, weakly fair for each teller, so a
mutex may pass a waiting teller over while others take it.  No strong fairness
is assumed.  `SortFile`
and `Sampler` are one process that waits for nobody: its next step is taken (in
`Sampler` the function under test returns).

## Findings

* `shell_ghost`: `tsh.c:214` adds SIGTSTP to the mask where the comments at 213,
  217 and 239 say SIGCHLD.  A child that exits before `addjob` is deleted before
  it is listed; its entry is never removed, `waitfg` waits for it for ever, and
  `quit` refuses or `kill` fails.
* `shell_keys`: `tsh.c:532` and `555` end the shell when `kill` fails, though
  the handlers "just forward the signal" (71-75).  It fails for a child that has
  not called `setpgrp`, and for a job that was reaped and is not deleted yet.
* `jobtable_jid`: `tsh.c:616` wraps `nextjid` without looking whether job 1 is
  listed; `getjobjid` (669) finds the first of two jobs with one ID.

Other differences met while modelling, without a run: `float_twice`
(`bits.c:548`) increments the exponent and keeps the fraction, so that a finite
float above 0x7f000000 becomes a NaN where 2*f is an infinity (525-526), and
`btest` tests no float there (`btest.c:144`; `SolutionsAgree` says so);
`banksim.c:79` resets the counter without the mutex of which 73-74 says that
"only one thread takes a customer at a time" (`TakenOnceUnlessLate` leaves out
tellers that start late); `malloc(MAX_NUMBERS)` of `hw4` and `hw5` has room for
25 ints, not 100 (`hw5/sortfile.c:69`); their readers never end on a file that
holds anything but numbers (`hw5/fileio.c:45`; `Terminates` leaves it out), and
they write through a NULL pointer when the output file cannot be created; a
number that crosses the end of a 512-byte buffer is read as two
(`hw6/fileio.c:65`, against 20-22; `ReadsTheFile` says exactly which: `Cuts`); a
number of ten characters or more overruns `str[10]` or leaves it without a zero
(57 and 66, against 20-22), so that the program cannot be relied on to read
numbers of ten digits that it writes itself (`Overrun`); line 69 loads the
character behind a full buffer; a `read` that fails is taken for the end of the
file (48; `ReadFails`); the least int is
written as one wrong character (142; `WritesTheArray` excludes it); a file that
cannot be created gives no message (134, against 124); the alarm of
`btest.c:357` is never cancelled; a stopped child that is not listed ends
`sigchld_handler` with zombies left (`tsh.c:493`, against 474); a job stopped by
ctrl-z in the background is not among the transitions at 33-38; MAXJID (24) is
never used; `bg ''` exits the shell (436); `bg %` uses an uninitialised job ID
(404); `addjob` failing for the 17th job ends the shell (237); `realloc` shrinks
the bank's queue (`banksim.c:155`); `mdriver.c:404` misses a payload that
contains another; `mdriver.c:656` compares a signed `char` with `index & 0xFF`,
so that the driver finds data lost by every `realloc` of an index whose low byte
is 0x80 or more, although 657-658 would have it "did not preserve the data"
(`NoErrors` names the exception); the `fg` command writes the state of a slot
without looking whether its job is still there (`tsh.c:389`), and `addjob` writes
the PID before the state (613-614), so that a ctrl-c between the two reaches a
job started with `&`, against "the current foreground job" at 71-78
(`KeysSpareBackground` names the exception).  Two more the models leave out because no instance or trace
reaches them: `mm_malloc` ignores a failing `mm_init` (`mm.c:106`), and a
request of 4 GB or nearly so is cut to an int on its way to `mem_sbrk`
(`memlib.c:58`).

## Proofs

`tlapm` proves every theorem from the assumptions that the modules state about
their constants, and nothing else.  TLC evaluates them in the runs.  They say
what kind of numbers the sizes are and how they are ordered (`MAXJOBS`, the
bank's `Block`, the sampler's counts), and:

* `ChunkAssumption` and `MaxHeapAssumption`: a chunk is two doublewords or more
  and fits the memory beside the prologue and epilogue, as 4096 bytes fit 20 MB;
* `RequestsAssumption`, `IndicesAssumption`: requests are numbers of bytes, and a
  trace names finitely many blocks (`num_ids`);
* `ByteSizeAssumption`: a byte has an even number of bits;
* `LowByteAssumption`, `NegativeAssumption`: every index has a low byte, and some
  of the bytes are negative as a `char`;
* `SortFileAssumption`, `JunkAssumption`: the sizes and limits of the sorters are
  positive, `str` may have any, files are sequences of characters; what memory
  holds are ints.

What is proved, module by module:

* `JobListProofs`: what the searches return, that `deletejob` clears one slot,
  that `maxjid` bounds every job ID.  `LeastElement` gives the searches their
  slot.
* `JobTableProofs`: `TypeOK`, `UniquePids`, `SlotsAreWhole` and `NoJidSkipped`
  are inductive together; `ListSound` joins `UniquePids` and `SlotsAreWhole` to
  `ListIsSound`.
* `ShellProofs`: all eight safety properties of `shell_safety`.  None of them is
  inductive.  `Inv` adds what the main loop's locals mean at each place
  (`CmdOK`), that a listed process was forked (`ListedOK`), that the handlers on
  the stack are distinct and own their locals (`StackOK`, `ChldOK`), that the
  foreground job is the one the main loop is adding, continuing or waiting for
  (`FgOK`), and which fields of the slot being filled may be missing
  (`FieldsOK`).  `BackgroundSpared` has the exception that the code makes, and
  `BackgroundSparedWithoutLeftover` is about its cause: as long as no empty slot
  is left in the state FG, the keys never reach a job started with `&`.  Each action has a lemma; actions that leave the list alone
  share one.  `ZombiesNoticed` is `NothingStops /\ Spec => []ZombiesAreNoticed`:
  its hypothesis is that ctrl-z is not typed and no program stops itself.  The
  run `shell_liveness`, which checks the property, has neither.  It cannot be
  dropped: a stopped child that is not listed ends `sigchld_handler` early
  (`tsh.c:493`).
* `BankProofs`: `TypeOK`, `QueueLengthNotNegative`, `QueueInOrder` and
  `TakenOnceUnlessLate`.  `Inv` adds mutual exclusion (`MutexOK`), that a teller
  between check and store has a customer and a load that is still current
  (`LoadOK`, `StoreOK`), and that a failed realloc is followed by an access
  outside before the next realloc (`SizeOK`, `FreedOK`).
* `HeapProofs`, the malloc package: every invariant of `heap_pass` and the
  refinement of `Allocator` (`PromiseKept`), for every size of the memory, every
  `Chunk`, all indices and requests.  `Inv` is `Agree(heap, held, ranges)`, or
  after a complaint only that the heap is whole, and `NoErrors`.  To agree means
  that the blocks tile the heap with equal headers and footers and no
  free neighbours (`Good`), the allocated ones are the client's, one each, large
  enough and with the client's bytes in them (`Owned`), and the range list has
  their extents (`Recorded`).  The parts need each other: a tag stays where it
  is only while clients write inside their payloads, and payloads lie apart only
  while the tags tile the heap.  The proof first says what each routine does to
  a heap that is `Good` but for one place: `Coalesces`, `Places`, `Extends`,
  `Frees`, `Allots` and `Moves`, for `coalesce` (its four cases), `place`,
  `extend_heap`, `mm_free`, `mm_malloc` and `mm_realloc`.  Then one lemma per
  action of the client.  The refinement follows from `Inv`: two blocks of a
  tiling have no byte in common.
* `HeapProofs`, the driver: `ReplaysAlikeCorrect` and `UtilizationCorrect`, for
  any number and length of traces and any `Repeats`.  Two heaps are `Alike` if
  they have the same break, next-fit pointer, blocks and tags, whatever else the
  memory holds; each routine gives alike results on alike heaps, and `mm_init`
  makes all heaps alike.  `DriverInv` says that there is a sequence of heaps,
  one for each request of the first replay (`Log`), and that a later replay is
  at a heap like the one of its request.  So it gets the same answers, never
  NULL.  For the utilization, `CountInv` adds that the bytes in use are `Bytes`
  of the blocks and that the mark is the most of them so far (`CountsRight`),
  that none of these was more than the heap has at the end (`SeenRoomy`), for
  the heap never shrinks, and that the figures noted are right (`StatsRight`).
  That the blocks fit the heap (`BytesFit`) is an injection of their bytes into
  the bytes below the break.
* `SamplerProofs`: `TypeOK`, `KBest` and `GivesUpInTime`, for every `Radix`,
  `kbest`, `maxsamples` and set of durations.  `GetCounterRight` is the
  arithmetic: the difference with its borrow is the time that has passed, if
  that fits two words.  `Inv` adds what is known of the counter between start
  and stop (`CounterOK`), that the list holds the least samples, each once, in
  order but for the one that is sinking to its place (`SamplesOK`), and why the
  loop goes on or has ended (`CountOK`).
* `BtestProofs`: every solution against its test function, for every width of a
  byte and of an exponent, and from them `SolutionsCorrect`.  The puzzles that
  only move bits follow bit by bit from what the shifts do (`Widths`);
  `EvenBitsRight` needs that a byte has an even number of bits.  Those that add
  need the arithmetic of words: `Unsigned` is a sum of powers over the bits, so
  the words of bits below `n` are the numbers below `Pow2[n]` (`UnsignedRange`,
  `WordExists`), `Bits` takes such a number back to its word (`BitsOf`), and
  a carry out of the word is lost (`BitsPeriodic`).  So `-x` is `~x + 1`
  (`MinusIs`), its bits are those of `x` up to the lowest one and their
  complement above it (`MinusBits`), and the sign of `x | -x` tells zero from the
  rest (`ZeroTest`).  For floats, no two finite magnitudes are the same
  (`MagnitudeInjective`), so the double of a float is the one word that has the
  doubled magnitude.  `AgreeInv` says which arguments `tested` may hold, and that
  `-1` goes with a function of floats or `sign`.  `TallyCorrect` then has no
  hypothesis: no float that `gen_vals` makes is one on which `float_twice` is
  wrong (`FloatTestsDouble`), so no test adds to `errors`.  `points` is a sum
  over a set; such a sum exists, is unique and grows by what joins the set.
* `SortFileProofs`: `Sorted` and `SameElements` of `bubbleSort` for every array
  of integers and both directions.  `SortInv` adds that the last `i` elements
  are in their places (`TailInPlace`) and that within a pass element `j` is the
  extreme of those before it (`CarriesExtreme`).  Then the three programs, for
  every file: `RoomForOneMore` (`RoomInv`: whatever is read, the array grows
  before it is full), `TypeOK` (`FileInv`: the conversions give ints, whatever
  the characters), and from both `SortsWhatItRead`, because `main` calls
  `bubbleSort` on what was read and nothing else writes the array until it has
  returned.  `ReadsTheFile` needs `ReadingInv`: the file up to where the buffer
  is read holds as many numbers as the array, number by number (`SoFar`), that
  place is not inside a number but where a buffer ends (`Between`), the buffer
  is the file's next piece and begins at a multiple of its size (`Buffered`),
  and what `hw4` and `hw5` have scanned held only numbers (`Legible`).  For `hw6`
  it has no exception: the numbers are those of the file with a cut at the end
  of every buffer, and `Overrun` happens only at one too long for `str`.  `WritesTheArray` needs `WritingInv`: what
  has been written so far reads as the elements written so far and ends in a
  separator.  It rests on the round trip of a number: `Rests` gets smaller until
  it is 0, and `strtol` of its remainders, last one first, takes it back.

Sums, powers and digit loops are recursive functions.  The library's induction
theorems take an operator as parameter, which the backends cannot use, so these two
modules do their inductions on sets of numbers: the least element outside the
set, which `WFMin` with `NatLessThanWellFounded` gives, leads to a
contradiction.

Only model-checked is liveness (`ZombiesAreReaped`, `ForegroundReturns` and the
two properties called `Terminates`), which the prover's backends do not reach.

TLC also checks the invariants themselves that the theorems state.  The inductive
ones of `HeapProofs`'s driver quantify over sequences of heaps and are not
checked by enumeration; the two properties that they imply are.

## Plan

1. Done: job list, shell, bank, malloc package and its driver, sampler, puzzles
   and harness, the three sorters.
2. Done: the theorems above; they state every property of the passing runs that
   is not about liveness.
3. Left: liveness by proof.

## Not modelled

* Of the modelled programs: printing, messages and tables; the parsing of
  command lines; `listjobs`, which only prints; the command line of a job.
* `mysplit.c`'s second process, and how `sdriver.pl` reads its script.
* Of `mdriver.c`: `-l` (the replay on libc's malloc, which the repository does
  not hold), the other options, the printed performance index.
* Of the timers: the interval timer of `ftimer_itimer`, the estimate of the clock
  rate, `ovhd`, and the cache flush of `fcyc`.  They change nothing the program
  decides by.
* Of `fscanf`: what `%x` makes of a `0x` (no file for `hw5 -x` holds an x), and
  errors of reading, and numbers too large for a `long` (in `hw6` nine characters
  are not).  For `fscanf` and `strtol`: white space that `hw6` takes for no
  separator (`\r`, `\v`, `\f`).
* The autograders of the labs (they run other programs and mail their scores),
  `fshow`, `ishow` and `binprint` (they print one word), the assembly exercises,
  and the bomb, of which only `main` is there as source.
