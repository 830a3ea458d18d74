------------------------------- MODULE Driver --------------------------------
(***************************************************************************)
(* The main loop of lab3/mdriver.c.  It reads a trace and replays it on    *)
(* the malloc package: eval_mm_valid checks every block (the client of     *)
(* HeapClient), and if the trace was valid eval_mm_util follows the bytes  *)
(* in use and fsecs times eval_mm_speed.  All replays share one heap and   *)
(* one array of blocks; app_error ends the program.                        *)
(*                                                                         *)
(* A trace is legal: it allocates an index that is free, and moves or      *)
(* frees one that is not.  held is the part of trace->blocks and of        *)
(* trace->block_sizes such a trace may still read.                         *)
(***************************************************************************)
EXTENDS HeapClient

CONSTANTS
  MaxOps,       \* bound: the requests of a trace
  NumTraces,    \* num_tracefiles
  Repeats       \* how often fsecs runs eval_mm_speed, 10 in the code

ASSUME IndicesAssumption == IsFiniteSet(Indices)    \* num_ids of them

VARIABLES
  pass,         \* what main is doing with the trace
  tracenum, trace,
  op,           \* the requests of the trace that are done
  total_size, max_total_size,
  mm_stats,     \* of the traces that are over
  runs,         \* the runs of eval_mm_speed
  seen          \* history: the blocks and the break in the first replay

counts == <<total_size, max_total_size>>
driverVars == <<vars, pass, tracenum, trace, op, counts, mm_stats, runs, seen>>

Op == [type : {"alloc", "realloc"}, index : Indices, size : Requests]
        \union [type : {"free"}, index : Indices]

-----------------------------------------------------------------------------
DriverInit ==
  /\ heap = mem_init
  /\ held = [i \in Indices |-> Free]
  /\ ranges = << >> /\ errors = NoError
  /\ pass = "read" /\ tracenum = 1 /\ trace = << >> /\ op = 0
  /\ total_size = 0 /\ max_total_size = 0
  /\ mm_stats = << >> /\ runs = 0 /\ seen = << >>

(* The trace leaves index i allocated. *)
InUse(i) ==
  \E k \in DOMAIN trace :
    /\ trace[k].type = "alloc" /\ trace[k].index = i
    /\ \A l \in k + 1 .. Len(trace) :
         ~ (trace[l].type = "free" /\ trace[l].index = i)

(* One line of the trace file. *)
ReadOp ==
  /\ pass = "read" /\ Len(trace) < MaxOps
  /\ \E o \in Op :
       /\ o.type = "alloc" <=> ~ InUse(o.index)
       /\ trace' = Append(trace, o)
  /\ UNCHANGED <<vars, pass, tracenum, op, counts, mm_stats, runs, seen>>

(* The whole file is read, and eval_mm_valid starts. *)
StartValid ==
  /\ pass = "read" /\ trace # << >>
  /\ NextTrace
  /\ pass' = "valid" /\ op' = 0 /\ seen' = << >>
  /\ UNCHANGED <<tracenum, trace, counts, mm_stats, runs>>

Noted(valid, hwm, heapsize) ==
  mm_stats' = Append(mm_stats, [valid |-> valid, hwm |-> hwm, heapsize |-> heapsize])

free_trace ==
  /\ trace' = << >>
  /\ tracenum' = tracenum + 1
  /\ pass' = IF tracenum = NumTraces THEN "done" ELSE "read"

(* The request was refused: a call has returned NULL or a check complains. *)
Rejected == errors'.what # "none"

(* A request of the first replay. The first that is refused makes the      *)
(* trace invalid.                                                          *)
ValidOp ==
  /\ pass = "valid" /\ op < Len(trace)
  /\ LET o == trace[op + 1]
     IN  /\ \/ o.type = "alloc" /\ Alloc(o.index, o.size)
            \/ o.type = "realloc" /\ Realloc(o.index, o.size)
            \/ o.type = "free" /\ Release(o.index)
         /\ IF Rejected
            THEN Noted(FALSE, 0, 0) /\ free_trace /\ UNCHANGED <<op, seen>>
            ELSE /\ op' = op + 1
                 /\ seen' = Append(seen, [held |-> held', brk |-> heap'.brk])
                 /\ UNCHANGED <<pass, tracenum, trace, mm_stats>>
  /\ UNCHANGED <<counts, runs>>

(* mem_reset_brk and mm_init: the next replay of the trace. *)
Reset ==
  /\ heap' = mm_init(heap)
  /\ held' = [i \in Indices |-> Free]
  /\ op' = 0

StartUtil ==
  /\ pass = "valid" /\ op = Len(trace)
  /\ Reset
  /\ pass' = "util" /\ total_size' = 0 /\ max_total_size' = 0
  /\ UNCHANGED <<ranges, errors, tracenum, trace, mm_stats, runs, seen>>

(* The request o, without the checks of the first replay. *)
Called(o) ==
  CASE o.type = "alloc"   -> mm_malloc(heap, o.size)
    [] o.type = "realloc" -> mm_realloc(heap, held[o.index].ptr, o.size)
    [] o.type = "free"    -> Result(mm_free(heap, held[o.index].ptr), NULL)

Remembered(o, p) ==
  IF o.type = "free" THEN Free ELSE [ptr |-> p, size |-> o.size]

Performed(o, r) ==
  /\ heap' = r.heap
  /\ held' = [held EXCEPT ![o.index] = Remembered(o, r.ptr)]
  /\ op' = op + 1
  /\ UNCHANGED pass

app_error(h) == heap' = h /\ pass' = "stopped" /\ UNCHANGED <<held, op>>

Perform(o) ==
  LET r == Called(o)
  IN  IF o.type # "free" /\ r.ptr = NULL THEN app_error(r.heap)
                                         ELSE Performed(o, r)

(* Mutant: the old size of a block that moves still counts. *)
GrowthWithOld(o) ==
  IF o.type = "free" THEN - held[o.index].size ELSE o.size
Growth(o) ==
  (IF o.type = "free" THEN 0 ELSE o.size) - held[o.index].size

UtilOp ==
  /\ pass = "util" /\ op < Len(trace)
  /\ LET o == trace[op + 1]
         total == total_size + Growth(o)
     IN  /\ Perform(o)
         /\ IF pass' = "stopped" THEN UNCHANGED counts
            ELSE /\ total_size' = total
                 /\ max_total_size' = IF total > max_total_size THEN total
                                      ELSE max_total_size
  /\ UNCHANGED <<ranges, errors, tracenum, trace, mm_stats, runs, seen>>

StartSpeed ==
  /\ \/ pass = "util" /\ op = Len(trace) /\ runs' = 1
        /\ Noted(TRUE, max_total_size, mem_heapsize(heap))
     \/ pass = "speed" /\ op = Len(trace) /\ runs < Repeats /\ runs' = runs + 1
        /\ UNCHANGED mm_stats
  /\ Reset
  /\ pass' = "speed"
  /\ UNCHANGED <<ranges, errors, tracenum, trace, counts, seen>>

SpeedOp ==
  /\ pass = "speed" /\ op < Len(trace)
  /\ Perform(trace[op + 1])
  /\ UNCHANGED <<ranges, errors, tracenum, trace, counts, mm_stats, runs, seen>>

EndSpeed ==
  /\ pass = "speed" /\ op = Len(trace) /\ runs = Repeats
  /\ free_trace /\ runs' = 0
  /\ UNCHANGED <<vars, op, counts, mm_stats, seen>>

DriverNext ==
  \/ ReadOp \/ StartValid \/ ValidOp \/ StartUtil \/ UtilOp
  \/ StartSpeed \/ SpeedOp \/ EndSpeed

DriverSpec == DriverInit /\ [][DriverNext]_driverVars

-----------------------------------------------------------------------------
(* The bytes of the blocks, counted one by one.                            *)
Bytes(blocks) == Cardinality(UNION {{i} \X (1 .. blocks[i].size) : i \in Indices})

(* What was valid is what is measured: the replays of a trace hand out the *)
(* blocks of the first one, on a heap that ends where the first one's did, *)
(* although they start on the memory, the next-fit pointer and the blocks  *)
(* that the last replay has left.  So none of them ends the program, as    *)
(* app_error does when a request fails that was answered before.           *)
ReplaysAlike ==
  /\ pass # "stopped"
  /\ pass \in {"util", "speed"} =>
       /\ Len(seen) = Len(trace)
       /\ op > 0 => seen[op] = [held |-> held, brk |-> heap.brk]

(* The utilization the driver reports is that of the trace: the bytes in   *)
(* use are those of the blocks, the high water mark is the most of them    *)
(* since the trace began, blocks that moved or went away included, and the *)
(* heap it is divided by had room for them.                                *)
UtilizationRight ==
  /\ pass = "util" =>
       /\ total_size = Bytes(held)
       /\ max_total_size = Max({Bytes(seen[k].held) : k \in 1 .. op} \union {0})
  /\ \A t \in DOMAIN mm_stats : mm_stats[t].hwm <= mm_stats[t].heapsize

=============================================================================
