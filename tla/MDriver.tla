-------------------------------- MODULE MDriver --------------------------------
(***************************************************************************)
(* The allocator's driver, project0x03/prj3-malloc/mdriver.c: it reads its *)
(* options; after a pass over libc's malloc, if one is asked for, every    *)
(* trace is read and run once by eval_mm_valid, which checks the allocator with a list of ranges and with*)
(* the data it filled the blocks with, and, if it passed, again by         *)
(* eval_mm_util and eval_mm_speed, on the memory the run before left       *)
(* behind; the performance index is computed from what they report. A step *)
(* is one request of the trace with all its checks.                        *)
(*                                                                         *)
(* Simplifications:                                                        *)
(*  - the trace is made up while eval_mm_valid runs it: it names a block   *)
(*    only while it is allocated and asks for at least one byte;           *)
(*  - fsecs runs eval_mm_speed once instead of ten times; what it measured,*)
(*    which is positive, is chosen when the index is computed;             *)
(*  - libc serves a whole trace or fails; what a trace takes from it is not*)
(*    tracked; the options that choose what is printed are left out;       *)
(*  - data are compared by words.                                          *)
(***************************************************************************)
EXTENDS MM, FiniteSets, Functions, FiniteSetsExt

CONSTANTS Ids,       \* block ids of a trace; the low byte of an id is its data
          Sizes,     \* sizes a trace asks for
          MaxOps,    \* bound of the model: requests of all traces together
          NumTraces, \* entries of default_tracefiles
          Secs,      \* how long all traces together may have taken
          UTIL_WEIGHT,      \* in percent
          AVG_LIBC_THRUPUT

ASSUME DriverAssumption ==
    /\ Ids \subseteq 1 .. 255
    /\ Sizes \subseteq Nat \ {0}
    /\ MaxOps \in Nat
    /\ {NumTraces, AVG_LIBC_THRUPUT} \cup Secs \subseteq Nat \ {0}
    /\ UTIL_WEIGHT \in 0 .. 100

VARIABLES
    heap,        \* memlib and mm.c
    opts,        \* tracedir, team_check, run_libc; cleared when a pass begins
    num_tracefiles,
    pc,          \* args, start, libc, libc speed; idle, valid, util, speed; scored, exited
    trace,       \* trace->ops
    i,           \* requests of the trace already run by this evaluation
    blocks,      \* trace->blocks
    block_sizes, \* trace->block_sizes
    ranges,      \* the range list
    total_size,
    max_total_size,
    live,        \* history: the ids in use with the sizes asked for, none once an error ends it
    errors,      \* what malloc_error or app_error reported
    ntraces,     \* traces begun in this pass
    mm_stats,    \* of the traces begun
    perfindex,   \* as a fraction
    numcorrect,
    nops         \* requests so far (bounds the model)

evalVars == <<trace, blocks, block_sizes, ranges, total_size, max_total_size>>
scoreVars == <<perfindex, numcorrect>>
argVars == <<opts, num_tracefiles>>
vars == <<argVars, heap, pc, i, evalVars, live, errors, ntraces, nops, mm_stats, scoreVars>>

Nought == [num |-> 0, den |-> 1]
NoStats == [ops |-> 0, valid |-> FALSE, util |-> Nought]
NoOpts == [tracedir |-> "TRACEDIR", team_check |-> TRUE, run_libc |-> FALSE]

Init == /\ opts = NoOpts
        /\ num_tracefiles = 0
        /\ heap = FreshMemory
        /\ pc = "args"
        /\ trace = <<>>
        /\ i = 0
        /\ blocks = <<>>
        /\ block_sizes = <<>>
        /\ ranges = {}
        /\ total_size = 0
        /\ max_total_size = 0
        /\ live = <<>>
        /\ errors = {}
        /\ ntraces = 0
        /\ nops = 0
        /\ mm_stats = <<>>
        /\ perfindex = Nought
        /\ numcorrect = 0

(* app_error, unix_error, a failed assertion                               *)
Quit == pc' = "exited"

----------------------------------------------------------------------------
(* The command line *)

OptionF == /\ num_tracefiles' = 1
           /\ opts' = [opts EXCEPT !.tracedir = "./"]

OptionT == /\ opts' = IF num_tracefiles = 1 THEN opts ELSE [opts EXCEPT !.tracedir = "dir/"]
           /\ UNCHANGED num_tracefiles

OptionsAL == /\ \/ opts' = [opts EXCEPT !.team_check = FALSE]
                \/ opts' = [opts EXCEPT !.run_libc = TRUE]
             /\ UNCHANGED num_tracefiles

(* -h, and an option that is not one                                       *)
usage == Quit /\ UNCHANGED argVars

Option == /\ pc = "args"
          /\ \/ (OptionF \/ OptionT \/ OptionsAL) /\ UNCHANGED pc
             \/ usage
          /\ UNCHANGED <<heap, i, evalVars, live, errors, ntraces, nops, mm_stats, scoreVars>>

(* team, of mm.c, which is filled in: the check ends nothing.              *)
team == [student_id |-> "id", name1 |-> "name", id1 |-> "address"]
TeamNamed == \A field \in DOMAIN team : team[field] # ""

StartUp == /\ pc = "args"
           /\ opts.team_check => TeamNamed
           /\ num_tracefiles' = IF num_tracefiles = 0 THEN NumTraces ELSE num_tracefiles
           /\ pc' = "start"
           /\ UNCHANGED <<opts, heap, i, evalVars, live, errors, ntraces, nops, mm_stats,
                          scoreVars>>

(* A trace file that cannot be opened, holds another request than a, r and *)
(* f, or whose header is wrong about its ids or its requests.              *)
read_trace_fails ==
    /\ pc \in {"libc", "idle"}
    /\ ntraces < num_tracefiles
    /\ Quit
    /\ UNCHANGED <<argVars, heap, i, evalVars, live, errors, ntraces, nops, mm_stats, scoreVars>>

----------------------------------------------------------------------------
(* The pass over libc's malloc *)

(* From here on, tracedir only names the files, which open or do not.      *)
Begin(pass) == /\ pc' = pass
               /\ opts' = NoOpts

RunLibc == /\ pc = "start"
           /\ opts.run_libc
           /\ Begin("libc")
           /\ UNCHANGED <<num_tracefiles, heap, i, evalVars, live, errors, ntraces, nops,
                          mm_stats, scoreVars>>

(* A request libc cannot serve is an error and ends the driver.            *)
eval_libc_valid ==
    /\ pc = "libc"
    /\ ntraces < num_tracefiles
    /\ \/ pc' = "libc speed" /\ UNCHANGED errors
       \/ Quit /\ errors' = errors \cup {[what |-> "no block", index |-> 0]}
    /\ UNCHANGED <<argVars, heap, i, evalVars, live, ntraces, nops, mm_stats, scoreVars>>

(* So it does when the trace is run again to be timed.                     *)
eval_libc_speed ==
    /\ pc = "libc speed"
    /\ \/ pc' = "libc" /\ ntraces' = ntraces + 1
       \/ Quit /\ UNCHANGED ntraces
    /\ UNCHANGED <<argVars, heap, i, evalVars, live, errors, nops, mm_stats, scoreVars>>

LibcPass == RunLibc \/ eval_libc_valid \/ eval_libc_speed

RunMM == /\ \/ pc = "start" /\ ~opts.run_libc
            \/ pc = "libc" /\ ntraces = num_tracefiles
         /\ Begin("idle")
         /\ ntraces' = 0
         /\ UNCHANGED <<num_tracefiles, heap, i, evalVars, live, errors, nops, mm_stats,
                        scoreVars>>

----------------------------------------------------------------------------
(* The range list *)

add_range_ok(h, rs, lo, size) ==
    LET hi == lo + size - 1
    IN  /\ lo % ALIGNMENT = 0
        /\ {lo, hi} \subseteq mem_heap_lo .. mem_heap_hi(h)
        /\ \A r \in rs : lo \notin r.lo .. r.hi /\ hi \notin r.lo .. r.hi

remove_range(rs, lo) == {r \in rs : r.lo # lo}

clear_ranges == ranges' = {}

Extent(lo, size) == [lo |-> lo, hi |-> lo + size - 1]

----------------------------------------------------------------------------
(* One request *)

Alloc(id, n) == [type |-> "alloc", index |-> id, size |-> n]
Resize(id, n) == [type |-> "realloc", index |-> id, size |-> n]
Release(id)  == [type |-> "free", index |-> id, size |-> 0]

(* The requests a trace may continue with; ids are numbered as they come.  *)
Legal == {Alloc(id, n) : id \in {k \in Ids \ DOMAIN live : \A j \in Ids : j < k => j \in DOMAIN live},
                         n \in Sizes}
         \cup {Resize(id, n) : id \in DOMAIN live, n \in Sizes}
         \cup {Release(id) : id \in DOMAIN live}

Result(op) == CASE op.type = "alloc" -> mm_malloc(heap, op.size)
                [] op.type = "realloc" -> mm_realloc(heap, blocks[op.index], op.size)
                [] op.type = "free" -> [heap |-> mm_free(heap, blocks[op.index]), ptr |-> NULL]

memset(h, p, size, v) ==
    [h EXCEPT !.mem = [w \in Words |-> IF w \in WordsOf(p, size) THEN v ELSE @[w]]]

With(f, k, v) == [x \in DOMAIN f \cup {k} |-> IF x = k THEN v ELSE f[x]]
Without(f, k) == [x \in DOMAIN f \ {k} |-> f[x]]

Complaint(what, op) == [what |-> what, index |-> op.index]

Served(op) == IF op.type = "free" THEN Without(live, op.index)
              ELSE With(live, op.index, op.size)

----------------------------------------------------------------------------
(* eval_mm_valid *)

BeginValid == /\ pc = "idle"
              /\ ntraces < num_tracefiles
              /\ heap' = mm_init(mem_reset_brk(heap))
              /\ pc' = "valid"
              /\ trace' = <<>>
              /\ blocks' = <<>>
              /\ block_sizes' = <<>>
              /\ clear_ranges
              /\ i' = 0
              /\ live' = <<>>
              /\ ntraces' = ntraces + 1
              /\ mm_stats' = Append(mm_stats, NoStats)
              /\ UNCHANGED <<argVars, total_size, max_total_size, errors, nops, scoreVars>>

(* A byte read through a char pointer, which is signed.                    *)
AsChar(b) == IF b >= 128 THEN b - 256 ELSE b

(* mm_realloc did not lose the data of the old block.                      *)
Preserved(op, r) == \A w \in WordsOf(r.ptr, Smaller(op.size, block_sizes[op.index])) :
    AsChar(r.heap.mem[w]) = op.index

(* What the checks say of the block r, with rs the ranges of the others.   *)
Verdict(op, r, rs) ==
    CASE r.ptr = NULL -> "no block"
      [] r.ptr # NULL /\ ~add_range_ok(r.heap, rs, r.ptr, op.size) -> "bad range"
      [] OTHER -> IF op.type = "realloc" /\ ~Preserved(op, r) THEN "data lost" ELSE "good"

(* ALLOC and REALLOC: the block is checked, entered in the range list and  *)
(* filled with its id; the evaluation ends with the first bad verdict.     *)
ValidBlock(op, r, rs) == \E verdict \in {Verdict(op, r, rs)} :
    LET good == verdict = "good"
    IN  /\ op.type # "free"
        /\ ranges' = CASE verdict = "no block" -> ranges
                       [] verdict = "bad range" -> rs
                       [] OTHER -> rs \cup {Extent(r.ptr, op.size)}
        /\ heap' = IF good THEN memset(r.heap, r.ptr, op.size, op.index) ELSE r.heap
        /\ blocks' = IF good THEN With(blocks, op.index, r.ptr) ELSE blocks
        /\ block_sizes' = IF good THEN With(block_sizes, op.index, op.size) ELSE block_sizes
        /\ live' = IF good THEN Served(op) ELSE <<>>
        /\ errors' = IF good THEN errors ELSE errors \cup {Complaint(verdict, op)}
        /\ pc' = IF good THEN "valid" ELSE "idle"

(* FREE                                                                    *)
ValidFree(op, r, rs) == /\ op.type = "free"
                        /\ ranges' = rs
                        /\ heap' = r.heap
                        /\ live' = Served(op)
                        /\ UNCHANGED <<blocks, block_sizes, errors, pc>>

(* The ranges of the blocks the request leaves alone.                      *)
OtherRanges(op) == IF op.type = "alloc" THEN ranges ELSE remove_range(ranges, blocks[op.index])

Valid(op) == /\ pc = "valid"
             /\ nops < MaxOps
             /\ \E r \in {Result(op)}, rs \in {OtherRanges(op)} :
                   ValidBlock(op, r, rs) \/ ValidFree(op, r, rs)
             /\ trace' = Append(trace, op)
             /\ i' = i + 1
             /\ nops' = nops + 1
             /\ UNCHANGED <<argVars, total_size, max_total_size, ntraces, mm_stats, scoreVars>>

----------------------------------------------------------------------------
(* eval_mm_util and eval_mm_speed *)

(* The evaluation before has run the whole trace; the next one starts.     *)
Rerun(from, to) == /\ pc = from
                   /\ pc' = to
                   /\ heap' = mm_init(mem_reset_brk(heap))
                   /\ i' = 0
                   /\ live' = <<>>

BeginUtil == /\ Rerun("valid", "util")
             /\ total_size' = 0
             /\ max_total_size' = 0
             /\ mm_stats' = [mm_stats EXCEPT ![ntraces].ops = Len(trace), ![ntraces].valid = TRUE]
             /\ UNCHANGED <<argVars, trace, blocks, block_sizes, ranges, errors, ntraces,
                            nops, scoreVars>>

BeginSpeed == /\ i = Len(trace)
              /\ Rerun("util", "speed")
              /\ mm_stats' = [mm_stats EXCEPT ![ntraces].util =
                                 [num |-> max_total_size, den |-> mem_heapsize(heap)]]
              /\ UNCHANGED <<argVars, evalVars, errors, ntraces, nops, scoreVars>>

(* free_trace                                                              *)
EndTrace == /\ pc = "speed"
            /\ i = Len(trace)
            /\ pc' = "idle"
            /\ UNCHANGED <<argVars, heap, i, evalVars, live, errors, ntraces, nops, mm_stats, scoreVars>>

(* A request of the trace run again; app_error, which ends the driver,     *)
(* leaves blocks as it is.                                                 *)
Replay(op, r) ==
    LET good == r.ptr # NULL \/ op.type = "free"
    IN  /\ heap' = r.heap
        /\ i' = i + 1
        /\ blocks' = IF good /\ op.type # "free" THEN With(blocks, op.index, r.ptr) ELSE blocks
        /\ live' = IF good THEN Served(op) ELSE <<>>
        /\ errors' = IF good THEN errors ELSE errors \cup {Complaint("app_error", op)}
        /\ IF good THEN UNCHANGED pc ELSE Quit
        /\ UNCHANGED <<argVars, trace, ranges, ntraces, nops, mm_stats, scoreVars>>

(* Mutation: the size of a block that is reallocated is added, not the     *)
(* difference to its old size.                                             *)
Grown_whole(op) == CASE op.type = "alloc" -> op.size
                     [] op.type = "realloc" -> op.size
                     [] op.type = "free" -> -block_sizes[op.index]

(* Mutation: total_size does not follow a block that is reallocated.       *)
Grown_never(op) == CASE op.type = "alloc" -> op.size
                     [] op.type = "realloc" -> 0
                     [] op.type = "free" -> -block_sizes[op.index]

(* What a request adds to total_size.                                      *)
Grown(op) == CASE op.type = "alloc" -> op.size
               [] op.type = "realloc" -> op.size - block_sizes[op.index]
               [] op.type = "free" -> -block_sizes[op.index]

Util == /\ pc = "util"
        /\ i < Len(trace)
        /\ \E op \in {trace[i + 1]} : \E r \in {Result(op)} :
               /\ Replay(op, r)
               /\ total_size' = total_size + Grown(op)
               /\ max_total_size' = Larger(max_total_size, total_size')
               /\ block_sizes' = IF op.type = "free" THEN block_sizes
                                 ELSE With(block_sizes, op.index, op.size)

Speed == /\ pc = "speed"
         /\ i < Len(trace)
         /\ \E op \in {trace[i + 1]} : \E r \in {Result(op)} : Replay(op, r)
         /\ UNCHANGED <<block_sizes, total_size, max_total_size>>

----------------------------------------------------------------------------
(* The performance index *)

Plus(x, y) == [num |-> x.num * y.den + y.num * x.den, den |-> x.den * y.den]
Times(k, x) == [num |-> k * x.num, den |-> x.den]

TotalOps(stats) == FoldLeft(LAMBDA sum, s : sum + s.ops, 0, stats)
MeanUtil(stats) == LET util == FoldLeft(LAMBDA sum, s : Plus(sum, s.util), Nought, stats)
                   IN  [num |-> util.num, den |-> util.den * num_tracefiles]

(* The line of totals below the table of -v; only valid traces have numbers*)
(* there.                                                                  *)
printresults(stats) == LET shown == [t \in DOMAIN stats |-> IF stats[t].valid THEN stats[t] ELSE NoStats]
                       IN  [ops |-> TotalOps(shown), util |-> MeanUtil(shown)]

(* p1, in percent: the utilization averaged over all traces.               *)
p1 == Times(UTIL_WEIGHT, MeanUtil(mm_stats))

(* p2, in percent: the throughput measured against libc's, but no more.    *)
p2(secs) == LET ops == TotalOps(mm_stats)
            IN  IF ops > AVG_LIBC_THRUPUT * secs THEN [num |-> 100 - UTIL_WEIGHT, den |-> 1]
                ELSE [num |-> (100 - UTIL_WEIGHT) * ops, den |-> AVG_LIBC_THRUPUT * secs]

Score == /\ pc = "idle"
         /\ ntraces = num_tracefiles
         /\ pc' = "scored"
         /\ numcorrect' = Cardinality({t \in DOMAIN mm_stats : mm_stats[t].valid})
         /\ IF errors = {} THEN \E secs \in Secs : perfindex' = Plus(p1, p2(secs))
            ELSE perfindex' = Nought
         /\ UNCHANGED <<argVars, heap, i, evalVars, live, errors, ntraces, nops, mm_stats>>

----------------------------------------------------------------------------

Next == \/ Option
        \/ StartUp
        \/ read_trace_fails
        \/ LibcPass
        \/ RunMM
        \/ BeginValid
        \/ \E op \in Legal : Valid(op)
        \/ BeginUtil
        \/ BeginSpeed
        \/ EndTrace
        \/ Util
        \/ Speed
        \/ Score

Spec == Init /\ [][Next]_vars
----------------------------------------------------------------------------
(* Properties *)

Evaluations == {"valid", "util", "speed"}

(* Type invariant.                                                         *)
TypeOK ==
    /\ heap.mem \in [Words -> Int]
    /\ heap.brk \in 0 .. MAX_HEAP
    /\ heap.list \in 0 .. MAX_HEAP
    /\ opts \in [tracedir : {"TRACEDIR", "./", "dir/"}, team_check : BOOLEAN, run_libc : BOOLEAN]
    /\ num_tracefiles \in {0, 1, NumTraces}
    /\ pc \in Evaluations \cup {"args", "start", "libc", "libc speed", "idle", "scored", "exited"}
    /\ i \in 0 .. Len(trace)
    /\ DOMAIN live \subseteq DOMAIN blocks \cap DOMAIN block_sizes
    /\ total_size \in Nat
    /\ max_total_size >= total_size
    /\ Len(mm_stats) \in 0 .. NumTraces

(* The blocks of the heap from the one behind the prologue to the epilogue,*)
(* each found through the header before it; a step that leads nowhere ends *)
(* the walk, and so does the room for blocks.                              *)
HeapBlocks ==
    LET stride[bp \in Int] == IF bp >= heap.brk \/ GET_SIZE(heap, HDRP(bp)) = 0 THEN bp
                              ELSE NEXT_BLKP(heap, bp)
        at[k \in Nat] == IF k = 0 THEN 4 * WSIZE ELSE stride[at[k - 1]]
    IN  {at[k] : k \in 0 .. MAX_HEAP \div MIN_BLOCK_SIZE}

(* The tags tile the heap: every block is a multiple of 8 bytes, has room  *)
(* for two pointers, repeats its header in its footer, and the last one    *)
(* ends where the epilogue stands, at the very end of the heap. The blocks *)
(* in use are exactly those the trace holds, and each is large enough.     *)
HeapTiled == pc \in Evaluations =>
    LET walk == HeapBlocks
        bps  == walk \ {heap.brk}
    IN  /\ heap.brk \in walk
        /\ GET(heap, heap.brk - WSIZE) = PACK(0, 1)
        /\ \A bp \in bps : /\ GET_SIZE(heap, HDRP(bp)) >= MIN_BLOCK_SIZE
                           /\ GET(heap, FTRP(heap, bp)) = GET(heap, HDRP(bp))
        /\ {bp \in bps : GET_ALLOC(heap, HDRP(bp)) = 1} = {blocks[id] : id \in DOMAIN live}
        /\ \A id \in DOMAIN live : live[id] <= GET_SIZE(heap, HDRP(blocks[id])) - DSIZE

(* The free list runs through exactly the free blocks of the heap, in both *)
(* directions, and by size, as the best fit search and insert_node expect. *)
FreeListExact == pc \in Evaluations =>
    LET chain == Chain(heap)
        Size(k) == GET_SIZE(heap, HDRP(chain[k]))
    IN  /\ ToSet(chain) = {bp \in HeapBlocks \ {heap.brk} : GET_ALLOC(heap, HDRP(bp)) = 0}
        /\ \A k \in DOMAIN chain :
              /\ SEGLIST_PREV(heap, chain[k]) = IF k = 1 THEN NULL ELSE chain[k - 1]
              /\ k > 1 => chain[k - 1] # chain[k] /\ Size(k - 1) <= Size(k)

(* "The payload must not overlap any other payloads" (mdriver.c:409): with *)
(* this allocator the ranges recorded are those of the blocks in use; the  *)
(* only complaint that is justified is that memory is exhausted, and a     *)
(* trace that passed eval_mm_valid never fails when it is run again. Only  *)
(* for an id above 127, whose data read back negative, is mm_realloc blamed*)
(* for data it has kept (mdriver.c:671).                                   *)
DriverContent ==
    /\ \A e \in errors : e.what = "no block" \/ (e.what = "data lost" /\ AsChar(e.index) < 0)
    /\ pc = "valid" => ranges = {Extent(blocks[id], live[id]) : id \in DOMAIN live}

(* The one trace file of -f is looked for in the current directory         *)
(* (mdriver.c:166), wherever -t stands. An index is given only if every    *)
(* trace was valid, whatever went wrong in a trace before the last; it is  *)
(* the index of what the table shows, which sums valid traces only, and it *)
(* is between 0 and 100 (mdriver.c:349), since what is allocated, by the   *)
(* account of eval_mm_util, fits in the heap whatever the order of the     *)
(* requests.                                                               *)
IndexSound ==
    /\ pc = "start" /\ num_tracefiles # NumTraces => opts.tracedir = "./"
    /\ pc = "util" => total_size = SumFunction(live) /\ max_total_size <= heap.brk
    /\ pc = "scored" => /\ errors = {} <=> numcorrect = num_tracefiles
                        /\ errors = {} => LET table == printresults(mm_stats)
                                          IN  /\ p1 = Times(UTIL_WEIGHT, table.util)
                                              /\ table.ops = TotalOps(mm_stats)
                        /\ errors # {} => perfindex.num = 0
                        /\ perfindex.num \in 0 .. 100 * perfindex.den

(* mm.c under the driver is an allocator: no request disturbs the blocks   *)
(* of others, and mm_realloc carries the data along.                       *)
A == INSTANCE Allocator
     WITH Top <- MAX_HEAP,
          area <- [id \in DOMAIN live |-> [lo |-> blocks[id], size |-> live[id]]],
          data <- [id \in DOMAIN live |->
                      [k \in 1 .. Cardinality(WordsOf(blocks[id], live[id])) |->
                          GET(heap, blocks[id] + WSIZE * (k - 1))]]
ImplementsAllocator == A!Spec
===============================================================================
