------------------------------- MODULE Timing -------------------------------
(***************************************************************************)
(* The timing package of the allocator's driver, project0x03/prj3-malloc:  *)
(* fsecs.c, which measures a function in one of three ways chosen when it  *)
(* is built; fcyc.c, the K-best scheme; clock.c, cycle counters with and   *)
(* without compensation for timer ticks; ftimer.c, the interval timer and  *)
(* gettimeofday. The driver as it stands is built for gettimeofday.        *)
(*                                                                         *)
(* Simplifications:                                                        *)
(*  - one clock counts cycles and microseconds; the Alpha's counter is left*)
(*    out (the Makefile builds for x86);                                   *)
(*  - sec holds the microseconds of a second, Half the values of an        *)
(*    unsigned;                                                            *)
(*  - doubles are exact; epsilon is 1 / EpsInverse; fsecs's division by the*)
(*    clock rate and the verbose output are left out;                      *)
(*  - timer ticks come one at a time, take at least THRESHOLD cycles, and  *)
(*    come after at most MaxQuiet polls of callibrate.                     *)
(***************************************************************************)
EXTENDS Integers, Sequences, FiniteSetsExt, SequencesExt

CONSTANTS Platforms,    \* the processors clock.c is compiled for
          Half,         \* 2^32: an unsigned, one half of the cycle counter
          Sec,          \* microseconds in a second
          MAX_ETIME,    \* the initial value of the interval timer, in seconds
          K, MAXSAMPLES, EpsInverse, CACHE_BYTES, \* defaults of fcyc.c
          THRESHOLD, RECORDTHRESH, NEVENT,        \* of callibrate
          Repeats,      \* runs of f that ftimer averages
          Starts,       \* the clock when the driver starts
          Costs,        \* how long a run of f may take
          Gaps,         \* how long a poll of callibrate may take, or setitimer
          KChoices, SampleChoices, CacheChoices,  \* what a user of fcyc may set
          MaxQuiet,     \* bound of the model: polls between two ticks
          MaxMeasures   \* bound of the model: calls of fsecs

ASSUME TimingAssumption ==
    /\ Platforms \subseteq {"i386", "other"}
    /\ {Half, Sec, MAX_ETIME, K, MAXSAMPLES, EpsInverse, CACHE_BYTES, NEVENT, Repeats}
           \subseteq Nat \ {0}
    /\ KChoices \cup SampleChoices \cup CacheChoices \subseteq Nat \ {0}
    /\ {THRESHOLD, RECORDTHRESH, MaxQuiet, MaxMeasures} \subseteq Nat
    /\ Starts \cup Costs \cup Gaps \subseteq Nat
    /\ \A g \in Gaps : g < MAX_ETIME * Sec

VARIABLES
    method,       \* USE_FCYC, USE_ITIMER or USE_GETTOD of config.h
    platform,     \* which part of clock.c is compiled
    pc,           \* init, idle, clear, start, poll, count, run, get; exited, killed
    clock,        \* the time
    utime,        \* ticks the process has been charged with
    armed,        \* when the interval timer was started, -1 if never
    param,        \* the parameters of fcyc
    cache_buf,    \* size of the buffer clear reads, 0 if there is none
    values,       \* the kbest smallest samples
    samplecount,
    cyc,          \* cyc_hi and cyc_lo
    cyc_per_tick,
    cal,          \* locals of callibrate: e, oldt, oldc; polls since the last tick
    first,        \* the time, or the timer, as a ftimer function read it first
    i,            \* runs of f it has made
    began,        \* history: the clock when the running measurement began
    samples,      \* history: all samples of this call of fcyc, <<>> once a
                  \* parameter is changed
    result,       \* what fsecs returned: num / den
    nmeasures     \* calls of fsecs (bounds the model)

timeVars == <<clock, utime>>
cacheVars == <<param, cache_buf>>
bestVars == <<values, samplecount, samples>>
tickVars == <<cyc_per_tick, cal>>
timerVars == <<armed, first, i>>
vars == <<method, platform, pc, timeVars, cacheVars, bestVars, cyc, tickVars,
          timerVars, began, result, nmeasures>>

NoCounter == [hi |-> 0, lo |-> 0]
NoResult == [num |-> 0, den |-> 1]
NoCal == [e |-> 0, oldt |-> 0, oldc |-> 0, quiet |-> 0]

Defaults == [kbest |-> K, maxsamples |-> MAXSAMPLES, compensate |-> FALSE,
             clear_cache |-> FALSE, cache_bytes |-> CACHE_BYTES]

Init == /\ method \in {"fcyc", "itimer", "gettod"}
        /\ platform \in Platforms
        /\ pc = "init"
        /\ clock \in Starts
        /\ utime = 0
        /\ armed = -1
        /\ param = Defaults
        /\ cache_buf = 0
        /\ values = <<>>
        /\ samplecount = 0
        /\ cyc = NoCounter
        /\ cyc_per_tick = 0
        /\ cal = NoCal
        /\ first = [sec |-> 0, usec |-> 0]
        /\ i = 0
        /\ began = clock
        /\ samples = <<>>
        /\ result = NoResult
        /\ nmeasures = 0

----------------------------------------------------------------------------
(* clock.c: the cycle counter *)

(* The x86 counter, in two unsigned.                                       *)
access_counter(now) == [hi |-> (now \div Half) % Half, lo |-> now % Half]

(* Platforms without a cycle counter end the program.                      *)
HasCounter == platform # "other"

(* By the time it is called the clock may stand anywhere, and the ticks are*)
(* counted from there: nothing read from them earlier is used again.       *)
start_counter == /\ clock' \in Starts
                 /\ utime' = 0
                 /\ cyc' = access_counter(clock')

(* Mutation: the borrow of the low half is forgotten.                      *)
get_counter_unborrowed(now) ==
    LET ncyc == access_counter(now)
    IN  ((ncyc.hi - cyc.hi) % Half) * Half + ((ncyc.lo - cyc.lo) % Half)

(* Subtraction of two double words, modulo the width of an unsigned.       *)
get_counter(now) ==
    LET ncyc   == access_counter(now)
        lo     == (ncyc.lo - cyc.lo) % Half
        borrow == IF lo > ncyc.lo THEN 1 ELSE 0
        hi     == (ncyc.hi - cyc.hi - borrow) % Half
    IN  hi * Half + lo

(* get_comp_counter, or get_counter.                                       *)
Measured == IF param.compensate
            THEN get_counter(clock) - utime * cyc_per_tick
            ELSE get_counter(clock)

----------------------------------------------------------------------------
(* fsecs.c: init_fsecs *)

(* Mutation: a buffer of another size stays in use.                        *)
set_fcyc_keeping(settings) == param' = settings /\ UNCHANGED cache_buf

(* The set_fcyc functions; set_fcyc_cache_size drops a buffer of another   *)
(* size.                                                                   *)
set_fcyc(settings) ==
    /\ param' = settings
    /\ cache_buf' = IF settings.cache_bytes # param.cache_bytes THEN 0 ELSE cache_buf

(* mhz measures the clock rate; without a cycle counter it does not return.*)
mhz == pc' = IF HasCounter THEN "idle" ELSE "exited"

init_fsecs ==
    /\ pc = "init"
    /\ IF method = "fcyc"
       THEN /\ set_fcyc([Defaults EXCEPT !.clear_cache = TRUE, !.compensate = TRUE])
            /\ mhz
       ELSE /\ pc' = "idle"
            /\ UNCHANGED cacheVars
    /\ UNCHANGED <<method, platform, timeVars, cyc, bestVars, tickVars, timerVars, began,
                   result, nmeasures>>

(* Between two measurements a user of fcyc may choose other parameters.    *)
Configure ==
    /\ pc = "idle"
    /\ method = "fcyc"
    /\ nmeasures \in 1 .. MaxMeasures - 1
    /\ \E k \in KChoices, m \in SampleChoices, c \in CacheChoices, comp \in BOOLEAN :
          set_fcyc([param EXCEPT !.kbest = k, !.maxsamples = m, !.cache_bytes = c,
                                 !.compensate = comp])
    /\ samples' = <<>>
    /\ UNCHANGED <<method, platform, pc, timeVars, values, samplecount, cyc, tickVars,
                   timerVars, began, result, nmeasures>>

----------------------------------------------------------------------------
(* fcyc.c *)

(* init_sampler                                                            *)
BeginFcyc ==
    /\ pc = "idle"
    /\ method = "fcyc"
    /\ nmeasures < MaxMeasures
    /\ values' = [j \in 1 .. param.kbest |-> 0]
    /\ samplecount' = 0
    /\ samples' = <<>>
    /\ result' = NoResult
    /\ nmeasures' = nmeasures + 1
    /\ pc' = "clear"
    /\ UNCHANGED <<method, platform, timeVars, cacheVars, cyc, tickVars, timerVars, began>>

(* clear allocates its buffer the first time, or finds no memory.          *)
Clear ==
    /\ pc = "clear"
    /\ IF param.clear_cache /\ cache_buf = 0
       THEN \/ cache_buf' = param.cache_bytes /\ pc' = "start"
            \/ pc' = "exited" /\ UNCHANGED cache_buf
       ELSE pc' = "start" /\ UNCHANGED cache_buf
    /\ UNCHANGED <<method, platform, timeVars, param, bestVars, cyc, tickVars, timerVars,
                   began, result, nmeasures>>

(* start_comp_counter calls callibrate while it knows no cyc_per_tick.     *)
Callibrate ==
    /\ pc = "start"
    /\ param.compensate /\ cyc_per_tick = 0
    /\ start_counter
    /\ cal' = NoCal
    /\ pc' = "poll"
    /\ UNCHANGED <<method, platform, cacheVars, bestVars, cyc_per_tick,
                   timerVars, began, result, nmeasures>>

NoCallibrate ==
    /\ pc = "start"
    /\ ~(param.compensate /\ cyc_per_tick = 0)
    /\ pc' = "count"
    /\ UNCHANGED <<method, platform, timeVars, cacheVars, bestVars, cyc, tickVars,
                   timerVars, began, result, nmeasures>>

(* The time passes: d cycles, and a tick or none.                          *)
Pass(d, t) == clock' = clock + d /\ utime' = utime + t

(* One round of the loop of callibrate. A long gap with a tick in it is    *)
(* recorded if it is long enough and the shortest so far.                  *)
Poll(d, t) ==
    /\ pc = "poll"
    /\ cal.e < NEVENT
    /\ t = 1 => d >= THRESHOLD
    /\ t = 0 => cal.quiet < MaxQuiet
    /\ Pass(d, t)
    /\ LET newt == get_counter(clock + d)
           gap  == newt - cal.oldt
           tick == gap >= THRESHOLD /\ utime' > cal.oldc
       IN  /\ cal' = [e     |-> IF tick THEN cal.e + 1 ELSE cal.e,
                      oldt  |-> IF gap >= THRESHOLD THEN newt ELSE cal.oldt,
                      oldc  |-> IF tick THEN utime' ELSE cal.oldc,
                      quiet |-> IF t = 1 THEN 0 ELSE cal.quiet + 1]
           /\ cyc_per_tick' = IF /\ tick
                                 /\ cyc_per_tick = 0 \/ cyc_per_tick > gap
                                 /\ gap > RECORDTHRESH
                              THEN gap ELSE cyc_per_tick
    /\ UNCHANGED <<method, platform, pc, cacheVars, bestVars, cyc, timerVars,
                   began, result, nmeasures>>

CallibrateEnd ==
    /\ pc = "poll"
    /\ cal.e >= NEVENT
    /\ cal' = NoCal
    /\ pc' = "count"
    /\ UNCHANGED <<method, platform, timeVars, cacheVars, bestVars, cyc, cyc_per_tick,
                   timerVars, began, result, nmeasures>>

(* start_counter, preceded by the ticks if they are compensated for.       *)
StartCounter ==
    /\ pc = "count"
    /\ start_counter
    /\ began' = clock'
    /\ pc' = "run"
    /\ UNCHANGED <<method, platform, cacheVars, bestVars, cyc_per_tick, cal,
                   timerVars, result, nmeasures>>

(* val goes in at pos and sinks past the larger values before it.          *)
Sunk(vs, pos, val) ==
    LET below == Max({0} \cup {j \in 1 .. pos - 1 : vs[j] <= val})
    IN  SubSeq(vs, 1, below) \o <<val>> \o SubSeq(vs, below + 1, pos - 1)
            \o SubSeq(vs, pos + 1, Len(vs))

(* Mutation: the last of the kbest values always makes room.               *)
Kept_newest(val) ==
    IF samplecount < param.kbest THEN Sunk(values, samplecount + 1, val)
    ELSE Sunk(values, param.kbest, val)

(* add_sample                                                              *)
Kept(val) ==
    IF samplecount < param.kbest THEN Sunk(values, samplecount + 1, val)
    ELSE IF val < values[param.kbest] THEN Sunk(values, param.kbest, val)
    ELSE values

(* Mutation: convergence is judged before there are kbest samples.         *)
has_converged_early(vs, count) ==
    (EpsInverse + 1) * vs[1] >= EpsInverse * vs[param.kbest]

has_converged(vs, count) ==
    /\ count >= param.kbest
    /\ (EpsInverse + 1) * vs[1] >= EpsInverse * vs[param.kbest]

(* The sample is added; the loop of fcyc goes on or values[0] is returned. *)
Sample ==
    /\ pc = "get"
    /\ method = "fcyc"
    /\ values' = Kept(Measured)
    /\ samplecount' = samplecount + 1
    /\ samples' = Append(samples, Measured)
    /\ IF has_converged(values', samplecount') \/ samplecount' >= param.maxsamples
       THEN pc' = "idle" /\ result' = [num |-> values'[1], den |-> 1]
       ELSE pc' = "clear" /\ UNCHANGED result
    /\ UNCHANGED <<method, platform, timeVars, cacheVars, cyc, tickVars, timerVars,
                   began, nmeasures>>

----------------------------------------------------------------------------
(* ftimer.c *)

timeval(t) == [sec |-> t \div Sec, usec |-> t % Sec]

(* What the system tells of the clock, or of a timer set at a moment since.*)
gettimeofday(now) == timeval(now)
getitimer(since, now) == timeval(MAX_ETIME * Sec - (now - since))

(* Mutation: the microseconds are added, as if the timer counted up.       *)
get_etime_up(r_curr) == Sec * (MAX_ETIME - r_curr.sec) + r_curr.usec

(* The seconds and the microseconds that r_curr is below the initial value.*)
get_etime(r_curr) == Sec * (MAX_ETIME - r_curr.sec) + (0 - r_curr.usec)

(* init_etime starts the three timers anew, which takes a while; only the  *)
(* real one is read, by get_etime.                                         *)
BeginItimer(d) ==
    /\ pc = "idle"
    /\ method = "itimer"
    /\ nmeasures < MaxMeasures
    /\ clock' = clock + d
    /\ armed' = clock
    /\ first' = getitimer(clock, clock')
    /\ i' = 0
    /\ began' = clock'
    /\ nmeasures' = nmeasures + 1
    /\ pc' = "run"
    /\ UNCHANGED <<method, platform, utime, cacheVars, bestVars, cyc, tickVars, result>>

BeginGettod ==
    /\ pc = "idle"
    /\ method = "gettod"
    /\ nmeasures < MaxMeasures
    /\ first' = gettimeofday(clock)
    /\ i' = 0
    /\ began' = clock
    /\ nmeasures' = nmeasures + 1
    /\ pc' = "run"
    /\ UNCHANGED <<method, platform, timeVars, cacheVars, bestVars, cyc, tickVars, armed,
                   result>>

(* tmeas, or diff: the second reading less the first.                      *)
Elapsed == IF method = "itimer"
           THEN get_etime(getitimer(armed, clock)) - get_etime(first)
           ELSE LET etv == gettimeofday(clock)
                IN  Sec * (etv.sec - first.sec) + (etv.usec - first.usec)

Average ==
    /\ pc = "get"
    /\ method # "fcyc"
    /\ IF i < Repeats
       THEN pc' = "run" /\ UNCHANGED result
       ELSE pc' = "idle" /\ result' = [num |-> Elapsed, den |-> Repeats]
    /\ UNCHANGED <<method, platform, timeVars, cacheVars, bestVars, cyc, tickVars,
                   timerVars, began, nmeasures>>

----------------------------------------------------------------------------

(* f(argp). The interval timer is never stopped: when it runs out, a signal*)
(* ends the driver.                                                        *)
Run(d, t) ==
    /\ pc = "run"
    /\ t = 1 => d >= THRESHOLD
    /\ Pass(d, t)
    /\ i' = IF method = "fcyc" THEN i ELSE i + 1
    /\ pc' = IF armed # -1 /\ clock' - armed >= MAX_ETIME * Sec THEN "killed" ELSE "get"
    /\ UNCHANGED <<method, platform, cacheVars, bestVars, cyc, tickVars, armed, first,
                   began, result, nmeasures>>

Next == \/ init_fsecs
        \/ Configure
        \/ BeginFcyc
        \/ Clear
        \/ Callibrate
        \/ NoCallibrate
        \/ \E d \in Gaps, t \in {0, 1} : Poll(d, t)
        \/ CallibrateEnd
        \/ StartCounter
        \/ \E d \in Costs, t \in {0, 1} : Run(d, t)
        \/ Sample
        \/ \E d \in Gaps : BeginItimer(d)
        \/ BeginGettod
        \/ Average

Spec == Init /\ [][Next]_vars

----------------------------------------------------------------------------
(* Properties *)

Settings == [kbest : KChoices \cup {K}, maxsamples : SampleChoices \cup {MAXSAMPLES},
             compensate : BOOLEAN, clear_cache : BOOLEAN,
             cache_bytes : CacheChoices \cup {CACHE_BYTES}]

(* Types; clear reads cache_bytes bytes and has them, though the size may  *)
(* be set again once the buffer exists; ticks are never overcharged by a   *)
(* gap callibrate should have thrown away.                                 *)
TypeOK ==
    /\ pc \in {"init", "idle", "clear", "start", "poll", "count", "run", "get",
               "exited", "killed"}
    /\ param \in Settings
    /\ cache_buf \in {0, param.cache_bytes}
    /\ Len(values) \in {0} \cup KChoices \cup {K}
    /\ cyc.hi \in 0 .. Half - 1 /\ cyc.lo \in 0 .. Half - 1
    /\ cyc_per_tick = 0 \/ cyc_per_tick > RECORDTHRESH
    /\ cal.e \in 0 .. NEVENT
    /\ i \in 0 .. Repeats
    /\ nmeasures \in 0 .. MaxMeasures

Ascending(s) == SortSeq(s, LAMBDA a, b : a < b)
Lesser(a, b) == IF a < b THEN a ELSE b

(* fcyc may stop: it has maxsamples of them, or the kbest smallest are     *)
(* within epsilon of each other.                                           *)
Enough(taken) ==
    \/ Len(taken) >= param.maxsamples
    \/ /\ Len(taken) >= param.kbest
       /\ LET best == Ascending(taken)
          IN  (EpsInverse + 1) * best[1] >= EpsInverse * best[param.kbest]

(* fcyc uses the "K-best scheme to estimate the running time of function f"*)
(* (fcyc.c:127): at any time values starts with the kbest smallest samples *)
(* in order; the loop goes on while they neither have converged nor number *)
(* maxsamples, and when fcyc returns one or the other holds and its result *)
(* is the smallest of all samples - compensated samples, which may be      *)
(* negative, and parameters changed before the call included.              *)
BestKept == method = "fcyc" =>
    /\ pc \in {"clear", "start", "poll", "count", "run", "get"} =>
         LET m == Lesser(samplecount, param.kbest)
         IN  /\ samplecount = Len(samples)
             /\ SubSeq(values, 1, m) = SubSeq(Ascending(samples), 1, m)
             /\ samples # <<>> => ~Enough(samples)
    /\ (pc = "idle" /\ samples # <<>>) =>
         /\ Enough(samples)
         /\ result.num = Ascending(samples)[1]

(* What a measurement returns is the time that has passed while f ran,     *)
(* wherever the counter stood: put together from two halves that wrapped   *)
(* (clock.c:53-71), from seconds and microseconds of the day               *)
(* (ftimer.c:50), or from those a timer, set a while before, has left      *)
(* (ftimer.c:91-102).                                                      *)
DurationsExact ==
    /\ pc = "get" /\ method = "fcyc" => get_counter(clock) = clock - began
    /\ pc = "idle" /\ method # "fcyc" /\ nmeasures > 0 => result.num = clock - began
=============================================================================
