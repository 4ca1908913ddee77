-------------------------------- MODULE Skel --------------------------------
(***************************************************************************)
(* The HVX skel (src/dsp/cdsp_peak_imp.c) over the life of one host        *)
(* process: open, get_info, and the compute benchmarks that the workers of *)
(* measure_compute_threads run, each over its own handle.  All handles a   *)
(* process opens share the skel's g_state: each open measures the cost of  *)
(* reading the cycle counter anew and overwrites it, and each benchmark    *)
(* subtracts what it finds there when it ends.  The host's order of the    *)
(* calls (main, src/host/cdsp_peak.c, 1342-1382) decides who sees which    *)
(* value.                                                                  *)
(***************************************************************************)
EXTENDS HvxKernels, AEEStdErr

CONSTANTS
    N,          \* handles the host opens, one for each worker
    Jobs,       \* what main measures: [scenario, iterations]
    CounterMod, \* the counter c15:14 counts modulo this (2^64)
    ReadCosts,  \* cycles that two reads in a row may be apart
    MaxNow      \* bound of the model on the time

ASSUME SkelAssumption ==
    /\ {N, CounterMod, MaxNow} \subseteq Nat \ {0}
    /\ ReadCosts \subseteq 0..(CounterMod - 1)
    /\ Jobs \subseteq [scenario : Scenarios, iterations : Int]

Handles == 1..N
Idle == [start |-> -1, since |-> -1]
NoJob == [scenario |-> "none", iterations |-> 0]
NoResult == [cycles |-> -1, checksum |-> << >>, job |-> NoJob, span |-> -1,
             used |-> -1, done |-> -1]

VARIABLES
    phase,     \* where main is
    opened,    \* handles open, the first ones of the array
    overhead,  \* g_state.timer_overhead
    banner,    \* the timer_overhead of the banner, -1 before
    job,       \* what the workers of this round measure
    pending,   \* the workers of this round whose call has not returned
    err,       \* of the round
    run,       \* what a benchmark over a handle has read at its start
    result,    \* its last report; job, span, used and done are not in the code
    now        \* cycles since the DSP came up, not reduced
vars == <<phase, opened, overhead, banner, job, pending, err, run, result, now>>
round == <<job, pending, err>>

Counter == now % CounterMod

\* end - start, in unsigned arithmetic.
Delta(start, end) == (end - start) % CounterMod

\* elapsed_cycles.
\* Mutant: the overhead is always subtracted.
Subtracted(start, end) == (Delta(start, end) - overhead) % CounterMod
Elapsed(start, end) ==
    LET delta == Delta(start, end)
    IN  IF delta > overhead THEN delta - overhead ELSE delta

Init ==
    /\ phase = "open"
    /\ opened = 0 /\ overhead = 0 /\ banner = -1
    /\ job = NoJob /\ pending = {} /\ err = EOk
    /\ run = [h \in Handles |-> Idle]
    /\ result = [h \in Handles |-> NoResult]
    /\ now = 0

\* cdsp_peak_open: the least of 128 differences, any of ReadCosts.
Open ==
    /\ phase # "exit" /\ opened < N
    /\ overhead' \in ReadCosts
    /\ opened' = opened + 1
    /\ UNCHANGED <<phase, banner, round, run, result, now>>

\* A failed open ends the host.
OpenFails ==
    /\ phase # "exit" /\ opened < N
    /\ phase' = "exit" /\ opened' = 0
    /\ UNCHANGED <<overhead, banner, round, run, result, now>>

\* The loop of main opens every handle before it asks the first one.
\* Mutant: the handles of the other workers are opened later.
AnyOpen == opened > 0
AllOpen == opened = N

\* cdsp_peak_get_info over handles[0], for the banner; or it fails.
GetInfo ==
    /\ phase = "open" /\ AllOpen
    /\ \/ banner' = overhead /\ phase' = "bench" /\ UNCHANGED opened
       \/ phase' = "exit" /\ opened' = 0 /\ UNCHANGED banner
    /\ UNCHANGED <<overhead, round, run, result, now>>

\* The next round of main: a worker for each handle.
Round ==
    /\ phase = "bench" /\ pending = {} /\ err = EOk
    /\ job' \in Jobs
    /\ pending' = 1..opened
    /\ UNCHANGED <<phase, opened, overhead, banner, err, run, result, now>>

\* The kernel the id names that the host sends for the job's scenario.
AskedFor(j) == HostKernel[ComputeRows[j.scenario].kernel]
Asked == AskedFor(job)
Accepts == job.iterations > 0 /\ Known(Asked)

\* cdsp_peak_bench_compute refuses a count or an id.
Refuse(h) ==
    /\ h \in pending /\ ~Accepts
    /\ err' = EBadParm
    /\ pending' = pending \ {h}
    /\ UNCHANGED <<phase, opened, overhead, banner, job, run, result, now>>

\* A worker's benchmark over its own handle: read_cycles before the kernel.
Begin(h) ==
    /\ h \in pending /\ Accepts
    /\ run[h] = Idle
    /\ run' = [run EXCEPT ![h] = [start |-> Counter, since |-> now]]
    /\ UNCHANGED <<phase, opened, overhead, banner, round, result, now>>

\* read_cycles after the kernel, elapsed_cycles with the overhead as it is now,
\* and the checksum of the accumulators.
End(h) ==
    /\ run[h] # Idle
    /\ LET kernel == Dispatch(Asked)
       IN  result' = [result EXCEPT ![h] =
              [cycles   |-> Elapsed(run[h].start, Counter),
               checksum |-> ChecksumAccumulators(
                                Accumulated(kernel, job.iterations)),
               job  |-> job,
               span |-> now - run[h].since,
               used |-> overhead,
               done |-> Performed(kernel, job.iterations)]]
    /\ run' = [run EXCEPT ![h] = Idle]
    /\ pending' = pending \ {h}
    /\ UNCHANGED <<phase, opened, overhead, banner, job, err, now>>

\* The cleanup of main, after every worker has been joined.
Close ==
    /\ phase = "bench" /\ pending = {}
    /\ phase' = "exit" /\ opened' = 0
    /\ UNCHANGED <<overhead, banner, round, run, result, now>>

Tick ==
    /\ now < MaxNow /\ phase # "exit"
    /\ now' = now + 1
    /\ UNCHANGED <<phase, opened, overhead, banner, round, run, result>>

Next ==
    \/ Open \/ OpenFails \/ GetInfo \/ Round \/ Close \/ Tick
    \/ \E h \in Handles : Refuse(h) \/ Begin(h) \/ End(h)

Spec == Init /\ [][Next]_vars

-----------------------------------------------------------------------------
Reported(h) == result[h] # NoResult

\* Every row's cycles are net of the very overhead the banner printed, though
\* every open overwrites the one variable all benchmarks read when they end:
\* the host opens the last handle before it prints the banner and starts the
\* first benchmark (imp.c:422, cdsp_peak.c:1342-1362).
BannerOverheadUsed == \A h \in Handles : Reported(h) => result[h].used = banner

\* A benchmark that took any time reports at least one cycle and no more than
\* it took, also when the counter wrapped while it ran and when it took no
\* longer than the overhead (elapsed_cycles).  It may not span the whole range
\* of the counter, which is centuries long.
ElapsedSound ==
    \A h \in Handles :
        result[h].span \in 1..(CounterMod - 1)
            => result[h].cycles \in 1..result[h].span

\* The operations a row reports, ops_per_iter times its count, are those its
\* kernel performed: the host's table, the kernel ids both sides define for
\* themselves, the switch of the skel and the element size of the instructions
\* fit together (cdsp_peak.c:125, imp.c:453).
OpsAreWhatRan ==
    \A h \in Handles : Reported(h) =>
        result[h].job.iterations * ComputeRows[result[h].job.scenario].ops
            = result[h].done

\* With one iteration count the two int8 scenarios have one checksum, however
\* often their accumulators wrapped: the forms are mathematically equivalent
\* and read the same inputs (README.md:15, 237).
Int8FormsAgree ==
    \A g, h \in Handles :
        /\ Reported(g) /\ Reported(h)
        /\ {result[g].job.scenario, result[h].job.scenario} \subseteq Int8Scenarios
        /\ result[g].job.iterations = result[h].job.iterations
        => result[g].checksum = result[h].checksum

-----------------------------------------------------------------------------
(* The inductive invariant behind them.                                    *)

TypeInv ==
    /\ phase \in {"open", "bench", "exit"}
    /\ opened \in 0..N
    /\ overhead \in 0..(CounterMod - 1)
    /\ pending \subseteq Handles
    /\ now \in Nat
    /\ DOMAIN run = Handles /\ DOMAIN result = Handles

\* The banner is printed and the rounds run with every handle open.
PhaseInv ==
    /\ phase = "bench" => opened = N /\ banner = overhead
    /\ phase # "bench" => pending = {}
    /\ pending # {} => job \in Jobs

\* A running benchmark belongs to an accepted call of this round and has read
\* the counter at its start.
RunInv ==
    \A h \in Handles : run[h] # Idle =>
        /\ h \in pending /\ Accepts
        /\ run[h].since \in 0..now
        /\ run[h].start = run[h].since % CounterMod

\* A result is that of its job's kernel, net of the banner's overhead.
ResultInv ==
    \A h \in Handles : Reported(h) =>
        LET j == result[h].job
        IN  /\ phase # "open"
            /\ result[h].used = banner
            /\ j \in Jobs /\ j.iterations > 0
            /\ result[h].checksum = ChecksumAccumulators(
                   Accumulated(Dispatch(AskedFor(j)), j.iterations))
            /\ result[h].done = Performed(Dispatch(AskedFor(j)), j.iterations)
IInv == TypeInv /\ PhaseInv /\ RunInv /\ ResultInv /\ ElapsedSound
=============================================================================
