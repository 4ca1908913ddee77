------------------------------ MODULE Measure ------------------------------
(***************************************************************************)
(* One measurement of src/host/cdsp_peak.c: measure_rpc_threads (722-780), *)
(* measure_compute_threads (804-866) and measure_mem_threads (1089-1156)   *)
(* with the thread mains they run (691-720, 1066-1087).  The three share   *)
(* one skeleton: calloc the argument and thread arrays, take the start     *)
(* time, create one worker per handle (or run the only one inline), join   *)
(* those created, take the stop time, fold the answers in index order,     *)
(* free.  The call on the DSP is external: it may take any time and fail   *)
(* with any error.                                                         *)
(***************************************************************************)
EXTENDS Integers, Sequences, FiniteSets

CONSTANTS
    N,            \* nthreads, one worker per open handle
    Per,          \* calls / iterations / repeats each worker is asked for
    Kinds,        \* which of the benchmarks below are measured
    Ok,           \* AEE_SUCCESS
    NoMem,        \* -ENOMEM of the host
    Again,        \* the error of a failing pthread_create
    Failed,       \* AEE_EFAILED, the verdict of verify_copy
    DspErrors,    \* errors a call on the DSP can return
    Cycles,       \* cycle counts a benchmark can report
    Checksums,    \* checksums a benchmark can report
    MaxClock      \* bound of the model: the clock stops here

KnownKinds == {"rpc", "compute", "mem-read", "mem-write", "mem-copy"}

ASSUME NAssumption == N \in Nat \ {0}
ASSUME PerAssumption == Per \in Nat \ {0}
ASSUME KindsAssumption == Kinds \subseteq KnownKinds
ASSUME ErrorsAssumption == Ok \notin {NoMem, Again, Failed} \cup DspErrors
ASSUME DataAssumption == Cycles \subseteq Nat /\ Checksums \subseteq Nat
ASSUME ClockAssumption == MaxClock \in Nat

Workers == 1..N
WorkerErrors == DspErrors \cup {Failed}
Errors == WorkerErrors \cup {NoMem, Again}

VARIABLES
    kind,     \* the benchmark being measured
    pc,       \* where the measuring thread is
    heap,     \* of {"args", "threads"}, the arrays that are allocated
    args,     \* args[t]: what worker t leaves in its struct
    thr,      \* thr[t]: the life of worker t's thread
    created,  \* workers created
    joined,   \* workers joined
    err,      \* the local err, and the value returned
    result,   \* *result: count, cycles, checksum
    clock,    \* CLOCK_MONOTONIC_RAW
    watch,    \* the start time and the stop time of the measurement
    \* not in the code: what the DSP really did
    done,     \* done[t]: calls, iterations or repeats performed for t
    span      \* span[t]: first and last moment t's benchmark was running

mainVars  == <<kind, pc, heap, created, joined, err, result, watch>>
vars == <<kind, pc, heap, args, thr, created, joined, err, result, clock,
          watch, done, span>>

Blank == [err |-> Ok, cycles |-> 0, checksum |-> 0]
NoResult == [count |-> 0, cycles |-> 0, checksum |-> << >>]

Init ==
    /\ kind \in Kinds
    /\ pc = "alloc_args"
    /\ heap = {}
    /\ args = [t \in Workers |-> Blank]
    /\ thr = [t \in Workers |-> "none"]
    /\ created = 0 /\ joined = 0
    /\ err = Ok
    /\ result = NoResult
    /\ clock = 0
    /\ watch = [start |-> 0, stop |-> 0]
    /\ done = [t \in Workers |-> 0]
    /\ span = [t \in Workers |-> [from |-> 0, to |-> 0]]

-----------------------------------------------------------------------------
(* The measuring thread.                                                   *)

\* Mutant: an exit that frees the argument array and forgets the threads.
ReturnKeepingThreads(e) ==
    pc' = "returned" /\ err' = e /\ heap' = heap \ {"args"}

Return(e) == pc' = "returned" /\ err' = e /\ heap' = {}

AllocArgs ==
    /\ pc = "alloc_args"
    /\ \/ Return(NoMem)
       \/ /\ heap' = {"args"}
          /\ pc' = IF N > 1 THEN "alloc_threads" ELSE "start"
          /\ UNCHANGED err
    /\ UNCHANGED <<kind, args, thr, created, joined, result, clock, watch,
                   done, span>>

AllocThreads ==
    /\ pc = "alloc_threads"
    /\ \/ Return(NoMem)
       \/ /\ heap' = heap \cup {"threads"}
          /\ pc' = "start"
          /\ UNCHANGED err
    /\ UNCHANGED <<kind, args, thr, created, joined, result, clock, watch,
                   done, span>>

\* The start time is taken before any worker can run; a single worker is run
\* on this thread.
Start ==
    /\ pc = "start"
    /\ watch' = [watch EXCEPT !.start = clock]
    /\ \/ /\ N = 1
          /\ thr' = [thr EXCEPT ![1] = "ready"]
          /\ pc' = "inline"
       \/ /\ N > 1
          /\ pc' = "spawn"
          /\ UNCHANGED thr
    /\ UNCHANGED <<kind, heap, args, created, joined, err, result, clock,
                   done, span>>

SpawnOk ==
    /\ pc = "spawn"
    /\ thr' = [thr EXCEPT ![created + 1] = "ready"]
    /\ created' = created + 1
    /\ pc' = IF created + 1 = N THEN "join" ELSE "spawn"
    /\ UNCHANGED <<kind, heap, args, joined, err, result, clock, watch,
                   done, span>>

SpawnFails ==
    /\ pc = "spawn"
    /\ err' = Again
    /\ pc' = "join"
    /\ UNCHANGED <<kind, heap, args, thr, created, joined, result, clock,
                   watch, done, span>>

\* Mutants: a failed pthread_create skips the join; every wanted worker is
\* joined, created or not.
JoinOnSuccess == IF err = Ok THEN created ELSE 0
JoinWanted == N

\* How many workers the join loop waits for: those created, not all N.
ToJoin == created

Join ==
    /\ pc = "join"
    /\ joined < ToJoin
    /\ thr[joined + 1] = "exited"
    /\ thr' = [thr EXCEPT ![joined + 1] = "joined"]
    /\ joined' = joined + 1
    /\ UNCHANGED <<kind, pc, heap, args, created, err, result, clock, watch,
                   done, span>>

\* Mutant: the stop time is taken before the join loop.
StopBeforeJoin == pc = "join" \/ (pc = "inline" /\ thr[1] = "exited")

\* Every worker is in: the stop time, and the counters of the result.
Finished == \/ pc = "join" /\ joined = ToJoin
            \/ pc = "inline" /\ thr[1] = "exited"
Stop ==
    /\ Finished
    /\ watch' = [watch EXCEPT !.stop = clock]
    /\ result' = [NoResult EXCEPT !.count = Per * N]
    /\ pc' = "collect"
    /\ UNCHANGED <<kind, heap, args, thr, created, joined, err, clock, done,
                   span>>

\* Mutants: the collect loop stops one short; the last failing worker wins.
FailingButLast == {t \in 1..(N - 1) : args[t].err # Ok}

\* The workers whose answers the collect loop folds before it breaks off.
Failing == {t \in Workers : args[t].err # Ok}
LastFailing == CHOOSE t \in Failing : \A u \in Failing : u <= t
FirstFailing == CHOOSE t \in Failing : \A u \in Failing : t <= u
Folded == IF Failing = {} THEN Workers ELSE 1..(FirstFailing - 1)

\* `if (args[i].cycles > result->cycles) result->cycles = args[i].cycles`; the
\* rpc worker has no cycle count.
Slowest(S) ==
    IF S = {} THEN 0
    ELSE LET cs == {args[t].cycles : t \in S}
         IN  CHOOSE c \in cs : \A d \in cs : d <= c

\* mix_checksum over the workers in index order: the fold is kept as the
\* sequence of the values it was given.
Mixed(S) == [t \in S |-> args[t].checksum]

Collect ==
    /\ pc = "collect"
    /\ IF err # Ok
       THEN Return(err) /\ UNCHANGED result
       ELSE /\ result' = [count |-> result.count, cycles |-> Slowest(Folded),
                           checksum |-> Mixed(Folded)]
            /\ Return(IF Failing = {} THEN Ok ELSE args[FirstFailing].err)
    /\ UNCHANGED <<kind, args, thr, created, joined, clock, watch, done,
                   span>>

Main == \/ AllocArgs \/ AllocThreads \/ Start \/ SpawnOk \/ SpawnFails
        \/ Join \/ Stop \/ Collect

-----------------------------------------------------------------------------
(* The workers: each makes its remote call(s) and writes its own struct.   *)

Invoke(t) ==
    /\ thr[t] = "ready"
    /\ thr' = [thr EXCEPT ![t] = "calling"]
    /\ span' = [span EXCEPT ![t] = IF done[t] = 0
                                   THEN [from |-> clock, to |-> clock]
                                   ELSE [@ EXCEPT !.to = clock]]
    /\ UNCHANGED <<kind, pc, heap, args, created, joined, err, result, clock,
                   watch, done>>

\* The call of worker t comes back: it leaves `a` in args[t], the DSP has done
\* `work` more units, and the thread goes on or exits.
Answers(t, a, work, next) ==
    /\ thr[t] = "calling"
    /\ args' = [args EXCEPT ![t] = a]
    /\ thr' = [thr EXCEPT ![t] = next]
    /\ done' = [done EXCEPT ![t] = @ + work]
    /\ span' = [span EXCEPT ![t].to = clock]
    /\ UNCHANGED <<clock, mainVars>>

Error(e) == [Blank EXCEPT !.err = e]

MoreCalls(t) == done[t] + 1 < Per

\* rpc_thread_main: up to `calls` cdsp_peak_get_info calls, the first failing
\* one ends the loop.
RpcReturn(t) ==
    /\ kind = "rpc"
    /\ \/ \E e \in DspErrors : Answers(t, Error(e), 0, "exited")
       \/ /\ MoreCalls(t)
          /\ Answers(t, Blank, 1, "ready")
       \/ /\ ~MoreCalls(t)
          /\ \E c \in Checksums :
                Answers(t, [Blank EXCEPT !.checksum = c], 1, "exited")

\* compute_thread_main, and the reading and writing cases of mem_thread_main:
\* one remote call that does all the iterations.
BenchReturn(t) ==
    /\ kind \in {"compute", "mem-read", "mem-write"}
    /\ \/ \E e \in DspErrors : Answers(t, Error(e), 0, "exited")
       \/ \E n \in Cycles, c \in Checksums :
             Answers(t, [err |-> Ok, cycles |-> n, checksum |-> c], Per,
                     "exited")

\* The copying case of mem_thread_main: a copy that came back is checked by
\* verify_copy, and a difference it sees is AEE_EFAILED.
CopyReturn(t) ==
    /\ kind = "mem-copy"
    /\ \/ \E e \in DspErrors : Answers(t, Error(e), 0, "exited")
       \/ \E n \in Cycles, c \in Checksums, verdict \in {Ok, Failed} :
             Answers(t, [err |-> verdict, cycles |-> n, checksum |-> c], Per,
                     "exited")

Worker(t) == Invoke(t) \/ RpcReturn(t) \/ BenchReturn(t) \/ CopyReturn(t)

Tick == /\ pc # "returned"
        /\ clock < MaxClock
        /\ clock' = clock + 1
        /\ UNCHANGED <<mainVars, args, thr, done, span>>

Next == Main \/ Tick \/ \E t \in Workers : Worker(t)

Spec == Init /\ [][Next]_vars

\* The scheduler runs every thread that can run, and every call on the DSP
\* comes back.
Fairness == WF_vars(Main) /\ \A t \in Workers : WF_vars(Worker(t))
FairSpec == Spec /\ Fairness

-----------------------------------------------------------------------------
(* Properties.                                                             *)

Pcs == {"alloc_args", "alloc_threads", "start", "spawn", "inline", "join",
        "collect", "returned"}
Arg == [err : WorkerErrors \cup {Ok}, cycles : Cycles \cup {0},
        checksum : Checksums \cup {0}]
Span == [from : Nat, to : Nat]

\* Every variable keeps its type.
TypeOK ==
    /\ kind \in Kinds
    /\ pc \in Pcs
    /\ heap \in SUBSET {"args", "threads"}
    /\ args \in [Workers -> Arg]
    /\ thr \in [Workers -> {"none", "ready", "calling", "exited", "joined"}]
    /\ created \in 0..N /\ joined \in 0..N
    /\ err \in Errors \cup {Ok}
    /\ result.count \in Nat
    /\ clock \in Nat
    /\ watch \in [start : Nat, stop : Nat]
    /\ done \in [Workers -> 0..Per]
    /\ span \in [Workers -> Span]

Running(t) == thr[t] \in {"ready", "calling"}

\* A worker writes through `data` into the argument array until it exits, so
\* the array is never freed under a running worker - in particular not when
\* pthread_create fails half way and the function takes its error path.
NoUseAfterFree == \A t \in Workers : Running(t) => "args" \in heap

\* When the call returns, on any path, both arrays are freed and no thread was
\* left behind unjoined.
ReturnsQuiescent ==
    pc = "returned" =>
        /\ heap = {}
        /\ \A t \in Workers : \/ thr[t] \in {"none", "joined"}
                              \/ N = 1 /\ thr[t] = "exited"

\* A success is the truth: the count printed is the work the DSP performed for
\* this call, every unit of it, by every worker.
CountIsWorkDone ==
    pc = "returned" /\ err = Ok =>
        /\ \A t \in Workers : done[t] = Per
        /\ result.count = Per * N

\* The elapsed time contains the whole activity of every worker that ran: no
\* benchmark starts before the start time or ends after the stop time.
ElapsedCoversWork ==
    pc \in {"collect", "returned"} =>
        \A t \in Workers : thr[t] \in {"exited", "joined"} =>
            /\ watch.start <= span[t].from
            /\ span[t].to <= watch.stop

\* The inductive invariant behind the four properties above.  It says which
\* threads exist at each label, what an exited worker has done, and between
\* which times it did it.
Before == {"alloc_args", "alloc_threads", "start"}
After  == {"collect", "returned"}
Exited(t) == thr[t] \in {"exited", "joined"}

HeapInv ==
    /\ pc \notin {"alloc_args", "returned"} => "args" \in heap
    /\ pc = "returned" => heap = {}
    /\ pc \in {"alloc_threads", "spawn", "join"} => N > 1
    /\ pc = "inline" => N = 1
    /\ pc \in Before \cup {"spawn", "inline"} => err = Ok
ThreadInv ==
    /\ joined <= created
    /\ pc \in Before \cup {"spawn", "inline"} => joined = 0
    /\ pc = "spawn" => created < N
    /\ N = 1 => created = 0
    /\ N > 1 => \A t \in Workers : /\ thr[t] = "none" <=> t > created
                                   /\ thr[t] = "joined" <=> t <= joined
    /\ N = 1 => thr[1] # "joined"
    /\ pc \in Before => created = 0 /\ \A t \in Workers : thr[t] = "none"
    /\ pc = "inline" => thr[1] # "none"
    /\ pc = "collect" /\ N = 1 => thr[1] = "exited"
    /\ pc \in {"join", "collect"} /\ err = Ok /\ N > 1 => created = N
    /\ pc \in After => \A t \in Workers : ~Running(t)
    /\ pc \in After /\ N > 1 => joined = created
WorkInv ==
    \A t \in Workers :
        /\ thr[t] = "none" => done[t] = 0 /\ args[t].err = Ok
        /\ Running(t) => done[t] < Per /\ args[t].err = Ok
        /\ Running(t) /\ kind # "rpc" => done[t] = 0
        /\ Exited(t) /\ args[t].err = Ok => done[t] = Per
CountInv ==
    /\ pc \in After /\ err = Ok => result.count = Per * N
    /\ pc = "returned" /\ err = Ok =>
          \A t \in Workers : Exited(t) /\ args[t].err = Ok
TimeInv ==
    /\ watch.start <= clock /\ watch.stop <= clock
    /\ \A t \in Workers : Exited(t) \/ thr[t] = "calling" \/ done[t] > 0 =>
          /\ watch.start <= span[t].from
          /\ span[t].to <= clock
          /\ pc \in After => span[t].to <= watch.stop
IInv == TypeOK /\ HeapInv /\ ThreadInv /\ WorkInv /\ CountInv /\ TimeInv

\* The measurement always returns if the DSP answers: also after a failed
\* pthread_create, when fewer threads exist than were wanted.
Returns == <>(pc = "returned")

\* The measurement seen by its caller is the atomic one of MeasureAtomic: the
\* report depends on the answers only - not on the order of the threads, the
\* joins or the clock - it names the lowest-numbered failing worker, and no
\* worker answers after it.
ReportMade ==
    IF err # Ok THEN [err |-> err]
    ELSE [err |-> Ok, count |-> result.count, cycles |-> result.cycles,
          checksum |-> result.checksum]
Atomic == INSTANCE MeasureAtomic WITH
    answered <- {t \in Workers : Exited(t)},
    answers  <- args,
    told     <- pc = "returned",
    report   <- IF pc = "returned" THEN ReportMade ELSE [err |-> "none"]
ImplementsAtomic == Atomic!Spec
=============================================================================
