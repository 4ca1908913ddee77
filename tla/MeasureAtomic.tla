--------------------------- MODULE MeasureAtomic ---------------------------
(***************************************************************************)
(* What one call of measure_rpc_threads, measure_compute_threads or        *)
(* measure_mem_threads (src/host/cdsp_peak.c) promises its caller, with no  *)
(* thread, allocation, join or clock in sight: every worker's benchmark is *)
(* answered at most once, and then the caller gets one report, a function  *)
(* of the answers alone, after which no worker answers any more.           *)
(***************************************************************************)
EXTENDS Integers, Sequences, FiniteSets

CONSTANTS
    N,           \* nthreads, one benchmark per open handle
    Per,         \* calls / iterations / repeats asked of each worker
    Ok,          \* AEE_SUCCESS
    NoMem,       \* -ENOMEM of the host
    Again,       \* what pthread_create returns when it fails
    WorkerErrors,\* what a worker's benchmark can fail with
    Cycles,      \* cycle counts a benchmark can report
    Checksums    \* checksums a benchmark can report

Workers == 1..N
Outcome == [err : WorkerErrors \cup {Ok}, cycles : Cycles \cup {0},
            checksum : Checksums \cup {0}]
Unanswered == [err |-> Ok, cycles |-> 0, checksum |-> 0]   \* from calloc
NoReport   == [err |-> "none"]

VARIABLES answered,  \* the workers whose benchmark has been answered
          answers,   \* answers[t]: what worker t's benchmark came to
          told,      \* the caller has been told
          report     \* what it was told
vars == <<answered, answers, told, report>>

\* The largest cycle count over the workers in S, 0 over none (collect loop).
MaxCycles(a, S) ==
    IF S = {} THEN 0
    ELSE LET cs == {a[t].cycles : t \in S}
         IN  CHOOSE c \in cs : \A d \in cs : d <= c

Failing(a) == {t \in Workers : a[t].err # Ok}
FirstFailing(a) == CHOOSE t \in Failing(a) : \A u \in Failing(a) : t <= u

\* The report of a complete set of answers: the error of the lowest-numbered
\* failing worker, or the work of all, the slowest worker's cycles and the
\* checksums folded in index order.
ReportOf(a) ==
    IF Failing(a) # {}
    THEN [err |-> a[FirstFailing(a)].err]
    ELSE [err |-> Ok, count |-> Per * N, cycles |-> MaxCycles(a, Workers),
          checksum |-> [t \in Workers |-> a[t].checksum]]

Init == /\ answered = {}
        /\ answers = [t \in Workers |-> Unanswered]
        /\ told = FALSE
        /\ report = NoReport

Answer(t) == /\ ~told
             /\ t \notin answered
             /\ answered' = answered \cup {t}
             /\ \E o \in Outcome : answers' = [answers EXCEPT ![t] = o]
             /\ UNCHANGED <<told, report>>

Tell(r) == /\ ~told
           /\ told' = TRUE
           /\ report' = r
           /\ UNCHANGED <<answered, answers>>

Report == /\ answered = Workers
          /\ Tell(ReportOf(answers))

\* Out of memory before any worker ran, or out of threads before all ran.
GiveUp == \/ answered = {} /\ Tell([err |-> NoMem])
          \/ N > 1 /\ N \notin answered /\ Tell([err |-> Again])

Next == (\E t \in Workers : Answer(t)) \/ Report \/ GiveUp

Spec == Init /\ [][Next]_vars
=============================================================================
