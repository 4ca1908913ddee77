----------------------------- MODULE Calibrate -----------------------------
(***************************************************************************)
(* The calibration loops of src/host/cdsp_peak.c: run_rpc_null (782-802),  *)
(* run_compute (880-901), run_compute_group (922-968), run_hmx_int8        *)
(* (992-1033) and run_mem (1158-1185).  Each measures its scenario - the   *)
(* group loop, every enabled scenario of its group - with an iteration     *)
(* count that it doubles until the measurement took min_ms, or the count   *)
(* is at the loop's cap, and then prints the last measurement(s).  One     *)
(* measurement is atomic here (module Measure refines it).                 *)
(***************************************************************************)
EXTENDS Integers, Sequences, FiniteSets

CONSTANTS
    Kinds,        \* which of the loops
    M,            \* scenarios of the table that share the iteration group
    Starts,       \* Starts[i]: start_iterations (start_repeats) of entry i
    Iterations,   \* values of --iterations; 0 is not given
    MinMs,        \* --min-ms
    ElapsedTimes, \* elapsed times a measurement can have
    Errs          \* errors a measurement can return

IntMax == 2147483647
Huge == 1000000000          \* 1.0e300, above every elapsed time
KnownKinds == {"rpc", "compute", "group", "hmx", "probe", "mem"}
Counted == KnownKinds \ {"rpc", "mem"}     \* the loops that obey --iterations

ASSUME KindsAssumption == Kinds \subseteq KnownKinds
ASSUME TableAssumption == M \in Nat /\ Starts \in [1..M -> 1..IntMax]
ASSUME IterationsAssumption == Iterations \subseteq 0..IntMax
ASSUME TimesAssumption == MinMs \in Nat \ {0} /\ ElapsedTimes \subseteq 0..(Huge - 1)
ASSUME ErrsAssumption == Errs \subseteq Int \ {0}

VARIABLES
    kind,       \* which loop this is
    enabled,    \* the table entries it measures (one, but for the group loop)
    iterations, \* opt->iterations
    pc,
    iters,      \* calls / iterations / repeats of the current round, an int
    next,       \* the table entry the round is at
    least,      \* min_elapsed of the round; result.elapsed_ms of a single loop
    results,    \* results[i]: the last measurement of entry i
    rows,       \* rows[i]: what was printed for entry i
    err         \* the value returned
vars == <<kind, enabled, iterations, pc, iters, next, least, results, rows,
          err>>

NoResult == [iters |-> 0, elapsed |-> 0]

\* choose_group_start_iterations for the group, start_iterations or
\* start_repeats for one scenario, 1 for the loops that have no table entry.
LargestStart(S) == LET starts == {Starts[i] : i \in S}
                   IN  CHOOSE n \in starts : \A s \in starts : s <= n

StartOf(k, S, given) ==
    IF k \notin Counted THEN 1
    ELSE IF given > 0 THEN given ELSE LargestStart(S)

Init ==
    /\ kind \in Kinds
    /\ enabled \in {S \in SUBSET (1..M) : /\ S # {}
                                          /\ kind # "group" => Cardinality(S) = 1}
    /\ iterations \in Iterations
    /\ pc = "measure"
    /\ iters = StartOf(kind, enabled, iterations)
    /\ next = 1
    /\ least = Huge
    /\ results = [i \in 1..M |-> NoResult]
    /\ rows = [i \in {} |-> NoResult]
    /\ err = 0

MaxRepeats == 16777216                 \* 1 << 24, MAX_HMX_REPEATS
MaxComputeIterations == 805306368      \* 0x30000000

\* Mutant: the compute cap is one doubling higher.
AtCapTwice(k, n) ==
    IF k \in {"compute", "group"} THEN n > 2 * MaxComputeIterations
    ELSE n > MaxRepeats

AtCap(k, n) ==
    \/ k \in {"rpc", "hmx", "probe"} /\ n >= MaxRepeats
    \/ k \in {"compute", "group"} /\ n > MaxComputeIterations
    \/ k = "mem" /\ n > MaxRepeats

\* The loops that measure once: --iterations, or a probe (ops_per_repeat 0).
Single == \/ kind \in Counted /\ iterations > 0
          \/ kind = "probe"

Skip ==
    /\ pc = "measure"
    /\ next <= M /\ next \notin enabled
    /\ next' = next + 1
    /\ UNCHANGED <<kind, enabled, iterations, pc, iters, least, results, rows,
                   err>>

\* Mutant: min_elapsed takes the last elapsed time, not the smallest.
LastElapsed(old, new) == new
SmallerElapsed(old, new) == IF new < old THEN new ELSE old

MeasureOk ==
    /\ pc = "measure"
    /\ next \in enabled
    /\ \E t \in ElapsedTimes :
          /\ results' = [results EXCEPT ![next] =
                            [iters |-> iters, elapsed |-> t]]
          /\ least' = SmallerElapsed(least, t)
    /\ next' = next + 1
    /\ UNCHANGED <<kind, enabled, iterations, pc, iters, rows, err>>

AfterFailure == "returned"

\* A failing measurement ends the loop: nothing is printed, not even the
\* scenarios of the group that were measured.
MeasureFails ==
    /\ pc = "measure"
    /\ next \in enabled
    /\ \E e \in Errs : err' = e
    /\ pc' = AfterFailure
    /\ UNCHANGED <<kind, enabled, iterations, iters, next, least, results,
                   rows>>

\* The table is done; all enabled entries are measured, long enough.
\* Mutant: the round ends with its first scenario.
FirstDone == next > 1
RoundOver == next > M
Enough == RoundOver /\ (Single \/ least >= MinMs \/ AtCap(kind, iters))

Decide ==
    /\ pc = "measure"
    /\ \/ /\ Enough
          /\ pc' = "print"
       \/ /\ ~Enough /\ RoundOver
          /\ pc' = "double"
    /\ UNCHANGED <<kind, enabled, iterations, iters, next, least, results,
                   rows, err>>

\* Mutant: the doubling is lost.
SameCount(n) == n
NextCount(n) == n * 2

\* `iterations *= 2` in an int, and the start of the next round.
Double ==
    /\ pc = "double"
    /\ iters' = NextCount(iters)
    /\ next' = 1
    /\ least' = Huge
    /\ pc' = "measure"
    /\ UNCHANGED <<kind, enabled, iterations, results, rows, err>>

\* One row for every enabled entry.
PrintRows ==
    /\ pc = "print"
    /\ rows' = [i \in enabled |-> results[i]]
    /\ pc' = "returned"
    /\ UNCHANGED <<kind, enabled, iterations, iters, next, least, results,
                   err>>

Step == Skip \/ MeasureOk \/ MeasureFails \/ Decide \/ Double \/ PrintRows

Spec == Init /\ [][Step]_vars

\* The host thread keeps running; a measurement always returns (module
\* Measure), and one that is repeated may come back without an error.
FairSpec == Spec /\ WF_vars(Step)

-----------------------------------------------------------------------------
(* Properties.                                                             *)

Result == [iters : 0..IntMax, elapsed : 0..Huge]

\* Every variable keeps its type.
TypeOK ==
    /\ kind \in Kinds
    /\ enabled \in SUBSET (1..M)
    /\ iterations \in 0..IntMax
    /\ pc \in {"measure", "double", "print", "returned"}
    /\ iters \in 1..IntMax
    /\ next \in 1..(M + 1)
    /\ least \in 0..Huge
    /\ results \in [1..M -> Result]
    /\ err \in Errs \cup {0}

\* Whatever the start value in the table, `iterations *= 2` never leaves the
\* range of an int.
NoOverflow == pc = "double" => iters <= IntMax - iters

\* A failed call prints nothing, a successful one a row for every enabled
\* scenario, all from one round with one iteration count - the one of
\* --iterations for the loops that obey it: the scenarios of the int8 group are
\* comparable, and no row shows the leftover of an earlier, shorter round.
RowsOfOneRound ==
    pc = "returned" =>
        /\ DOMAIN rows = (IF err = 0 THEN enabled ELSE {})
        /\ \A i \in DOMAIN rows :
              /\ rows[i].iters = iters
              /\ kind \in Counted /\ iterations > 0 => iters = iterations

\* Every printed row is of a measurement that took min_ms, unless the count was
\* given, the scenario is a probe, which is measured once (ops_per_repeat 0), or
\* the loop is at its cap.
RowsLongEnough ==
    pc = "returned" /\ ~Single /\ ~AtCap(kind, iters) =>
        \A i \in DOMAIN rows : rows[i].elapsed >= MinMs

\* The inductive invariant: what the round has measured so far is of this
\* round and bounds `least`, a count is only doubled below the cap, and the
\* rows are those of a complete, accepted round.
RoundSoFar ==
    pc \in {"measure", "double", "print"} =>
        /\ err = 0 /\ rows = [i \in {} |-> NoResult]
        /\ \A i \in enabled :
              i < next => results[i].iters = iters /\ least <= results[i].elapsed

CountKept ==
    /\ kind \in Counted /\ iterations > 0 => iters = iterations
    /\ pc = "double" => RoundOver /\ ~Enough
    /\ pc = "print" => Enough

Printed ==
    pc = "returned" =>
        IF err = 0
        THEN /\ rows = [i \in enabled |-> results[i]] /\ Enough
             /\ \A i \in enabled :
                   results[i].iters = iters /\ least <= results[i].elapsed
        ELSE rows = [i \in {} |-> NoResult]

IInv == TypeOK /\ RoundSoFar /\ CountKept /\ Printed

\* The loop ends, however fast the DSP is: the caps stop it.
Terminates == <>(pc = "returned")
=============================================================================
