# A TLA+ verification of cdsp_peak

`cdsp_peak` measures what a Qualcomm compute DSP can do: a host process
(`src/host/cdsp_peak.c`) opens one FastRPC handle per worker thread, runs scenarios
(empty calls, HVX arithmetic, HMX tiles, memory traffic) on the skel in
`src/dsp/`, and prints a row for each. A benchmark is only worth its numbers if
the count is the work that was done, the elapsed time contains it, a failure is
never printed as a result, and the shared resources of the DSP are given back.
These modules state that and check it; all of the safety is also proved, for any
number of threads, sessions and handles, any command line, table and size.

Contents: [inventory](#inventory) - [modules](#modules-and-how-they-correspond-to-the-code) -
[runs and bounds](#runs) - [fairness](#fairness) - [proofs](#proofs) -
[divergences found](#divergences-between-the-code-and-its-documentation) -
[not modelled](#what-is-not-modelled) - [plan](#plan)

## Inventory

| part | state it keeps | operations | talks to |
|---|---|---|---|
| option parsing, sizes and counts (`cdsp_peak.c` 499-622, 1280-1291) | `struct options`, `bytes` | `parse_options` word by word, `parse_int_arg`, clamps, the size check, `resolve_thread_count` | the rest of `main` reads the numbers |
| execution directory and library paths (`cdsp_peak.c` 290-420, `windows_compat.c`) | the two `*_LIBRARY_PATH` variables | `readlink`, strip, look for a skel, `setenv` | FastRPC, which looks for the skel there |
| host process, `main` (`cdsp_peak.c` 1250-1516) | capabilities, handles, buffers, `err`, power mask, groups done | capability queries, unsigned PD, URI, open, power, info, allocation, scenarios in table order, `out:` | everything below |
| scenario tables (125-190, 624-657, 1187-1248) | constant tables | selection by `--scenario` and by architecture; buffer sizes | `main`, calibration; mirrors the switches of the DSP |
| calibration loops (782-968, 992-1033, 1158-1185) | iteration count (an `int`), results of a round | measure, compare with `--min-ms`, double, print | a measurement |
| measurement (691-780, 804-866, 1066-1156) | argument and thread arrays, `created`, `err`, start and stop time | allocate, create, join, collect, free | worker threads through the argument array; the DSP |
| HMX benchmark (`cdsp_peak_hmx.c`) | `struct hmx_resource`, VTCM blocks | validate, nine acquisition steps, probe, stage, tile loop, unwind | the DSP's resource manager, shared with every other session |
| power votes (`cdsp_peak_power.c`) | none; the DSP keeps the votes | up to five HAP requests in order | `apply_power_config` of the host |
| open, info and HVX compute (`cdsp_peak_imp.c`) | `g_state.timer_overhead`, one for all handles | open, close, get_info, six kernels | host workers |
| memory benchmarks (`cdsp_peak_imp.c` 470-569, `verify_copy` of the host) | the source and destination buffers | read, write, copy, checksum, verify | `run_mem` round after round |
| Windows FastRPC loader (`fastrpc_windows.c`) | `initialized`, `g_init_status`, the DLL, function pointers | load once from one of four places, bind, forward | every FastRPC call of the host |
| Windows pthread and POSIX shims (`pthread.h`, `windows_compat.*`, `unistd.h`) | one heap struct per new thread | create, join; POSIX names over Win32 ones | measurement; path set-up |
| Android entry, build scripts, IDL | - | - | - |

What is hard here:

- **Interleaving.** Workers write into an array the measuring thread owns and
  frees; `pthread_create` can fail half way through; the clock is read around
  all of it. Several processes compete for the one HMX through `hmx_lock`, which
  has no timeout, while they hold cached VTCM. Benchmarks over all handles read
  one global that every open writes. The loader takes no lock and marks itself
  initialized before it is.
- **Partial failure.** Nearly every call can fail after others succeeded, and
  each place has its own hand-written way back: the nine steps of
  `hmx_resource_acquire`, the votes of `cdsp_peak_set_power`, a scenario in the
  middle of a group, the n-th handle or buffer pair, the steps of
  `load_from_service`, `_beginthreadex` after `malloc`.
- **Boundaries.** Five doubling loops over `int`, each with its own cap and
  comparison; conversions from text to `long` to `int` and to `size_t`; error
  codes squeezed into a byte; VTCM granted unaligned or short; a cycle counter
  and accumulators that wrap; paths around `PATH_MAX`.
- **State that goes stale.** The destination buffer outlives the round and the
  scenario that filled it; capabilities keep their default when a query fails.
- **Tables that must agree**: the host's HMX and compute tables, the DSP's
  switches, the kernel ids both sides define, the `#if`s of the tiles.

What makes each part correct is listed with the runs; `PROJECT.json` ("hazards")
names for each hazard the line where it bites and the property that watches it.

## Modules and how they correspond to the code

```
Startup ------- ExecDir                        options, sizes, library paths
  |  (its numbers are the options of Host)
Host ---------- Scenarios -- HmxModes          main, tables, selection
  |  \--------- PowerVote                      the votes behind --power max
  |  (one scenario is one step of Host)
Calibrate                                      the doubling loops
  |  (one measurement is one step of Calibrate)
Measure ------- MeasureAtomic                  fork/join; what it promises
  |  (one remote call is one external step; threads come from PthreadShim)
HmxSession ---- HmxModes                       the HMX call on the DSP
Skel ---------- HvxKernels                     open, info, compute on the DSP
MemBuffers                                     memory benchmarks and verify_copy
  \------------ AEEStdErr                      the SDK's error codes, for the last three

FastrpcLoader - OneVerdict                     Windows: the DLL under every call
PthreadShim --- PthreadContract                Windows: the threads of Measure
```

**Measure** is one call of `measure_rpc_threads`, `measure_compute_threads` or
`measure_mem_threads`, which share one skeleton. The measuring thread's actions
are its statements: `AllocArgs`, `AllocThreads` (both `calloc`s may fail),
`Start` (`now_ms`, or the inline call for one thread), `SpawnOk`/`SpawnFails`
(one `pthread_create`), `Join` (one `pthread_join`, of those *created*), `Stop`
(`now_ms`, the count), `Collect` (the fold in index order, both `free`s,
`return`). A worker alternates `Invoke` with the answer of its remote call:
`RpcReturn` (a loop of `calls` calls, ended by the first failure), `BenchReturn`
(one call that does all the work) or `CopyReturn` (the same, then
`verify_copy`). `args[t]` is the worker's struct. `Tick` advances the clock. The
ghosts `done` and `span` record what the DSP really did and when. Memory
contents are reduced to the verdict of `verify_copy`, the checksum fold
to the sequence it folds.

**MeasureAtomic** is what a measurement promises: each worker's benchmark is
answered at most once, then one report is given that is a function of the
answers alone - the error of the lowest-numbered failing worker, or all the work
and the slowest worker's cycles - and nobody answers after it.

**Calibrate** is any of the five loops around a measurement. `next` walks the
scenario table (`Skip`, `MeasureOk`, `MeasureFails`), `Decide` is the exit
condition, `Double` is `iterations *= 2`, `PrintRows` the output. The loops that
measure one scenario are the case of one enabled entry; the probes of the HMX
table (`ops_per_repeat` 0) measure once.

**Scenarios** and **HmxModes** hold the tables: scenarios on the host, and on
the DSP what each mode of `cdsp_peak_bench_hmx_int8` stages, requires, reads,
writes, and from which architecture on it is compiled. The extent of one tile
store is what the tile functions themselves assume when they place the next one.

**HmxSession** is `cdsp_peak_bench_hmx_int8`, run by several sessions. `Call` is
the validation; `Prepare` (steps 0-4, local), `Acquire` (5), `AcquireCached` (6),
`GetPointer` (7), `Lock`/`LockFails` (8) are `hmx_resource_acquire`; then
`Probe`, or `Stage`, `Tile` (one repeat) and `Deliver`; `Unlock`,
`ReleaseCached`, `Release` are `hmx_resource_release`, which the error paths of
steps 6 and 7 write out in the same order. `res[c]` is the session's struct,
`held[c]` what the manager lent it: the release goes by the first, the
properties are about the second. The manager is external: one HMX, `CacheSlots`
cached contexts, any error anywhere. Its release calls, whose results the code
ignores, are taken to succeed.

**PowerVote** is `cdsp_peak_set_power`: the votes in order, the first failing one
ends it. **Host** is `main` with the options parsed: one action per step up to
the banner, one per turn of a scenario loop, and `Cleanup` for `out:`. `own` is
what `main`'s variables hold, `live` (a ghost) what is really allocated or open,
`votes` (a ghost) what the DSP accepted, `rows` how often each row was printed.

**Startup** is what `main` does before that, from `argv` to the numbers a run
uses: `TakeValue` (an option and its word: converted, stored or refused),
`Reset` (the one option without a value), `Usage` (help, an unknown word, an
option without its value), `Clamp` (the end of `parse_options`), `SetPaths`,
`CheckSize`, `Resolve`. A word is its text and the number `strtol` would make of
it; the conversions work on narrower integers than the code, with the same
clamping, negation and wrapping. **ExecDir** holds the operators behind
`SetPaths`: a path is the lengths of its components, which is all that truncation
and buffer sizes can tell apart. Both `readlink`s - the system's, which cuts, and
`cdsp_peak_readlink`, which refuses - are taken.

**HvxKernels** holds `compute_scenarios`, the kernel ids of host and skel and the
six kernels: what one iteration adds to each of the eight accumulators and how
many operations its instructions perform. **Skel** runs them over the handles of
one process: `Open`/`OpenFails`, `GetInfo` (the banner), `Round` (a worker for
each handle), `Begin`, `End` and `Refuse` of a benchmark, `Close`, and `Tick` for
the cycle counter. `Open` measures and overwrites the one `timer_overhead`; `End`
reads it.

**MemBuffers** keeps both buffers byte by byte over a whole run: `NextScenario`,
`Read`, `Write`, `Copy` (the benchmarks with their checksums), `Refused`,
`Verify` (`verify_copy` at its strided probes) and `RoundEnds` (next scenario, or
the same with twice the repeats). After `Write` and `Copy` FastRPC delivers the
destination to the host, or silently does not.

**FastrpcLoader** is one process on Windows: `main` makes its calls in order
(`MainSkips` for what an option leaves out, `MainCalls`, `MainGoesOn`), the workers theirs (`WorkerCallsRemote`,
`WorkerGoesOn`, `Joined`); inside, each thread runs the loader: `Enter`
(`ensure_cdsprpc_loaded`), `TryPath`, `StartService`, `ServiceStep`,
`ServiceEnds` (`load_from_service` with its one exit), `Bind` per symbol,
`BindOptional`, and the stub's `Forward` or `Fail`. **OneVerdict** is what it
promises: the first call decides, every call is told the same.

**PthreadShim** is `pthread.h` under the create loop and the join loop of a
measurement: `Allocate`/`NoMemory`, `Begin`/`BeginFails`, `Undo`, `Created`,
`AllCreated`, then `Wait`, `Close`, `Leave`; and the trampoline of each thread:
`Copy`, `FreeStart`, `RunRoutine`. `heap` says which struct is at an address;
freed addresses are handed out again. **PthreadContract** is what `Measure`
takes `pthread_create` and `pthread_join` to do.

The `MC*` modules only give constants their values; the `*Proofs` modules hold the
proofs.

## Runs

`CHECK_DEADLOCK FALSE` in all of them: a measurement, a loop, a call and the
process end, and stay ended. Each property of a passing run has a mutant in
`PROJECT.json` - the small mistake in the code it is there to catch - under
which it is violated.

| run | instance | what it shows |
|---|---|---|
| `measure` | 3 workers, 2 units each, 5 benchmarks, 2 errors, clock to 1 | `NoUseAfterFree`, `ReturnsQuiescent`: the error path after a failed `pthread_create` joins those created before it frees. `CountIsWorkDone`: a success means every worker did every unit. `ElapsedCoversWork`. `Returns` under fairness. `ImplementsAtomic`: the report does not depend on the order the workers ended in |
| `measure_inline` | 1 worker, 3 units, clock to 3 | the inline path keeps the same promise; the rpc loop can fail after one or two calls |
| `hmx_session` | 2 sessions, 2 cache slots, v68: one with all modes and an unknown one, full and short buffers, 0 and 2 repeats; one competing | `HmxExclusive`, `NoLeakOnReturn`, `ProbeTruth`, `DiagnosisFaithful`, `SuccessMeansDone`, `FootprintFits`; `CallReturns`: waiting for the HMX ends because every path unlocks |
| `calibrate` | 3 table entries, start values 10000, 1 and 400000000, `--iterations` 0, 1, 2^31-1 | `NoOverflow`, `RowsOfOneRound`, `RowsLongEnough` (given counts, probes and the cap apart), `Terminates` |
| `host` | 30 combinations of options over 5 filters, 4 DSPs, 2 threads at most | `CleanExit`, `ExitTruth`, `RowsOnce`, `BannerMaskTrue`, `HmxScenariosFit`, `ResourcesForScenarios` |
| `host_skel`, `host_threads` | one filter | violated: see below |
| `startup` | every command line of up to 4 words over the numeric options and up to 3 over all; 6-bit ints, 8-bit longs and sizes; paths around `PATH_MAX` | `CountsAsAsked`: the last count given is used, whatever stood before. `RunUsable`: whatever is accepted leaves numbers in the ranges the host counts on. `OwnDirectoryIsUsed`: a truncated path never points FastRPC to a directory further up |
| `skel` | 2 handles, all six scenarios, a 5-valued counter, words modulo 1000 | `BannerOverheadUsed`: no row is net of another overhead than the banner's. `ElapsedSound`, `OpsAreWhatRan`, `Int8FormsAgree` |
| `mem_buffers` | every subset of the memory scenarios, 0 to 4 vectors, 5 doublings | `ChecksumOfRow`: a checksum does not depend on what ran before on the same buffers. `CopyVerdictTrue`: what `verify_copy` sees |
| `fastrpc_loader` | main and 2 workers, 2 calls each, a DLL with or without the optional export or lacking one, in any of four places | `BoundCalls`, `HandlesClosed`, `NothingLost`, `ImplementsOneVerdict` |
| `pthread_shim` | 3 workers, 2 addresses, errno set or not | `StructIsMine`, `NothingLeft`, `ImplementsContract` |

Why the bounds are enough:

- *Workers* (`N` = 3 in `Measure` and `PthreadShim`). With three there is a first,
  a middle and a last worker, so a failed creation can leave none, some or almost
  all running, and the failing worker with the lowest number need not be the
  first or the last to end. Fewer addresses than workers make `malloc` return a
  freed one. The invariants are proved for every `N`.
- *Units* (`Per` = 2 or 3). A call can fail first, in the middle or last.
- *Clock* (`MaxClock`). With 1, the tick falls before, between or after start,
  work and stop, which is all `ElapsedCoversWork` compares; the proof has no bound.
- *Sessions* (2). One holds the HMX while the other waits or is elsewhere. Only
  one of them walks through all modes, lengths and grants, since what a call tells
  its caller is about that call alone. `MaxCalls` is 1: that a session comes back
  with a clean struct is `NoLeakOnReturn` and the proof, for any number of calls.
- *Errors.* The encoding looks at the low byte: 14, 256 (low byte 0) and -1.
- *Counts* (`Calibrate`) are not scaled down: the caps and the start values are
  those of the code, because doubling makes few states. 400000000 is a start
  that reaches the region between the cap and the limit of `int`. Elapsed times
  are below, at and above `--min-ms`.
- *DSPs* (`Host`). ARCH_VER decimal (73), in BCD (0x68, 0x81), and one without a
  skel (70); HVX counts that fall back, are clamped, are both 0, and are beyond an
  `int` (whose greatest value is 127 here).
- *Options* (`Host`). Filters, power and URI are taken in every combination; the
  unsigned-PD mode and the size, which only matter before the first allocation,
  with one filter; the number of threads with two.
- *Threads* (`MaxThreads` = 2 for 256). 9 is above it, as 257 would be.
- *Words* (`Startup`). Two options and their values fit in four words, so that one
  can undo the other and one can stand where a value is expected. The numbers lie
  on both sides of every limit of int, long and size.
- *Counter* (`Skel`). 5 values, and a time to 7: a benchmark can wrap it. An
  overhead of 0 or 2 lies above, at and below what a benchmark takes. Words modulo
  1000: some int8 products wrap at once, some after three iterations.
- *Buffers* (`MemBuffers`). More and fewer bytes than `verify_copy` probes, one and
  several pages, no vector at all; 16 repeats carry the written word from byte to
  byte. As in the code the stride is a prime above every length, so the probed
  indices are distinct.

Bounds that are the model's and not the code's: `MaxClock`, `MaxNow`, `MaxCalls`,
`MaxRepeats`, `WorkerCalls` and the length of the command line.

## Fairness

`Measure.FairSpec`: the scheduler runs the measuring thread and each worker that
can run, and a remote call comes back (with an answer or an error). `Calibrate`:
the one thread keeps running. `HmxSession.FairSpec`: each session's call goes on
when it can. That `hmx_lock` fails is not assumed fair, so a session that waits is
only rescued by the holder's unlock; the order in which waiting sessions are
served is not assumed either, and would not be enough with unboundedly many calls
of the others, which is why the sessions make finitely many.
`FastrpcLoader`: a thread inside the loader is run, and calls of Windows return;
that the host makes another call is not assumed. `PthreadShim`: Windows runs the
measuring thread and every thread that can run. `Host`, `Startup`, `Skel` and
`MemBuffers` state safety only and assume nothing.

## Proofs

Checked by TLAPS, for all values of the constants that meet the assumptions the
modules name (at least one worker and one unit of work; `Ok` is none of the
errors; counts and sizes natural). In each module the invariant is a conjunction
of named parts, with one lemma per action and under it one step per part the
action can disturb. The type invariants are proved there and not run.

**MeasureProofs** proves `Spec => []IInv` (`Invariance`) and from it
`TypeCorrect`, `MemorySafe` (`NoUseAfterFree`), `Quiescent`
(`ReturnsQuiescent`), `CountTrue` (`CountIsWorkDone`) and `ElapsedTrue`
(`ElapsedCoversWork`). None of these four is inductive. That the arrays are freed
safely needs to know which threads exist at each label: with several workers,
exactly those up to `created` were started and those up to `joined` joined
(`ThreadInv`), so when the join loop ends nobody runs. That the count is true
needs what a worker that ended without an error has done (`WorkInv`) and that
`collect` is only reached without an error if all were created (`ThreadInv`,
`CountInv`). That the time covers the work needs every worker's span to lie
between the start time and the clock at every moment (`TimeInv`).

It also proves `Spec => Atomic!Spec` (`Refinement`), so that for
every number of workers the report is a function of the answers alone. The end of
a worker maps to its answer, `Collect` to the report (or to giving up, if not all
threads could be created, as a failed `calloc` does before there are any), and
every other step to a stutter. It rests on the same invariant, which says that at
`Collect` nobody is running.

**HmxSessionProofs** proves `Spec => []IInv` and from it `TypeCorrect`,
`Exclusive` (`HmxExclusive`), `NoLeak` (`NoLeakOnReturn`) and `AlwaysNested`
(`Nested`), for any set of sessions, modes, lengths, repeats, errors and grants.
What was lent is what the struct says, less what the unwinding gave back so far
(`HeldInv`); what the struct says at each label follows from the flags of the
mode (`FlagsInv`); the HMX is lent once (`LockInv`). `FlagsInv` is what
`NoLeakOnReturn` alone does not say: that a call enters a new acquisition with a
clean struct and reaches the tile loop only with all three.

It also proves what one call tells its caller: `Diagnosed`
(`DiagnosisFaithful`), `ProbesTrue` (`ProbeTruth`), `Done` (`SuccessMeansDone`)
and `Footprint` (`FootprintFits`), for any base and size granted. Its invariant
`CallInv` says of each label what the outcome is so far: no fault while working
(`Working`), a fault is in the code that is returned (`Explained`), and output
and return code belong together (`Probed`, `Delivered`), and who works on the
caller's buffers has found them long enough (`Bounded`). The arithmetic of the
layout is split by mode; that the stores of a tile cover exactly what is copied
out is a lemma about intervals.

**CalibrateProofs** proves `TypeCorrect`, `CountNeverOverflows` (`NoOverflow`),
`OneRound` (`RowsOfOneRound`) and `LongEnough` (`RowsLongEnough`) for every table,
start value, given count and `--min-ms`. The invariant says what the results of a
round are while it walks the table (`RoundSoFar`), that a given count is kept, a
count is only doubled after a complete round that was too short, and rows are only
printed after one that was not (`CountKept`), and what was printed (`Printed`).
The cap of each loop leaves room for one more doubling (`CapHolds`).

**HostProofs** proves `Clean` (`CleanExit`), `BannerTrue` (`BannerMaskTrue`),
`Resources` (`ResourcesForScenarios`) and `HmxFit` (`HmxScenariosFit`) for every
filter, DSP and number of threads. `main`'s variables are exactly what is live
until `Cleanup` (`OwnInv`); the loops over handles and buffers have taken what
lies behind them (`HandleInv`, `MemInv`); while the votes are cast, every handle
before the current one has all of them and no later one any (`PowerInv`) - from
the banner alone one could not conclude it. A second invariant (`HmxInv`) carries
from the opening to the scenarios that the architecture of the banner is one a
skel was built for, and that the buffers allocated once are those of the enabled
rows. `OnceEach` (`RowsOnce`) and `ExitTells` (`ExitTruth`) rest on a third:
the rows printed so far are those of the groups that are done and of the current
one up to where the loop stands (`RowsInv`), and `main` only reaches `out:` without
an error when every enabled row has been printed (`ExitInv`).

**PthreadShimProofs** proves `NoStructShared` (`StructIsMine`), `AllGivenBack`
(`NothingLeft`) and `Refinement`: the shim, without its liveness, implements
`PthreadContract`. The invariant says whose each allocated struct is
(`HeapOwned`), and who has been created, told and joined in either loop
(`CreatedSoFar`, `JoinedSoFar`, `ThreadsKnow`).

**FastrpcLoaderProofs** proves `NoNullSlot` (`BoundCalls`), `ServiceClean`
(`HandlesClosed`), `OneDll`, `AllGivenBack` (`NothingLost`) and `Refinement` of
`OneVerdict` without liveness, for any number of workers and calls. All of it
rests on `MainAlone`: only `main` is ever inside the load, and no worker exists
before `main`'s first call returned. Without that order the loader is wrong - the
mutant of `ImplementsOneVerdict` starts the workers first - since `initialized`
is set before `g_init_status` is.

**StartupProofs** proves `LastCountsWin` (`CountsAsAsked`), `NumbersFit`
(`RunUsable`) and `OwnDirectory` (`OwnDirectoryIsUsed`) for every command line,
every width of `int`, `long` and `size_t` the code's conversions are translated
for, every DSP and every place of the executable. Which words of a line are read
as options is a recursive function over the line (`ReadAsOption`); that
`parse_options` stands at one of them, and that its counts are those of the last
ones before it, is `ParseInv`. That a path is either the user's or
the executable's own directory, and that it is the latter when nothing failed
after a complete read, is `PathsInv`.

**SkelProofs** proves about `Skel` `BannerOverhead` (`BannerOverheadUsed`),
`CyclesSound` (`ElapsedSound`), `OpsTrue` (`OpsAreWhatRan`) and `Int8Agree`
(`Int8FormsAgree`), for any number of handles, jobs, and width of the counter and
of a word. A benchmark only runs when all handles are open, so the overhead can
no longer change (`PhaseInv`); it carries the counter value of its start
(`RunInv`), and each result is that of its kernel (`ResultInv`). `Int8Accumulators`
gives the accumulators of both int8 forms after n iterations in closed form,
for every n. About `MemBuffers` it proves `MemRowsComparable` (`ChecksumOfRow`)
and `CopyVerified` (`CopyVerdictTrue`) for every size, scale and number of
rounds. The checksums the benchmarks compute step by step, and the ones a reader
expects, are different sums over the buffer; `EveryIsSum` equates them. The
invariant says that the destination holds words of one value until something is
copied there (`UniformInv`), which is why probes can tell it from the source, and
what a call leaves (`AnswerInv`).

Induction over data is done in these modules, and for the rows of `Host`, without
the library's induction theorems: a recursive function over numbers is shown to
exist and to have its equation, and a claim about all numbers is proved of the
least one for which it would be false (`NatLessThanWellFounded` and `WFMin`, or a
set of numbers that has a least element).

What the proofs assume of the constants: `CommandLineAssumption` (a command line
is a sequence of words), `PathAssumption` (buffers are not empty),
`SkelAssumption` (reading the counter costs less than it takes to wrap),
`ScaleAssumption` (sizes are whole vectors, which `RunUsable` proves of the
startup; a page is whole words, as 4096 is), and the like. `ProbeAssumption` is
the one that is not about a range: among the probes of `verify_copy` two, at the
same byte of their words, differ in the pattern. In the code probes 0 and 4 do:
128 divides every length, so the index of probe 4 is 4 * 2654435761 modulo 128,
a multiple of 4 that 128 does not divide, and 131 is odd. Every run of
`mem_buffers` evaluates it for its sizes.

Only model-checked: the liveness properties (`Returns`, `Terminates`,
`CallReturns`, and the fairness of `OneVerdict` and `PthreadContract`), which the
prover cannot do under fairness, and the two divergences below, which are
counterexamples. Every invariant of a passing run has its theorem.

## Divergences between the code and its documentation

- `host_skel` / `ExactSkel`. `src/README.md:225`: the host uses `ARCH_VER` "to
  select only an exactly matching skel architecture; unsupported intermediate or
  newer architectures fail instead of falling back to a nearby skel". `main`
  starts `arch_capability` at 68 and ignores whether the query succeeded
  (`cdsp_peak.c` 1258, 1321): if it fails on a v73 DSP, the v68 skel is opened.
- `host_threads` / `DefaultThreads`. The usage text (`cdsp_peak.c:504`): "Default
  thread count is HVX_SUPPORT_128B, falling back to 1." `resolve_thread_count`
  falls back to HVX_SUPPORT_64B first (614).

Three things the models show that no document contradicts:

- `--size-mib` is multiplied in `size_t` before it is compared with `INT32_MAX`:
  from 2^44 MiB on the product wraps, and a small length - even 0 - goes on.
  The length is still whole vectors and fits an `int` (`RunUsable`).
- `verify_copy` cannot notice that a copy after the first of a run was lost: the
  destination holds the pattern already. `CopyVerdictTrue` states exactly what
  it does notice.
- `elapsed_cycles` subtracts the overhead only above it, so a benchmark that took
  little more than the overhead reports fewer cycles than one that took as long
  as it. `ElapsedSound` states what holds.

## What is not modelled

- The floating-point values of the kernels, the arithmetic of the HMX tiles,
  vector hashes (taken to be injective), throughput figures and all formatting.
- The fields of the HAP power requests; the votes are modelled by order and
  outcome.
- What the session reset requested with `--reset` does to the DSP; the code ignores
  its result, and it is only a call through the loader here.
- A `remote_handle64_close` that fails inside the DLL: `main` ignores its answer.
- 32-bit addresses in the layout check of the HMX call: VTCM is taken to lie below
  the point where its sums could wrap.
- Null pointers into `cdsp_peak_bench_hmx_int8` (a null buffer has length 0, which
  is refused) and the `EINVAL` checks of `pthread.h`: the host passes none.
- `rpcmem_alloc2` and `rpcmem_to_fd` of the loader, which are bound and never
  called; `clock_gettime` of the Windows shim, a conversion of the performance
  counter.
- `normalize_hexagon_arch` beyond the values a DSP reports: a low byte that only
  looks like BCD is decoded as if it were (`cdsp_peak.c:277`).
- `android_crt.c`, a start-up shim without state; the IDL, its generated stubs
  and the build scripts.

## Plan

Done, in this order: `MeasureAtomic`, `Measure`, `MeasureProofs`; `HmxModes`,
`HmxSession`, `HmxSessionProofs`; `Calibrate`; `Scenarios`, `PowerVote`, `Host`;
`Skel`, `MemBuffers`, `FastrpcLoader`, `PthreadShim`, `Startup`; the refinement of
`MeasureAtomic`, `CalibrateProofs`, what an HMX call tells its caller,
`HostProofs`, `PthreadShimProofs`, `FastrpcLoaderProofs`; the rows and the exit
code of `Host`, `StartupProofs`, `SkelProofs` with `MemBuffers`.

Left, in order of what they would tell:

1. A composition of `Calibrate` with real measurements instead of atomic ones,
   through `MeasureAtomic`, and of `Measure` over `PthreadShim`.
2. An abstract report - rows, exit code, nothing left - that `Host` implements.
3. An instance of `HmxSession` with second calls after failures, to see with TLC
   what is proved.
