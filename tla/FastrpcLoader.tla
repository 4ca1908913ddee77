---------------------------- MODULE FastrpcLoader ----------------------------
(***************************************************************************)
(* The Windows FastRPC loader (src/host/fastrpc_windows.c): every rpcmem_  *)
(* and remote_ function goes through ensure_cdsprpc_loaded, which finds    *)
(* and binds libcdsprpc.dll on the first call.  It takes no lock; what     *)
(* calls it is the host (src/host/cdsp_peak.c): main alone until the       *)
(* workers are created, then the workers, then main again.                 *)
(*                                                                         *)
(* The environment, the service manager, LoadLibraryW, GetProcAddress and  *)
(* the functions of the DLL are external.                                  *)
(***************************************************************************)
EXTENDS Integers, Sequences, FiniteSets

CONSTANTS
    Main, Workers,   \* the threads
    Dlls,            \* export sets that a DLL found anywhere may have
    WorkerCalls      \* bound of the model: remote calls of one worker

Threads == Workers \union {Main}

\* Where the DLL is looked for, in order.
Sources == << "CDSPRPC_DLL", "qcnspmcdm", "qcadsprpc", "libcdsprpc.dll" >>
Services == {"qcnspmcdm", "qcadsprpc"}

\* The symbols in the order they are bound; rpcmem_alloc2 may be missing.
Required == << "remote_handle64_open", "remote_handle64_invoke",
    "remote_handle64_close", "remote_handle_control",
    "remote_handle64_control", "remote_session_control", "rpcmem_alloc",
    "rpcmem_free", "rpcmem_to_fd" >>
Optional == "rpcmem_alloc2"
RequiredSet == {Required[n] : n \in 1..Len(Required)}

ASSUME LoaderAssumption ==
    /\ Main \notin Workers
    /\ Dlls \subseteq SUBSET (RequiredSet \union {Optional})
    /\ WorkerCalls \in Nat

Ok == "AEE_SUCCESS"
EFailed == "AEE_EFAILED"
EUnableToLoad == "AEE_EUNABLETOLOAD"

\* load_from_service: what its steps take, in order.
ServiceSteps == << "OpenSCManager", "OpenService", "QuerySize", "LocalAlloc",
                   "QueryServiceConfig", "Path", "LoadLibrary" >>
Takes(n) == IF ServiceSteps[n] \in {"OpenSCManager", "OpenService",
                                     "LocalAlloc"}
            THEN {ServiceSteps[n]} ELSE {}

\* The calls of main, in its order; calls that follow each other to one
\* function count as one.
Script == <<
    "remote_session_control",   \* reset_domain_if_requested
    "remote_handle_control",    \* query_dsp_capability
    "remote_session_control",   \* enable_unsigned_pd
    "remote_handle_control",    \* query_dsp_capability
    "remote_handle64_open",     \* cdsp_peak_open
    "remote_handle64_invoke",   \* cdsp_peak_set_power
    "remote_handle64_invoke",   \* cdsp_peak_get_info
    "remote_handle_control",    \* query_dsp_capability
    "rpcmem_alloc",             \* also those main makes between the workers
    "workers",
    "rpcmem_free", "remote_handle64_close", "exit" >>
AtUnsignedPd == 3
AtWorkers == 10
AtFree == 11
\* The calls that --reset, --unsigned-pd, --power and the scenarios decide
\* about, and those without which main gives up (enable_unsigned_pd only if it
\* is required); it ignores what the others return.
Optionally == {1, AtUnsignedPd, 6, 9}
Needed == {AtUnsignedPd, 5, 6, 7, 9}

VARIABLES
    present,     \* the DLL each source would give, or None
    dll,         \* g_cdsprpc
    initialized, \* of ensure_cdsprpc_loaded
    status,      \* g_init_status
    bound,       \* slots that are not null
    pc, fn,      \* of each thread: where it is, the function it calls
    at,          \* index of the loop of the loader it is in
    step, held,  \* load_from_service: its step, the handles it holds
    seen,        \* the thread's err
    answer,      \* what the last call returned: "ok", "failed"
    mainAt,      \* of main: index into Script
    left,        \* of a worker: calls it has still to make
    \* not in the code
    owned,       \* what the DLL has lent to main: "buffer", "handle"
    loads        \* DLLs loaded
globals == <<dll, initialized, status, bound, loads>>
locals  == <<pc, fn, at, step, held, seen, answer>>
host    == <<mainAt, left, owned>>
vars == <<present, globals, locals, host>>

None == {}   \* no DLL; a DLL without any export cannot be told from it

Init ==
    /\ present \in [1..Len(Sources) -> Dlls \union {None}]
    /\ dll = None /\ initialized = FALSE /\ status = EFailed /\ bound = {}
    /\ pc = [t \in Threads |-> "idle"]
    /\ fn = [t \in Threads |-> "none"]
    /\ at = [t \in Threads |-> 1] /\ step = [t \in Threads |-> 1]
    /\ held = [t \in Threads |-> {}]
    /\ seen = [t \in Threads |-> EFailed]
    /\ answer = [t \in Threads |-> "none"]
    /\ mainAt = 1
    /\ left = [w \in Workers |-> WorkerCalls]
    /\ owned = {} /\ loads = 0

-----------------------------------------------------------------------------
(* The host.                                                               *)

Begin(t, f) ==
    /\ pc[t] = "idle"
    /\ pc' = [pc EXCEPT ![t] = "entered"]
    /\ fn' = [fn EXCEPT ![t] = f]
    /\ UNCHANGED <<present, globals, at, step, held, seen, answer>>

\* An option main was not given, or no scenario with memory.
MainSkips ==
    /\ mainAt \in Optionally /\ pc[Main] = "idle"
    /\ mainAt' = mainAt + 1
    /\ UNCHANGED <<present, globals, locals, left, owned>>

MainCalls ==
    /\ mainAt \notin {AtWorkers, Len(Script)}
    /\ Begin(Main, Script[mainAt])
    /\ UNCHANGED host

\* The cleanup frees and closes what it has.
NextOf(n, owns) ==
    IF n <= AtFree /\ "buffer" \in owns THEN AtFree
    ELSE IF n <= AtFree + 1 /\ "handle" \in owns THEN AtFree + 1
    ELSE Len(Script)

\* main after a call: on to the next one, or to the cleanup.
MainGoesOn ==
    /\ pc[Main] = "returned"
    /\ pc' = [pc EXCEPT ![Main] = "idle"]
    /\ \/ /\ mainAt < AtWorkers
          /\ answer[Main] = "failed" => mainAt \notin Needed \ {AtUnsignedPd}
          /\ mainAt' = mainAt + 1
       \/ /\ mainAt < AtWorkers
          /\ answer[Main] = "failed" /\ mainAt \in Needed
          /\ mainAt' = NextOf(AtFree, owned)
       \/ mainAt > AtWorkers /\ mainAt' = NextOf(mainAt + 1, owned)
    /\ UNCHANGED <<present, globals, fn, at, step, held, seen, answer, left,
                   owned>>

\* Mutant: the workers are created before main's own first calls.
WorkersFirst == mainAt <= AtWorkers
WorkersRun == mainAt = AtWorkers

WorkerCallsRemote(w) ==
    /\ WorkersRun /\ left[w] > 0
    /\ Begin(w, "remote_handle64_invoke")
    /\ UNCHANGED host

WorkerGoesOn(w) ==
    /\ pc[w] = "returned"
    /\ pc' = [pc EXCEPT ![w] = "idle"]
    /\ left' = [left EXCEPT ![w] = @ - 1]
    /\ UNCHANGED <<present, globals, fn, at, step, held, seen, answer, mainAt,
                   owned>>

\* main has joined every worker (Measure).
Joined ==
    /\ mainAt = AtWorkers
    /\ \A w \in Workers : left[w] = 0
    /\ mainAt' = NextOf(AtFree, owned)
    /\ UNCHANGED <<present, globals, locals, left, owned>>

-----------------------------------------------------------------------------
(* ensure_cdsprpc_loaded.                                                  *)

\* Mutant: initialized is never set.
NeverDone == FALSE
AlreadyDone == initialized

Enter(t) ==
    /\ pc[t] = "entered"
    /\ IF AlreadyDone
       THEN /\ pc' = [pc EXCEPT ![t] = "dispatch"]
            /\ seen' = [seen EXCEPT ![t] = status]
            /\ UNCHANGED <<initialized, at>>
       ELSE /\ pc' = [pc EXCEPT ![t] = "source"]
            /\ initialized' = TRUE
            /\ at' = [at EXCEPT ![t] = 1]
            /\ UNCHANGED seen
    /\ UNCHANGED <<present, dll, status, bound, loads, fn, step, held, answer,
                   host>>

\* One source has been tried: bind the DLL it gave, or try the next.
Tried(t, module) ==
    /\ dll' = module
    /\ loads' = IF module = None THEN loads ELSE loads + 1
    /\ IF module # None
       THEN /\ pc' = [pc EXCEPT ![t] = "symbols"]
            /\ at' = [at EXCEPT ![t] = 1]
            /\ UNCHANGED <<status, seen>>
       ELSE IF at[t] < Len(Sources)
       THEN /\ pc' = [pc EXCEPT ![t] = "source"]
            /\ at' = [at EXCEPT ![t] = @ + 1]
            /\ UNCHANGED <<status, seen>>
       ELSE /\ pc' = [pc EXCEPT ![t] = "dispatch"]
            /\ status' = EUnableToLoad
            /\ seen' = [seen EXCEPT ![t] = EUnableToLoad]
            /\ UNCHANGED at

\* load_from_env and LoadLibraryW of the plain name.
TryPath(t) ==
    /\ pc[t] = "source" /\ Sources[at[t]] \notin Services
    /\ Tried(t, present[at[t]])
    /\ UNCHANGED <<present, initialized, bound, fn, step, held, answer, host>>

StartService(t) ==
    /\ pc[t] = "source" /\ Sources[at[t]] \in Services
    /\ pc' = [pc EXCEPT ![t] = "service"]
    /\ step' = [step EXCEPT ![t] = 1]
    /\ held' = [held EXCEPT ![t] = {}]
    /\ UNCHANGED <<present, globals, fn, at, seen, answer, host>>

StepsBefore(n) == n < Len(ServiceSteps)

\* A step of load_from_service before the last succeeds.
ServiceStep(t) ==
    /\ pc[t] = "service" /\ StepsBefore(step[t])
    /\ held' = [held EXCEPT ![t] = @ \union Takes(step[t])]
    /\ step' = [step EXCEPT ![t] = @ + 1]
    /\ UNCHANGED <<present, globals, pc, fn, at, seen, answer, host>>

\* What "out" gives back.
\* Mutant: the handles are given back only after the configuration was read.
ReleasedLate(h) == IF "LocalAlloc" \in h THEN h ELSE {}
Released(h) == h

\* The last step, or a step that fails: out.
ServiceEnds(t) ==
    /\ pc[t] = "service"
    /\ held' = [held EXCEPT ![t] = @ \ Released(@)]
    /\ \/ step[t] = Len(ServiceSteps) /\ Tried(t, present[at[t]])
       \/ Tried(t, None)
    /\ UNCHANGED <<present, initialized, bound, fn, step, answer, host>>

\* LOAD_REQUIRED: one symbol, or the end with the load failed.
\* Mutant: a symbol that is missing is only reported.
Tolerated(symbol) == TRUE
Bindable(symbol) == symbol \in dll

Bind(t) ==
    /\ pc[t] = "symbols" /\ at[t] <= Len(Required)
    /\ LET symbol == Required[at[t]]
       IN  IF Bindable(symbol)
           THEN /\ bound' = bound \union ({symbol} \intersect dll)
                /\ at' = [at EXCEPT ![t] = @ + 1]
                /\ UNCHANGED <<pc, status, seen>>
           ELSE /\ status' = EUnableToLoad
                /\ seen' = [seen EXCEPT ![t] = EUnableToLoad]
                /\ pc' = [pc EXCEPT ![t] = "dispatch"]
                /\ UNCHANGED <<bound, at>>
    /\ UNCHANGED <<present, dll, initialized, loads, fn, step, held, answer,
                   host>>

BindOptional(t) ==
    /\ pc[t] = "symbols" /\ at[t] > Len(Required)
    /\ bound' = bound \union ({Optional} \intersect dll)
    /\ status' = Ok
    /\ seen' = [seen EXCEPT ![t] = Ok]
    /\ pc' = [pc EXCEPT ![t] = "dispatch"]
    /\ UNCHANGED <<present, dll, initialized, loads, fn, at, step, held,
                   answer, host>>

-----------------------------------------------------------------------------
(* The stubs: an error, or the function of the DLL, which may fail too -   *)
(* but not rpcmem_free, which returns nothing, and not                     *)
(* remote_handle64_close, whose answer the cleanup of main ignores.        *)

\* What a successful call of the DLL lends to main or takes back.
Lent(f) ==
    IF f = "rpcmem_alloc" THEN owned \union {"buffer"}
    ELSE IF f = "remote_handle64_open" THEN owned \union {"handle"}
    ELSE IF f = "rpcmem_free" THEN owned \ {"buffer"}
    ELSE IF f = "remote_handle64_close" THEN owned \ {"handle"}
    ELSE owned

Forward(t) ==
    /\ pc[t] = "dispatch" /\ seen[t] = Ok
    /\ pc' = [pc EXCEPT ![t] = "returned"]
    /\ \/ /\ answer' = [answer EXCEPT ![t] = "ok"]
          /\ owned' = Lent(fn[t])
       \/ /\ fn[t] \notin {"rpcmem_free", "remote_handle64_close"}
          /\ answer' = [answer EXCEPT ![t] = "failed"]
          /\ UNCHANGED owned
    /\ UNCHANGED <<present, globals, fn, at, step, held, seen, mainAt, left>>

Fail(t) ==
    /\ pc[t] = "dispatch" /\ seen[t] # Ok
    /\ pc' = [pc EXCEPT ![t] = "returned"]
    /\ answer' = [answer EXCEPT ![t] = "failed"]
    /\ UNCHANGED <<present, globals, fn, at, step, held, seen, host>>

Loader(t) ==
    \/ Enter(t) \/ TryPath(t) \/ StartService(t) \/ ServiceStep(t)
    \/ ServiceEnds(t) \/ Bind(t) \/ BindOptional(t) \/ Forward(t) \/ Fail(t)

Host ==
    \/ MainSkips \/ MainCalls \/ MainGoesOn \/ Joined
    \/ \E w \in Workers : WorkerCallsRemote(w) \/ WorkerGoesOn(w)

Next == Host \/ \E t \in Threads : Loader(t)

\* Every call of Windows returns, and a thread inside the loader is run.
Fairness == \A t \in Threads : WF_vars(Loader(t))
Spec == Init /\ [][Next]_vars
FairSpec == Spec /\ Fairness

-----------------------------------------------------------------------------
Loading(t) == pc[t] \in {"source", "service", "symbols"}
Undecided == ~initialized \/ \E t \in Threads : Loading(t)

GlobalsTyped ==
    /\ present \in [1..Len(Sources) -> Dlls \union {None}]
    /\ dll \in Dlls \union {None}
    /\ initialized \in BOOLEAN
    /\ status \in {Ok, EFailed, EUnableToLoad}
    /\ bound \subseteq RequiredSet \union {Optional}
    /\ loads \in Nat

LocalsTyped ==
    /\ pc \in [Threads -> {"idle", "entered", "source", "service", "symbols",
                          "dispatch", "returned"}]
    /\ fn \in [Threads -> RequiredSet \union {"none"}]
    /\ at \in [Threads -> 1..(Len(Required) + 1)]
    /\ step \in [Threads -> 1..Len(ServiceSteps)]
    /\ held \in [Threads -> SUBSET {"OpenSCManager", "OpenService", "LocalAlloc"}]
    /\ seen \in [Threads -> {Ok, EFailed, EUnableToLoad}]
    /\ answer \in [Threads -> {"none", "ok", "failed"}]

HostTyped ==
    /\ mainAt \in 1..Len(Script)
    /\ left \in [Workers -> 0..WorkerCalls]
    /\ owned \subseteq {"buffer", "handle"}

TypeOK == GlobalsTyped /\ LocalsTyped /\ HostTyped

\* A call is only forwarded through a slot that is bound: g_init_status is
\* AEE_SUCCESS for nobody before the last symbol is (fastrpc_windows.c:235 ff.).
BoundCalls ==
    \A t \in Threads :
        pc[t] = "dispatch" /\ seen[t] = Ok => fn[t] \in bound

\* Whichever step of it failed, load_from_service keeps no handle of the
\* service manager and no memory (fastrpc_windows.c:154).
HandlesClosed == \A t \in Threads : pc[t] # "service" => held[t] = {}

\* One DLL is loaded at most, also when it turns out to lack a symbol.
LoadedOnce == loads <= 1

\* When main ends, every buffer was freed and every handle closed: rpcmem_free
\* and remote_handle64_close, which do nothing when the load has failed, find
\* the verdict that rpcmem_alloc and remote_handle64_open found.
NothingLost == mainAt = Len(Script) => owned = {}

\* The inductive invariant: only main loads, and before there are workers; who
\* has been told anything has been told the final status; the slots bound so
\* far; the DLLs loaded so far; and what main has still to give back.
MainAlone ==
    /\ \A w \in Workers : pc[w] # "idle" =>
          /\ mainAt = AtWorkers /\ left[w] > 0
          /\ fn[w] = "remote_handle64_invoke"
    /\ mainAt = AtWorkers => pc[Main] = "idle"
    /\ \A t \in Threads :
          Loading(t) => t = Main /\ mainAt \in {1, 2} /\ initialized
    /\ mainAt \notin {1, 2} => initialized
    /\ pc[Main] # "idle" => fn[Main] = Script[mainAt] /\ mainAt # Len(Script)

ToldTheSame ==
    /\ ~Undecided => status \in {Ok, EUnableToLoad}
    /\ \A t \in Threads : pc[t] \in {"dispatch", "returned"} =>
          ~Undecided /\ seen[t] = status

SlotsBound ==
    /\ pc[Main] = "symbols" =>
          \A n \in 1..(at[Main] - 1) : Required[n] \in bound
    /\ status = Ok => RequiredSet \subseteq bound

LoadsSoFar ==
    /\ loads \in {0, 1}
    /\ ~initialized => loads = 0
    /\ \A t \in Threads :
          pc[t] \in {"source", "service"} => loads = 0 /\ at[t] <= Len(Sources)

GivenBack ==
    /\ owned # {} => ~Undecided /\ status = Ok
    /\ mainAt = AtFree /\ pc[Main] = "returned" => "buffer" \notin owned
    /\ mainAt = AtFree + 1 =>
          /\ "buffer" \notin owned
          /\ pc[Main] = "returned" => owned = {}
    /\ mainAt = Len(Script) => owned = {}

IInv == /\ TypeOK /\ MainAlone /\ ToldTheSame /\ SlotsBound /\ LoadsSoFar
        /\ HandlesClosed /\ GivenBack

\* Every call of every thread is told the one verdict of the load, though the
\* loader marks itself initialized before it has loaded anything, takes no
\* lock, and AEE_EFAILED stands in its status until the end: main is alone
\* when it makes the first call (fastrpc_windows.c:180).  Every call returns.
Told(t) ==
    IF pc[t] = "idle" THEN "idle"
    ELSE IF pc[t] = "returned" THEN seen[t] ELSE "waiting"
Abstract == INSTANCE OneVerdict WITH
    Callers  <- Threads,
    Verdicts <- {Ok, EUnableToLoad},
    verdict  <- IF Undecided THEN "none" ELSE status,
    call     <- [t \in Threads |-> Told(t)]
ImplementsOneVerdict == Abstract!FairSpec
=============================================================================
