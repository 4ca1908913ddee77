-------------------------------- MODULE Host --------------------------------
(***************************************************************************)
(* main of src/host/cdsp_peak.c: the life of one benchmark process, from   *)
(* the parsed options to the exit code, with every early return and every  *)
(* `goto out`.  FastRPC, rpcmem and malloc are external and may fail at    *)
(* each call; a scenario is one step here (modules Calibrate, Measure and  *)
(* HmxSession are its inside).                                             *)
(***************************************************************************)
EXTENDS Scenarios, PowerVote

CONSTANTS
    Options,    \* the option values parse_options can leave; see OptionsAssumption
    Devices,    \* the DSPs: [arch, hvx64, hvx128]
    MaxThreads, \* MAX_THREADS
    IntMax,     \* INT32_MAX, scaled down; a uint32_t goes to 2 * IntMax + 1
    Errs        \* errors of the external calls

\* --scenario, --unsigned-pd, --power, --threads (0 is not given), whether
\* --size-mib fits an INT32, and whether CDSP_PEAK_URI is set.
ASSUME OptionsAssumption ==
    /\ MaxThreads \in 1..IntMax /\ IntMax \in Nat
    /\ \A o \in Options :
          /\ o.pd \in {"off", "required", "optional"}
          /\ o.power \in {"none", "max"}
          /\ o.threads \in Int
          /\ o.fits \in BOOLEAN
          /\ o.uri \in {"default", "custom"}
          /\ DOMAIN o = {"filter", "pd", "power", "threads", "fits", "uri"}
ASSUME DevicesAssumption ==
    Devices \subseteq [arch : Nat, hvx64 : 0..(2 * IntMax + 1),
                        hvx128 : 0..(2 * IntMax + 1)]
ASSUME ErrsAssumption == Errs \subseteq Int \ {0}

ENOMEM == -12        \* -ENOMEM
ENOTSUP == -95       \* -ENOTSUP
EFAILED == 1         \* AEE_EFAILED
Built == {68, 69, 73, 75, 79, 81}   \* DSP_ARCHES of the Makefile

VARIABLES
    opt,      \* the parsed options
    dev,      \* the DSP this host talks to
    pc,       \* where main is
    n,        \* the index of the loop main is in
    err,      \* main's err
    archCap,  \* arch_capability
    hvx,      \* hvx_64b and hvx_128b
    threads,  \* opt.threads, resolved
    arch,     \* the arch of cdsp_peak_get_info, 0 until then
    skel,     \* the architecture of the skel the URI names
    own,      \* the pointers and handles main's variables hold
    sized,    \* the sizes the HMX buffers were allocated with
    groups,   \* completed_groups
    banner,   \* power_mask of the banner, once printed
    rows,     \* how often each scenario's row was printed
    exit,     \* the exit code
    \* not in the code: what really is allocated, open and voted for
    live,     \* allocations and open handles
    badFree,  \* something was freed or closed that was not live
    votes     \* votes[i]: the power votes the DSP accepted over handle i
vars == <<opt, dev, pc, n, err, archCap, hvx, threads, arch, skel, own, sized,
          groups, banner, rows, exit, live, badFree, votes>>

caps == <<archCap, hvx, threads, arch, skel>>
report == <<banner, rows, exit>>
ghosts == <<live, badFree, votes>>
config == <<opt, dev>>

Init ==
    /\ opt \in Options
    /\ dev \in Devices
    /\ pc = "check_size" /\ n = 1
    /\ err = 0
    /\ archCap = 68
    /\ hvx = [b64 |-> 0, b128 |-> 0]
    /\ threads = opt.threads
    /\ arch = 0 /\ skel = 0
    /\ own = {} /\ live = {}
    /\ sized = [activation |-> 0, weight |-> 0, output |-> 0]
    /\ groups = {}
    /\ banner = [printed |-> FALSE, mask |-> {}]
    /\ rows = [s \in Names |-> 0]
    /\ exit = -1
    /\ badFree = FALSE
    /\ votes = [i \in 1..MaxThreads |-> {}]

Goto(label) == pc' = label /\ n' = 1
Exit(code) == Goto("exited") /\ exit' = code
Out(e) == Goto("out") /\ err' = e
\* Each of these names is taken: main's variable holds it and it is live.
Take(names) == own' = own \cup names /\ live' = live \cup names

-----------------------------------------------------------------------------
(* Before anything is allocated: returns straight from main.               *)

\* bytes > INT32_MAX is refused with exit code 2.
CheckSize ==
    /\ pc = "check_size"
    /\ \/ opt.fits /\ Goto("unsigned_pd") /\ UNCHANGED exit
       \/ ~opt.fits /\ Exit(2)
    /\ UNCHANGED <<config, err, caps, own, sized, groups, banner, rows, ghosts>>

\* enable_unsigned_pd; a failure is fatal only when the mode is required, and
\* leaves its code in err otherwise.
UnsignedPd ==
    /\ pc = "unsigned_pd"
    /\ \/ /\ opt.pd = "off"
          /\ Goto("capabilities")
          /\ UNCHANGED <<err, exit>>
       \/ /\ opt.pd # "off"
          /\ err' = 0
          /\ Goto("capabilities")
          /\ UNCHANGED exit
       \/ /\ opt.pd # "off"
          /\ \E e \in Errs : err' = e
          /\ IF opt.pd = "required" THEN Exit(1)
                                   ELSE Goto("capabilities") /\ UNCHANGED exit
    /\ UNCHANGED <<config, caps, own, sized, groups, banner, rows, ghosts>>

\* resolve_thread_count; its cast makes the upper half of a uint32_t negative.
AsInt(count) == IF count > IntMax THEN count - 2 * (IntMax + 1) ELSE count
AutoThreads(h) == AsInt(IF h.b128 > 0 THEN h.b128 ELSE h.b64)
Clamp(t) == IF t <= 0 THEN 1 ELSE IF t > MaxThreads THEN MaxThreads ELSE t
ResolveThreads(asked, h) ==
    IF asked > 0 THEN Clamp(asked) ELSE Clamp(AutoThreads(h))

\* Each query_dsp_capability may fail, and then leaves its variable alone.
Capabilities ==
    /\ pc = "capabilities"
    /\ archCap' \in {dev.arch, archCap}
    /\ \E b64 \in {dev.hvx64, hvx.b64}, b128 \in {dev.hvx128, hvx.b128} :
          /\ hvx' = [b64 |-> b64, b128 |-> b128]
          /\ threads' = ResolveThreads(opt.threads, hvx')
    /\ Goto("uri")
    /\ UNCHANGED <<config, err, arch, skel, own, sized, groups, report, ghosts>>

\* normalize_hexagon_arch: decimal as it is, or a low byte in BCD.
NormalizeArch(a) ==
    LET low == a % 256
    IN  CASE a \in 60..99 -> a
          [] a \notin 60..99 /\ low \in 96..153 -> ((low \div 16) * 10) + (low % 16)
          [] OTHER -> a

\* make_uri: the exact skel of the architecture, or whatever CDSP_PEAK_URI
\* names; an architecture without a skel, or no memory, ends main.
MakeUri ==
    /\ pc = "uri"
    /\ \/ /\ opt.uri = "default" /\ NormalizeArch(archCap) \notin Built
          /\ err' = ENOTSUP
          /\ Exit(1)
          /\ UNCHANGED <<own, live, skel>>
       \/ /\ err' = ENOMEM
          /\ Exit(1)
          /\ UNCHANGED <<own, live, skel>>
       \/ /\ opt.uri = "default" => NormalizeArch(archCap) \in Built
          /\ skel' \in IF opt.uri = "default" THEN {NormalizeArch(archCap)}
                                              ELSE Built
          /\ err' = 0
          /\ Take({<<"uri", 0>>})
          /\ Goto("handles")
          /\ UNCHANGED exit
    /\ UNCHANGED <<config, archCap, hvx, threads, arch, sized, groups, banner,
                   rows, badFree, votes>>

-----------------------------------------------------------------------------
(* Handles, power, info.                                                   *)

AllocHandles ==
    /\ pc = "handles"
    /\ \/ Out(ENOMEM) /\ UNCHANGED <<own, live>>
       \/ /\ Take({<<"handles", 0>>})
          /\ Goto("open")
          /\ UNCHANGED err
    /\ UNCHANGED <<config, caps, sized, groups, report, badFree, votes>>

\* cdsp_peak_open of handle n.
Open ==
    /\ pc = "open" /\ n <= threads
    /\ \/ /\ Take({<<"handle", n>>})
          /\ err' = 0
          /\ IF n = threads THEN Goto("power") ELSE n' = n + 1 /\ UNCHANGED pc
       \/ \E e \in Errs : Out(e) /\ UNCHANGED <<own, live>>
    /\ UNCHANGED <<config, caps, sized, groups, report, badFree, votes>>

\* Mutant: a failed power step is reported on stderr only.
StepTolerated(step) == FALSE
StepFails(step) == step # 0

\* apply_power_config, one handle: the call itself may fail, or a step of the
\* votes on the DSP; both end main, and only a complete union is reported.
Power ==
    /\ pc = "power"
    /\ IF opt.power = "none"
       THEN Goto("info") /\ UNCHANGED <<err, banner, votes>>
       ELSE \/ \E e \in Errs : Out(e) /\ UNCHANGED <<banner, votes>>
            \/ \E failing \in 0..Steps(skel), e \in Errs :
                  LET said == PowerReport(failing, skel, e)
                  IN  /\ votes' = [votes EXCEPT ![n] = said.applied]
                      /\ banner' = [banner EXCEPT !.mask = @ \cup said.applied]
                      /\ IF StepFails(said.step)
                         THEN Out(said.error)
                         ELSE /\ err' = 0
                              /\ IF n = threads THEN Goto("info")
                                 ELSE n' = n + 1 /\ UNCHANGED pc
    /\ UNCHANGED <<config, caps, own, sized, groups, rows, exit, live, badFree>>

\* cdsp_peak_get_info over handles[0], and the banner.
Info ==
    /\ pc = "info"
    /\ \/ /\ arch' = skel
          /\ err' = 0
          /\ banner' = [banner EXCEPT !.printed = TRUE]
          /\ Goto(IF NeedMem(opt.filter) THEN "mem_arrays" ELSE "rpc")
       \/ \E e \in Errs : Out(e) /\ UNCHANGED <<arch, banner>>
    /\ UNCHANGED <<config, archCap, hvx, threads, skel, own, sized, groups,
                   rows, exit, ghosts>>

-----------------------------------------------------------------------------
(* Buffers of the memory scenarios: two arrays, two buffers per thread.    *)

AllocMemArrays ==
    /\ pc = "mem_arrays"
    /\ \E got \in SUBSET {<<"srcs", 0>>, <<"dsts", 0>>} :
          /\ Take(got)
          /\ IF Cardinality(got) = 2 THEN Goto("mem_buffers") /\ UNCHANGED err
                                     ELSE Out(ENOMEM)
    /\ UNCHANGED <<config, caps, sized, groups, report, badFree, votes>>

AllocMemBuffers ==
    /\ pc = "mem_buffers"
    /\ \E got \in SUBSET {<<"src", n>>, <<"dst", n>>} :
          /\ Take(got)
          /\ IF Cardinality(got) < 2 THEN Out(ENOMEM)
             ELSE /\ IF n = threads THEN Goto("rpc")
                     ELSE n' = n + 1 /\ UNCHANGED pc
                  /\ UNCHANGED err
    /\ UNCHANGED <<config, caps, sized, groups, report, badFree, votes>>

-----------------------------------------------------------------------------
(* The scenarios, in the order of the tables.                              *)

\* A scenario prints the rows of `names`, each once, and main goes on at label
\* with index next, or it fails, prints nothing, and main ends.
Run(names, label, next) ==
    \/ /\ rows' = [s \in Names |-> IF s \in names THEN rows[s] + 1 ELSE rows[s]]
       /\ err' = 0
       /\ pc' = label /\ n' = next
    \/ \E e \in Errs : Out(e) /\ UNCHANGED rows

RpcNull ==
    /\ pc = "rpc"
    /\ IF ScenarioEnabled(opt.filter, "rpc-null")
       THEN Run({"rpc-null"}, "compute", 1)
       ELSE Goto("compute") /\ UNCHANGED <<err, rows>>
    /\ UNCHANGED <<config, caps, own, sized, groups, banner, exit, ghosts>>

ComputeNames(filter, group) ==
    {name \in {ComputeTable[k].name : k \in {j \in DOMAIN ComputeTable :
                                               ComputeTable[j].group = group}} :
        ScenarioEnabled(filter, name)}

\* Mutant: the group bit is only looked at, never set.
GroupsForgotten(old, group) == old
GroupsAfter(old, group) == old \cup {group}

\* One turn of the compute loop: the first enabled entry of a group runs the
\* whole group, the others of it nothing.
Compute ==
    /\ pc = "compute" /\ n <= Len(ComputeTable)
    /\ LET row == ComputeTable[n]
       IN  IF \/ ~ScenarioEnabled(opt.filter, row.name)
              \/ row.group \in groups
           THEN n' = n + 1 /\ UNCHANGED <<pc, err, rows, groups>>
           ELSE IF row.group # 0
           THEN /\ groups' = GroupsAfter(groups, row.group)
                /\ Run(ComputeNames(opt.filter, row.group), "compute", n + 1)
           ELSE /\ UNCHANGED groups
                /\ Run({row.name}, "compute", n + 1)
    /\ UNCHANGED <<config, caps, own, sized, banner, exit, ghosts>>

HmxNames == {<<"activation", 0>>, <<"weight", 0>>, <<"output", 0>>}

\* Mutant: the buffers are sized by the scenario that comes first.
FirstHmxBuffers(filter, a) ==
    [activation |-> HmxTable[n].activation, weight |-> HmxTable[n].weight,
     output |-> HmxTable[n].output]
BufferSizes(filter, a) == HmxBuffers(filter, a)

\* The first enabled HMX scenario allocates the buffers of all of them.
AllocHmx ==
    /\ pc = "hmx" /\ n <= Len(HmxTable)
    /\ HmxEnabled(opt.filter, HmxTable[n], arch)
    /\ <<"activation", 0>> \notin own
    /\ sized' = BufferSizes(opt.filter, arch)
    /\ \E got \in SUBSET HmxNames :
          /\ Take(got)
          /\ IF got = HmxNames THEN UNCHANGED <<pc, n, err>> ELSE Out(ENOMEM)
    /\ UNCHANGED <<config, caps, groups, report, badFree, votes>>

\* run_hmx_int8 over handles[0]; a mode the skel was not compiled for fails.
Hmx ==
    /\ pc = "hmx" /\ n <= Len(HmxTable)
    /\ LET row == HmxTable[n]
       IN  IF ~HmxEnabled(opt.filter, row, arch)
           THEN n' = n + 1 /\ UNCHANGED <<pc, err, rows>>
           ELSE /\ <<"activation", 0>> \in own
                /\ IF skel >= MinArch(row.mode)
                   THEN Run({row.name}, "hmx", n + 1)
                   ELSE \E e \in Errs : Out(e) /\ UNCHANGED rows
    /\ UNCHANGED <<config, caps, own, sized, groups, banner, exit, ghosts>>

Mem ==
    /\ pc = "mem" /\ n <= Len(MemTable)
    /\ IF ScenarioEnabled(opt.filter, MemTable[n])
       THEN Run({MemTable[n]}, "mem", n + 1)
       ELSE n' = n + 1 /\ UNCHANGED <<pc, err, rows>>
    /\ UNCHANGED <<config, caps, own, sized, groups, banner, exit, ghosts>>

\* The end of a loop over a table.
LoopEnds ==
    /\ \/ pc = "compute" /\ n > Len(ComputeTable) /\ Goto("hmx")
       \/ pc = "hmx" /\ n > Len(HmxTable) /\ Goto("mem")
       \/ pc = "mem" /\ n > Len(MemTable) /\ Goto("out")
    /\ UNCHANGED <<config, err, caps, own, sized, groups, report, ghosts>>

-----------------------------------------------------------------------------
(* out: everything main's variables still hold is given back.              *)

Single == {<<"srcs", 0>>, <<"dsts", 0>>, <<"handles", 0>>, <<"uri", 0>>}
PerThread(what) == {<<what, i>> : i \in 1..threads}

\* Mutant: a failed run leaves its memory buffers to the operating system.
ReleasedIfNoError ==
    own \cap (Single \cup HmxNames \cup PerThread("handle") \cup
              IF err = 0 THEN PerThread("src") \cup PerThread("dst") ELSE {})

Released ==
    own \cap (Single \cup HmxNames \cup PerThread("handle")
              \cup PerThread("src") \cup PerThread("dst"))

\* Mutant: the exit code forgets err.
CodeOk(e) == 0
CodeOf(e) == IF e # 0 THEN 1 ELSE 0

Cleanup ==
    /\ pc = "out"
    /\ live' = live \ Released
    /\ badFree' = (badFree \/ ~(Released \subseteq live))
    /\ own' = {}
    /\ Exit(CodeOf(err))
    /\ UNCHANGED <<config, err, caps, sized, groups, banner, rows, votes>>

Next == \/ CheckSize \/ UnsignedPd \/ Capabilities \/ MakeUri
        \/ AllocHandles \/ Open \/ Power \/ Info
        \/ AllocMemArrays \/ AllocMemBuffers
        \/ RpcNull \/ Compute \/ AllocHmx \/ Hmx \/ Mem \/ LoopEnds
        \/ Cleanup

Spec == Init /\ [][Next]_vars

-----------------------------------------------------------------------------
(* Properties.                                                             *)

\* Whatever failed, and wherever: when main returns, every handle it opened is
\* closed and every allocation freed, each once.
CleanExit == /\ pc = "exited" => live = {}
             /\ ~badFree

\* The exit code is 0 exactly when the report is complete: the banner, and one
\* row of every scenario the filter asks for on this architecture.
Reported == {s \in Names : rows[s] > 0}
Complete == banner.printed = TRUE /\ Reported = Wanted(opt.filter, arch)
ExitTruth == pc = "exited" => (exit = 0 <=> Complete)

\* No scenario is reported twice, although the int8 scenarios are reported as
\* a group out of the table's loop, and none that was not asked for.
RowsOnce == /\ \A s \in Names : rows[s] <= 1
            /\ Reported \subseteq Wanted(opt.filter, arch)

\* The power mask of the banner is what the DSP accepted over every handle,
\* and under --power max that is every vote the skel knows of.
BannerMaskTrue ==
    banner.printed =>
        \A i \in 1..threads :
            /\ votes[i] = banner.mask
            /\ opt.power = "max" =>
                  banner.mask = {Votes[k] : k \in 1..Steps(skel)}

\* A default scenario of the HMX is never refused by the DSP: the buffers are
\* as long as the host says they are and that is long enough for the mode, and
\* under "all" the skel was compiled with its tile (the host's table, its
\* default_min_arch and its one-time allocation against the switch and the #if
\* of the skel).
HmxScenariosFit ==
    pc = "hmx" /\ n <= Len(HmxTable) =>
        LET row == HmxTable[n]
        IN  HmxEnabled(opt.filter, row, arch) =>
                /\ opt.filter = All => MinArch(row.mode) <= skel
                /\ <<"activation", 0>> \in own =>
                      /\ sized.activation >= row.activation
                      /\ sized.weight >= row.weight
                      /\ sized.output >= row.output
                      /\ row.activation >= ActivationLen(row.mode)
                      /\ row.weight >= WeightLen(row.mode)
                      /\ row.output >= WrittenLen(row.mode)

\* Every scenario finds what it dereferences: one open handle per thread, and
\* for a memory scenario both buffers of every thread.
ResourcesForScenarios ==
    /\ pc \in {"rpc", "compute", "hmx", "mem"} => PerThread("handle") \subseteq live
    /\ pc = "mem" /\ n <= Len(MemTable) =>
          \/ ~ScenarioEnabled(opt.filter, MemTable[n])
          \/ PerThread("src") \cup PerThread("dst") \subseteq live

\* README.md: the host selects "only an exactly matching skel architecture".
ExactSkel == skel # 0 /\ opt.uri = "default" => skel = NormalizeArch(dev.arch)

\* usage(): "Default thread count is HVX_SUPPORT_128B, falling back to 1."
DefaultThreads ==
    pc = "uri" /\ opt.threads <= 0 =>
        threads = Clamp(AsInt(hvx.b128))

-----------------------------------------------------------------------------
(* The inductive invariant behind CleanExit, BannerMaskTrue and            *)
(* ResourcesForScenarios, and the one behind HmxScenariosFit.              *)

Early == {"check_size", "unsigned_pd", "capabilities", "uri"}
Running == {"rpc", "compute", "hmx", "mem"}
Opened == Running \cup {"power", "info", "mem_arrays", "mem_buffers"}
Pcs == Early \cup Opened \cup {"handles", "open", "out", "exited"}
VoteNames == {Votes[k] : k \in 1..5}

\* The types of the variables the invariant is about.
TypeInv ==
    /\ opt \in Options /\ dev \in Devices /\ pc \in Pcs
    /\ n \in Nat \ {0}
    /\ hvx \in [b64 : Nat, b128 : Nat]
    /\ pc \notin {"check_size", "unsigned_pd", "capabilities", "exited"} =>
          threads \in 1..MaxThreads
    /\ votes \in [1..MaxThreads -> SUBSET VoteNames]
    /\ banner \in [printed : BOOLEAN, mask : SUBSET VoteNames]

\* What is live is what main's variables hold, all of which `out:` gives back.
OwnInv ==
    /\ live = IF pc = "exited" THEN {} ELSE own
    /\ own \subseteq Single \cup HmxNames \cup PerThread("handle")
                     \cup PerThread("src") \cup PerThread("dst")
    /\ pc \in Early => own = {}
    /\ badFree = FALSE

\* The loops over the threads have taken what lies behind them.
HandleInv ==
    /\ pc \in {"open", "power", "mem_buffers"} => n \in 1..threads
    /\ pc = "open" => \A i \in 1..(n - 1) : <<"handle", i>> \in own
    /\ pc \in Opened => PerThread("handle") \subseteq own
MemInv ==
    /\ pc = "mem_buffers" =>
          \A i \in 1..(n - 1) : <<"src", i>> \in own /\ <<"dst", i>> \in own
    /\ pc \in Running /\ NeedMem(opt.filter) =>
          PerThread("src") \cup PerThread("dst") \subseteq own

\* Before the votes there are none; among them every handle so far has them
\* all; after them each has what the mask says.
AllVotes == {Votes[k] : k \in 1..Steps(skel)}
SameVotes == \A i \in 1..threads :
                /\ votes[i] = banner.mask
                /\ opt.power = "max" => banner.mask = AllVotes
PowerInv ==
    /\ pc \in Early \cup {"handles", "open", "power", "info"} =>
          banner.printed = FALSE
    /\ pc \in Early \cup {"handles", "open"} =>
          banner.mask = {} /\ \A i \in 1..MaxThreads : votes[i] = {}
    /\ pc = "power" =>
          /\ \A i \in 1..(n - 1) : votes[i] = AllVotes
          /\ \A i \in n..MaxThreads : votes[i] = {}
          /\ banner.mask = IF n = 1 THEN {} ELSE AllVotes
          /\ n # 1 => opt.power = "max"
    /\ pc \in Opened \ {"power"} => SameVotes
    /\ banner.printed = TRUE => SameVotes
IInv == TypeInv /\ OwnInv /\ HandleInv /\ MemInv /\ PowerInv

\* A skel that is built was opened, and get_info tells its architecture; the
\* buffers of the HMX scenarios are those of the enabled rows, once they exist.
HmxInv ==
    /\ pc \in Opened \cup {"handles", "open"} => skel \in Built
    /\ pc \in Opened \ {"power", "info"} => arch = skel
    /\ pc \in (Opened \ {"hmx", "mem"}) \cup {"handles", "open"} =>
          <<"activation", 0>> \notin own
    /\ pc = "hmx" /\ <<"activation", 0>> \in own =>
          sized = HmxBuffers(opt.filter, arch)

\* Among the scenarios: what the loops have turned to is reported, once, if it
\* is enabled; a group is reported with the first of it.
One(reported) == IF reported THEN 1 ELSE 0
RowsSoFar ==
    /\ rows["rpc-null"] =
          One(pc # "rpc" /\ ScenarioEnabled(opt.filter, "rpc-null"))
    /\ \A k \in DOMAIN ComputeTable :
          rows[ComputeTable[k].name] =
             One(/\ ScenarioEnabled(opt.filter, ComputeTable[k].name)
                 /\ \/ pc \in {"hmx", "mem"}
                    \/ /\ pc = "compute"
                       /\ k < n \/ ComputeTable[k].group \in groups)
    /\ \A k \in DOMAIN HmxTable :
          rows[HmxTable[k].name] =
             One(/\ HmxEnabled(opt.filter, HmxTable[k], arch)
                 /\ \/ pc = "mem"
                    \/ pc = "hmx" /\ k < n)
    /\ \A k \in DOMAIN MemTable :
          rows[MemTable[k]] =
             One(ScenarioEnabled(opt.filter, MemTable[k]) /\ pc = "mem" /\ k < n)
GroupsSoFar ==
    /\ pc \in Opened \ {"compute", "hmx", "mem"} => groups = {}
    /\ pc = "compute" =>
          /\ 0 \notin groups
          /\ \A k \in DOMAIN ComputeTable :
                /\ k < n /\ ComputeTable[k].group # 0
                /\ ScenarioEnabled(opt.filter, ComputeTable[k].name)
                => ComputeTable[k].group \in groups
RowsInv ==
    /\ rows \in [Names -> Nat]
    /\ pc \in Running => RowsSoFar
    /\ pc \notin Running \cup {"out", "exited"} => \A s \in Names : rows[s] = 0
    /\ pc \in Early \cup {"handles", "open"} => groups = {}
    /\ GroupsSoFar
    /\ RowsOnce

\* Nothing goes on after an error, and an error leaves a wanted row unreported.
ExitInv ==
    /\ pc \in {"mem_arrays", "mem_buffers"} => NeedMem(opt.filter)
    /\ pc \in Opened \ {"power", "info"} => err = 0 /\ banner.printed = TRUE
    /\ pc = "out" => (err = 0 <=> Complete)
    /\ pc = "exited" => (exit = 0 <=> Complete)
=============================================================================
