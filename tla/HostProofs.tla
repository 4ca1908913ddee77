----------------------------- MODULE HostProofs -----------------------------
(***************************************************************************)
(* Proofs about Host for every number of threads, every option, DSP and    *)
(* error of an external call: main gives back what it took, the banner's   *)
(* power mask is what the DSP accepted over every handle, every scenario   *)
(* finds its handles and buffers, no row is printed twice and the exit     *)
(* code tells whether the report is complete.                              *)
(***************************************************************************)
EXTENDS Host, FiniteSetTheorems, TLAPS

\* What the assumption on the options says of the fields used here.
LEMMA OptionKinds ==
    ASSUME NEW o \in Options
    PROVE  o.threads \in Int /\ o.power \in {"none", "max"}
BY OptionsAssumption

\* resolve_thread_count always ends between 1 and MAX_THREADS.
LEMMA ThreadsInRange ==
    ASSUME NEW asked \in Int, NEW h \in [b64 : Nat, b128 : Nat]
    PROVE  ResolveThreads(asked, h) \in 1..MaxThreads
BY OptionsAssumption DEF ResolveThreads, Clamp, AutoThreads, AsInt

\* A successful set of votes is complete, a failing one is a part of it.
LEMMA ReportKinds ==
    ASSUME NEW a, NEW e, NEW k \in 0..Steps(a)
    PROVE  /\ PowerReport(k, a, e).applied \subseteq VoteNames
           /\ PowerReport(k, a, e).step = k
           /\ k = 0 => PowerReport(k, a, e).applied
                          = {Votes[j] : j \in 1..Steps(a)}
<1>1. Steps(a) \in {4, 5}
  BY DEF Steps
<1>2. CASE k = 0
  BY <1>1, <1>2 DEF PowerReport, VoteNames
<1>3. CASE k # 0
  BY <1>1, <1>3 DEF PowerReport, VoteNames
<1>4. QED
  BY <1>2, <1>3

\* Of two buffers at least two were obtained: both.
LEMMA TwoOfTwo ==
    ASSUME NEW a, NEW b, a # b, NEW got \in SUBSET {a, b},
           ~(Cardinality(got) < 2)
    PROVE  {a, b} \subseteq got
<1> SUFFICES ASSUME ~({a, b} \subseteq got) PROVE Cardinality(got) < 2
  OBVIOUS
<1>1. got = {} \/ got = {a} \/ got = {b}
  OBVIOUS
<1>2. Cardinality({}) = 0 /\ Cardinality({a}) = 1 /\ Cardinality({b}) = 1
  BY FS_EmptySet, FS_Singleton
<1>3. QED
  BY <1>1, <1>2

\* A step that neither resolves the threads nor asks for the capabilities.
LEMMA TypesKeep ==
    ASSUME TypeInv,
           pc \notin {"check_size", "unsigned_pd", "capabilities", "exited"},
           pc' \in Pcs, n' \in Nat \ {0},
           opt' = opt, dev' = dev, hvx' = hvx, threads' = threads,
           votes' \in [1..MaxThreads -> SUBSET VoteNames],
           banner' \in [printed : BOOLEAN, mask : SUBSET VoteNames]
    PROVE  TypeInv'
<1>1. opt' \in Options /\ dev' \in Devices
  BY DEF TypeInv
<1>2. hvx' \in [b64 : Nat, b128 : Nat] /\ threads' \in 1..MaxThreads
  BY DEF TypeInv
<1>3. QED
  BY <1>1, <1>2 DEF TypeInv

\* The initial states satisfy the invariant.
THEOREM InitInv == Init => IInv
<1> SUFFICES ASSUME Init PROVE IInv
  OBVIOUS
<1>1. TypeInv
  BY DEF Init, TypeInv, Pcs, Early
<1>2. OwnInv
  BY DEF Init, OwnInv, Early
<1>3. HandleInv
  BY DEF Init, HandleInv, Opened, Running
<1>4. MemInv
  BY DEF Init, MemInv, Opened, Running
<1>5. PowerInv
  BY DEF Init, PowerInv, Opened, Running, Early
<1>6. QED
  BY <1>1, <1>2, <1>3, <1>4, <1>5 DEF IInv

\* IInv is kept by CheckSize: bytes against INT32_MAX.
LEMMA CheckSizeStep ==
    ASSUME IInv, CheckSize PROVE IInv'
<1> USE DEF IInv, CheckSize, Goto, Exit, config, caps, report, ghosts
<1>1. TypeInv'
  BY DEF TypeInv, Pcs, Early, Opened, Running
<1>2. OwnInv'
  BY DEF TypeInv, OwnInv, Pcs, Early, Opened, Running, Single, PerThread,
     HmxNames
<1>3. HandleInv'
  BY DEF TypeInv, OwnInv, HandleInv, Pcs, Early, Opened, Running, PerThread
<1>4. MemInv'
  BY DEF TypeInv, OwnInv, MemInv, Pcs, Early, Opened, Running, PerThread
<1>5. PowerInv'
  BY DEF TypeInv, PowerInv, Pcs, Early, Opened, Running, SameVotes, AllVotes
<1>6. QED
  BY <1>1, <1>2, <1>3, <1>4, <1>5

\* IInv is kept by UnsignedPd: enable_unsigned_pd.
LEMMA UnsignedPdStep ==
    ASSUME IInv, UnsignedPd PROVE IInv'
<1> USE DEF IInv, UnsignedPd, Goto, Exit, config, caps, report, ghosts
<1>1. TypeInv'
  BY DEF TypeInv, Pcs, Early, Opened, Running
<1>2. OwnInv'
  BY DEF TypeInv, OwnInv, Pcs, Early, Opened, Running, Single, PerThread,
     HmxNames
<1>3. HandleInv'
  BY DEF TypeInv, OwnInv, HandleInv, Pcs, Early, Opened, Running, PerThread
<1>4. MemInv'
  BY DEF TypeInv, OwnInv, MemInv, Pcs, Early, Opened, Running, PerThread
<1>5. PowerInv'
  BY DEF TypeInv, PowerInv, Pcs, Early, Opened, Running, SameVotes, AllVotes
<1>6. QED
  BY <1>1, <1>2, <1>3, <1>4, <1>5

\* IInv is kept by Capabilities: the queries and resolve_thread_count.
LEMMA CapabilitiesStep ==
    ASSUME IInv, Capabilities PROVE IInv'
<1> USE DEF IInv, Capabilities, Goto, config, report, ghosts
<1>1. TypeInv'
  <2>1. dev.hvx64 \in Nat /\ dev.hvx128 \in Nat
    BY DevicesAssumption DEF TypeInv
  <2>2. hvx' \in [b64 : Nat, b128 : Nat]
    BY <2>1 DEF TypeInv
  <2>3. threads' \in 1..MaxThreads
    BY <2>2, OptionKinds, ThreadsInRange DEF TypeInv
  <2>4. QED
    BY <2>2, <2>3 DEF TypeInv, Pcs, Early
<1>2. OwnInv'
  BY DEF TypeInv, OwnInv, Pcs, Early, Opened, Running, Single, PerThread,
     HmxNames
<1>3. HandleInv'
  BY DEF TypeInv, OwnInv, HandleInv, Pcs, Early, Opened, Running, PerThread
<1>4. MemInv'
  BY DEF TypeInv, OwnInv, MemInv, Pcs, Early, Opened, Running, PerThread
<1>5. PowerInv'
  BY DEF TypeInv, PowerInv, Pcs, Early, Opened, Running, SameVotes, AllVotes
<1>6. QED
  BY <1>1, <1>2, <1>3, <1>4, <1>5

\* IInv is kept by MakeUri: make_uri.
LEMMA MakeUriStep ==
    ASSUME IInv, MakeUri PROVE IInv'
<1> USE DEF IInv, MakeUri, Goto, Exit, Take, config
<1>1. TypeInv'
  BY DEF TypeInv, Pcs, Early, Opened, Running
<1>2. OwnInv'
  BY DEF TypeInv, OwnInv, Pcs, Early, Opened, Running, Single, PerThread,
     HmxNames
<1>3. HandleInv'
  BY DEF TypeInv, OwnInv, HandleInv, Pcs, Early, Opened, Running, PerThread
<1>4. MemInv'
  BY DEF TypeInv, OwnInv, MemInv, Pcs, Early, Opened, Running, PerThread
<1>5. PowerInv'
  BY DEF TypeInv, PowerInv, Pcs, Early, Opened, Running, SameVotes, AllVotes
<1>6. QED
  BY <1>1, <1>2, <1>3, <1>4, <1>5

\* IInv is kept by AllocHandles: calloc of the handles.
LEMMA AllocHandlesStep ==
    ASSUME IInv, AllocHandles PROVE IInv'
<1> USE DEF IInv, AllocHandles, Goto, Out, Take, config, caps, report
<1>1. TypeInv'
  BY DEF TypeInv, Pcs, Early, Opened, Running
<1>2. OwnInv'
  BY DEF TypeInv, OwnInv, Pcs, Early, Opened, Running, Single, PerThread,
     HmxNames
<1>3. HandleInv'
  BY DEF TypeInv, OwnInv, HandleInv, Pcs, Early, Opened, Running, PerThread
<1>4. MemInv'
  BY DEF TypeInv, OwnInv, MemInv, Pcs, Early, Opened, Running, PerThread
<1>5. PowerInv'
  BY DEF TypeInv, PowerInv, Pcs, Early, Opened, Running, SameVotes, AllVotes
<1>6. QED
  BY <1>1, <1>2, <1>3, <1>4, <1>5

\* IInv is kept by Open: cdsp_peak_open of one handle.
LEMMA OpenStep ==
    ASSUME IInv, Open PROVE IInv'
<1> USE DEF IInv, Open, Goto, Out, Take, config, caps, report
<1>1. TypeInv'
  BY DEF TypeInv, Pcs, Early, Opened, Running
<1>2. OwnInv'
  <2>1. <<"handle", n>> \in PerThread("handle")
    BY DEF HandleInv, PerThread
  <2>2. /\ \/ /\ own' = own \cup {<<"handle", n>>}
              /\ live' = live \cup {<<"handle", n>>}
           \/ own' = own /\ live' = live
        /\ pc' \notin Early \cup {"exited"} /\ threads' = threads
        /\ badFree' = badFree
    BY DEF TypeInv, Pcs, Early, Opened, Running
  <2>3. pc # "exited"
    OBVIOUS
  <2> HIDE DEF IInv, Open
  <2>4. QED
    BY <2>1, <2>2, <2>3 DEF OwnInv, PerThread, IInv
<1>3. HandleInv'
  BY DEF TypeInv, OwnInv, HandleInv, Pcs, Early, Opened, Running, PerThread
<1>4. MemInv'
  BY DEF TypeInv, OwnInv, MemInv, Pcs, Early, Opened, Running, PerThread
<1>5. PowerInv'
  BY DEF TypeInv, PowerInv, Pcs, Early, Opened, Running, SameVotes, AllVotes
<1>6. QED
  BY <1>1, <1>2, <1>3, <1>4, <1>5

\* IInv is kept by Info: cdsp_peak_get_info and the banner.
LEMMA InfoStep ==
    ASSUME IInv, Info PROVE IInv'
<1> USE DEF IInv, Info, Goto, Out, config, ghosts
<1>1. TypeInv'
  <2>1. [banner EXCEPT !.printed = TRUE]
            \in [printed : BOOLEAN, mask : SUBSET VoteNames]
    BY DEF TypeInv
  <2>2. banner' = banner \/ banner' = [banner EXCEPT !.printed = TRUE]
    OBVIOUS
  <2>3. /\ pc' \in {"out", "mem_arrays", "rpc"} /\ n' = 1
        /\ opt' = opt /\ dev' = dev /\ hvx' = hvx /\ threads' = threads
        /\ votes' = votes /\ pc = "info"
    OBVIOUS
  <2> HIDE DEF IInv, Info, Goto, Out, config, ghosts
  <2>4. TypeInv
    BY DEF IInv
  <2>5. /\ votes' \in [1..MaxThreads -> SUBSET VoteNames]
        /\ banner' \in [printed : BOOLEAN, mask : SUBSET VoteNames]
    BY <2>1, <2>2, <2>3, <2>4 DEF TypeInv
  <2>6. pc' \in Pcs
    BY <2>3 DEF Pcs, Early, Opened, Running
  <2>7. QED
    BY <2>3, <2>4, <2>5, <2>6, TypesKeep
<1>2. OwnInv'
  BY DEF TypeInv, OwnInv, Pcs, Early, Opened, Running, Single, PerThread,
     HmxNames
<1>3. HandleInv'
  BY DEF TypeInv, OwnInv, HandleInv, Pcs, Early, Opened, Running, PerThread
<1>4. MemInv'
  BY DEF TypeInv, OwnInv, MemInv, Pcs, Early, Opened, Running, PerThread
<1>5. PowerInv'
  BY DEF TypeInv, PowerInv, Pcs, Early, Opened, Running, SameVotes, AllVotes
<1>6. QED
  BY <1>1, <1>2, <1>3, <1>4, <1>5

\* IInv is kept by AllocMemArrays: calloc of the buffer pointers.
LEMMA AllocMemArraysStep ==
    ASSUME IInv, AllocMemArrays PROVE IInv'
<1> USE DEF IInv, AllocMemArrays, Goto, Out, Take, config, caps, report
<1>1. TypeInv'
  BY DEF TypeInv, Pcs, Early, Opened, Running
<1>2. OwnInv'
  BY DEF TypeInv, OwnInv, Pcs, Early, Opened, Running, Single, PerThread,
     HmxNames
<1>3. HandleInv'
  BY DEF TypeInv, OwnInv, HandleInv, Pcs, Early, Opened, Running, PerThread
<1>4. MemInv'
  BY DEF TypeInv, OwnInv, MemInv, Pcs, Early, Opened, Running, PerThread
<1>5. PowerInv'
  BY DEF TypeInv, PowerInv, Pcs, Early, Opened, Running, SameVotes, AllVotes
<1>6. QED
  BY <1>1, <1>2, <1>3, <1>4, <1>5

\* IInv is kept by AllocMemBuffers: the two buffers of one thread.
LEMMA AllocMemBuffersStep ==
    ASSUME IInv, AllocMemBuffers PROVE IInv'
<1> USE DEF IInv, AllocMemBuffers, Goto, Out, Take, config, caps, report
<1>1. TypeInv'
  BY DEF TypeInv, Pcs, Early, Opened, Running
<1>2. OwnInv'
  <2>1. /\ <<"src", n>> \in PerThread("src")
        /\ <<"dst", n>> \in PerThread("dst")
    BY DEF HandleInv, PerThread
  <2>2. PICK got \in SUBSET {<<"src", n>>, <<"dst", n>>} : Take(got)
    OBVIOUS
  <2>3. /\ pc' \notin Early \cup {"exited"} /\ threads' = threads
        /\ badFree' = badFree /\ pc # "exited"
    BY DEF TypeInv, Pcs, Early, Opened, Running
  <2> HIDE DEF IInv, AllocMemBuffers
  <2>4. QED
    BY <2>1, <2>2, <2>3 DEF OwnInv, PerThread, IInv
<1>3. HandleInv'
  BY DEF TypeInv, OwnInv, HandleInv, Pcs, Early, Opened, Running, PerThread
<1>4. MemInv'
  <2>1. PICK got \in SUBSET {<<"src", n>>, <<"dst", n>>} :
            /\ Take(got)
            /\ IF Cardinality(got) < 2 THEN Out(ENOMEM)
               ELSE /\ IF n = threads THEN Goto("rpc")
                       ELSE n' = n + 1 /\ UNCHANGED pc
                    /\ UNCHANGED err
    OBVIOUS
  <2>2. CASE Cardinality(got) < 2
    BY <2>1, <2>2 DEF MemInv, Pcs, Early, Opened, Running
  <2>3. CASE ~(Cardinality(got) < 2)
    <3>1. {<<"src", n>>, <<"dst", n>>} \subseteq got
      BY <2>3, <2>1, TwoOfTwo
    <3>2. n \in 1..threads /\ threads \in Nat
      BY DEF HandleInv, TypeInv
    <3>3. own' = own \cup got /\ opt' = opt /\ threads' = threads
      BY <2>1
    <3>4. \A i \in 1..n : <<"src", i>> \in own' /\ <<"dst", i>> \in own'
      <4>1. \A i \in 1..(n - 1) : <<"src", i>> \in own /\ <<"dst", i>> \in own
        BY DEF MemInv
      <4> HIDE DEF IInv, AllocMemBuffers
      <4>2. SUFFICES ASSUME NEW i \in 1..n
                     PROVE  <<"src", i>> \in own' /\ <<"dst", i>> \in own'
        OBVIOUS
      <4>3. CASE i = n
        BY <3>1, <3>3, <4>3
      <4>4. CASE i # n
        <5>1. i \in 1..(n - 1)
          BY <3>2, <4>4
        <5>2. QED
          BY <3>3, <4>1, <5>1
      <4>5. QED
        BY <4>3, <4>4
    <3>5. \/ pc' = "rpc" /\ n = threads
          \/ pc' = "mem_buffers" /\ n' = n + 1
      BY <2>1, <2>3
    <3> HIDE DEF IInv, AllocMemBuffers, Take, Out, Goto
    <3>6. CASE pc' = "rpc" /\ n = threads
      <4>1. PerThread("src")' \cup PerThread("dst")' \subseteq own'
        BY <3>3, <3>4, <3>6 DEF PerThread
      <4>2. QED
        BY <4>1, <3>6 DEF MemInv
    <3>7. CASE pc' = "mem_buffers" /\ n' = n + 1
      BY <3>2, <3>4, <3>7 DEF MemInv, Pcs, Early, Opened, Running
    <3>8. QED
      BY <3>5, <3>6, <3>7
  <2>4. QED
    BY <2>2, <2>3
<1>5. PowerInv'
  BY DEF TypeInv, PowerInv, Pcs, Early, Opened, Running, SameVotes, AllVotes
<1>6. QED
  BY <1>1, <1>2, <1>3, <1>4, <1>5

\* IInv is kept by AllocHmx: the buffers of the HMX scenarios.
LEMMA AllocHmxStep ==
    ASSUME IInv, AllocHmx PROVE IInv'
<1> USE DEF IInv, AllocHmx, Goto, Out, Take, config, caps, report
<1>1. TypeInv'
  BY DEF TypeInv, Pcs, Early, Opened, Running
<1>2. OwnInv'
  BY DEF TypeInv, OwnInv, Pcs, Early, Opened, Running, Single, PerThread,
     HmxNames
<1>3. HandleInv'
  BY DEF TypeInv, OwnInv, HandleInv, Pcs, Early, Opened, Running, PerThread
<1>4. MemInv'
  BY DEF TypeInv, OwnInv, MemInv, Pcs, Early, Opened, Running, PerThread
<1>5. PowerInv'
  BY DEF TypeInv, PowerInv, Pcs, Early, Opened, Running, SameVotes, AllVotes
<1>6. QED
  BY <1>1, <1>2, <1>3, <1>4, <1>5

\* IInv is kept by Cleanup: everything is given back.
LEMMA CleanupStep ==
    ASSUME IInv, Cleanup PROVE IInv'
<1> USE DEF IInv, Cleanup, Goto, Exit, Released, config, caps
<1>1. TypeInv'
  BY DEF TypeInv, Pcs, Early, Opened, Running
<1>2. OwnInv'
  BY DEF TypeInv, OwnInv, Pcs, Early, Opened, Running, Single, PerThread,
     HmxNames
<1>3. HandleInv'
  BY DEF TypeInv, OwnInv, HandleInv, Pcs, Early, Opened, Running, PerThread
<1>4. MemInv'
  BY DEF TypeInv, OwnInv, MemInv, Pcs, Early, Opened, Running, PerThread
<1>5. PowerInv'
  BY DEF TypeInv, PowerInv, Pcs, Early, Opened, Running, SameVotes, AllVotes
<1>6. QED
  BY <1>1, <1>2, <1>3, <1>4, <1>5

\* IInv is kept by Power: the votes of one handle.
LEMMA PowerStep ==
    ASSUME IInv, Power PROVE IInv'
<1> USE DEF Goto, Out, config, caps
<1>1. /\ pc = "power" /\ n \in 1..threads /\ threads \in 1..MaxThreads
      /\ banner.printed = FALSE
      /\ banner \in [printed : BOOLEAN, mask : SUBSET VoteNames]
      /\ votes \in [1..MaxThreads -> SUBSET VoteNames]
      /\ PerThread("handle") \subseteq own
  BY DEF IInv, Power, TypeInv, HandleInv, PowerInv, Opened, Running
<1>2. /\ opt' = opt /\ dev' = dev /\ hvx' = hvx /\ threads' = threads
      /\ skel' = skel /\ own' = own /\ live' = live /\ badFree' = badFree
  BY DEF Power
<1>3. CASE /\ opt.power = "none"
           /\ Goto("info") /\ UNCHANGED <<banner, votes>>
  <2>1. TypeInv'
    BY <1>1, <1>2, <1>3, TypesKeep DEF IInv, Pcs, Early, Opened, Running
  <2>2. OwnInv' /\ HandleInv' /\ MemInv'
    BY <1>1, <1>2, <1>3
       DEF IInv, OwnInv, HandleInv, MemInv, PerThread, Pcs, Early, Opened,
       Running
  <2>3. PowerInv'
    <3>1. /\ \A i \in n..MaxThreads : votes[i] = {}
          /\ n = 1 /\ banner.mask = {}
      BY <1>1, <1>3 DEF IInv, PowerInv
    <3>2. \A i \in 1..threads : i \in n..MaxThreads
      BY <1>1, <3>1, OptionsAssumption
    <3>3. SameVotes'
      BY <1>2, <1>3, <3>1, <3>2 DEF SameVotes
    <3>4. QED
      BY <1>1, <1>3, <3>3 DEF PowerInv, Pcs, Early, Opened, Running
  <2>4. QED
    BY <2>1, <2>2, <2>3 DEF IInv
<1>4. CASE pc' = "out" /\ n' = 1 /\ UNCHANGED <<banner, votes>>
  <2>1. TypeInv'
    BY <1>1, <1>2, <1>4, TypesKeep DEF IInv, Pcs, Early, Opened, Running
  <2>2. OwnInv' /\ HandleInv' /\ MemInv'
    BY <1>1, <1>2, <1>4
       DEF IInv, OwnInv, HandleInv, MemInv, PerThread, Pcs, Early, Opened,
       Running
  <2>3. PowerInv'
    BY <1>1, <1>2, <1>4
       DEF IInv, PowerInv, SameVotes, AllVotes, Pcs, Early, Opened, Running
  <2>4. QED
    BY <2>1, <2>2, <2>3 DEF IInv
<1>5. ASSUME opt.power = "max",
             NEW said, said.applied \subseteq VoteNames,
             votes' = [votes EXCEPT ![n] = said.applied],
             banner' = [banner EXCEPT !.mask = @ \cup said.applied],
             \/ pc' = "out" /\ n' = 1
             \/ /\ said.applied = AllVotes
                /\ IF n = threads THEN Goto("info")
                                  ELSE n' = n + 1 /\ UNCHANGED pc
      PROVE  IInv'
  <2>1. /\ banner' \in [printed : BOOLEAN, mask : SUBSET VoteNames]
        /\ banner'.printed = FALSE
        /\ banner'.mask = banner.mask \cup said.applied
    BY <1>1, <1>5
  <2>2. votes' \in [1..MaxThreads -> SUBSET VoteNames]
    BY <1>1, <1>5
  <2>3. TypeInv'
    BY <1>1, <1>2, <1>5, <2>1, <2>2
       DEF IInv, TypeInv, Pcs, Early, Opened, Running
  <2>4. OwnInv' /\ HandleInv' /\ MemInv'
    BY <1>1, <1>2, <1>5
       DEF IInv, OwnInv, HandleInv, MemInv, PerThread, Pcs, Early, Opened,
       Running
  <2>5. PowerInv'
    <3>1. CASE pc' = "out" /\ n' = 1
      BY <2>1, <3>1 DEF PowerInv, Pcs, Early, Opened, Running
    <3>2. CASE /\ said.applied = AllVotes
               /\ IF n = threads THEN Goto("info")
                                 ELSE n' = n + 1 /\ UNCHANGED pc
      <4>1. /\ \A i \in 1..(n - 1) : votes[i] = AllVotes
            /\ \A i \in n..MaxThreads : votes[i] = {}
            /\ banner.mask = IF n = 1 THEN {} ELSE AllVotes
        BY <1>1 DEF IInv, PowerInv
      <4>2. banner'.mask = AllVotes /\ AllVotes' = AllVotes
        BY <1>2, <2>1, <3>2, <4>1 DEF AllVotes
      <4>3. /\ \A i \in 1..n : votes'[i] = AllVotes
            /\ \A i \in (n + 1)..MaxThreads : votes'[i] = {}
        <5>1. n \in 1..MaxThreads /\ MaxThreads \in Nat
          BY <1>1, OptionsAssumption
        <5>2. \A i \in 1..MaxThreads :
                  votes'[i] = IF i = n THEN AllVotes ELSE votes[i]
          BY <1>1, <1>5, <3>2, <5>1
        <5>3. QED
          BY <4>1, <5>1, <5>2
      <4>4. CASE pc' = "info" /\ n = threads
        BY <1>1, <1>2, <2>1, <4>2, <4>3, <4>4
           DEF PowerInv, SameVotes, Pcs, Early, Opened, Running
      <4>5. CASE n' = n + 1 /\ pc' = pc
        BY <1>1, <1>2, <1>5, <2>1, <4>2, <4>3, <4>5
           DEF PowerInv, SameVotes, Pcs, Early, Opened, Running
      <4>6. QED
        BY <3>2, <4>4, <4>5
    <3>3. QED
      BY <1>5, <3>1, <3>2
  <2>6. QED
    BY <2>3, <2>4, <2>5 DEF IInv
<1>6. opt.power \in {"none", "max"}
  BY OptionKinds DEF IInv, TypeInv
<1>7. CASE opt.power = "none"
  BY <1>3, <1>7 DEF Power
<1>8. CASE opt.power = "max"
  <2>1. ASSUME NEW failing \in 0..Steps(skel), NEW e \in Errs,
               votes' = [votes EXCEPT ![n] =
                             PowerReport(failing, skel, e).applied],
               banner' = [banner EXCEPT !.mask =
                             @ \cup PowerReport(failing, skel, e).applied],
               IF StepFails(PowerReport(failing, skel, e).step)
               THEN Out(PowerReport(failing, skel, e).error)
               ELSE /\ err' = 0
                    /\ IF n = threads THEN Goto("info")
                       ELSE n' = n + 1 /\ UNCHANGED pc
        PROVE  IInv'
    <3>1. /\ PowerReport(failing, skel, e).applied \subseteq VoteNames
          /\ PowerReport(failing, skel, e).step = failing
          /\ failing = 0 =>
                PowerReport(failing, skel, e).applied = AllVotes
      BY ReportKinds DEF AllVotes
    <3>2. QED
      BY <1>5, <1>8, <2>1, <3>1 DEF StepFails
  <2>2. ASSUME NEW e \in Errs, Out(e), UNCHANGED <<banner, votes>>
        PROVE  IInv'
    BY <1>4, <2>2
  <2>3. QED
    BY <1>8, <2>1, <2>2 DEF Power
<1>9. QED
  BY <1>6, <1>7, <1>8

\* The scenarios, and the ends of their loops, stay between the first scenario
\* and `out:` and touch nothing the invariant is about.
LEMMA ScenarioStep ==
    ASSUME IInv, RpcNull \/ Compute \/ Hmx \/ Mem \/ LoopEnds PROVE IInv'
<1>1. /\ pc \in Running /\ pc' \in Running \cup {"out"}
      /\ n' \in Nat \ {0}
      /\ UNCHANGED <<opt, dev, hvx, threads, skel, own, live, badFree, votes,
                     banner>>
  <2>1. n \in Nat \ {0}
    BY DEF IInv, TypeInv
  <2>2. CASE RpcNull
    BY <2>1, <2>2 DEF RpcNull, Run, Out, Goto, config, caps, ghosts, Running
  <2>3. CASE Compute
    BY <2>1, <2>3 DEF Compute, Run, Out, Goto, config, caps, ghosts, Running
  <2>4. CASE Hmx
    BY <2>1, <2>4 DEF Hmx, Run, Out, Goto, config, caps, ghosts, Running
  <2>5. CASE Mem
    BY <2>1, <2>5 DEF Mem, Run, Out, Goto, config, caps, ghosts, Running
  <2>6. CASE LoopEnds
    BY <2>6 DEF LoopEnds, Goto, config, caps, report, ghosts, Running
  <2>7. QED
    BY <2>2, <2>3, <2>4, <2>5, <2>6
<1>2. TypeInv'
  BY <1>1 DEF IInv, TypeInv, Pcs, Early, Opened, Running
<1>3. OwnInv' /\ HandleInv' /\ MemInv'
  BY <1>1 DEF IInv, OwnInv, HandleInv, MemInv, PerThread, Pcs, Early, Opened,
     Running
<1>4. PowerInv'
  BY <1>1 DEF IInv, PowerInv, SameVotes, AllVotes, Pcs, Early, Opened, Running
<1>5. QED
  BY <1>2, <1>3, <1>4 DEF IInv

\* IInv is inductive.
THEOREM NextInv == IInv /\ [Next]_vars => IInv'
<1> SUFFICES ASSUME IInv, [Next]_vars PROVE IInv'
  OBVIOUS
<1>1. CASE Next
  BY <1>1, CheckSizeStep, UnsignedPdStep, CapabilitiesStep, MakeUriStep,
     AllocHandlesStep, OpenStep, PowerStep, InfoStep, AllocMemArraysStep,
     AllocMemBuffersStep, AllocHmxStep, ScenarioStep, CleanupStep
     DEF Next
<1>2. CASE UNCHANGED vars
  BY <1>2 DEF vars, IInv, TypeInv, OwnInv, HandleInv, MemInv, PowerInv,
     PerThread, SameVotes, AllVotes
<1>3. QED
  BY <1>1, <1>2

\* Every reachable state satisfies the invariant.
THEOREM Invariance == Spec => []IInv
BY InitInv, NextInv, PTL DEF Spec

\* Whatever fails, and for whatever number of threads, main leaves nothing
\* allocated or open and gives nothing back twice.
THEOREM Clean == Spec => []CleanExit
<1>1. IInv => CleanExit
  BY DEF IInv, OwnInv, CleanExit
<1>2. QED
  BY <1>1, Invariance, PTL

\* A banner that was printed tells the votes of every handle.
THEOREM BannerTrue == Spec => []BannerMaskTrue
<1>1. ASSUME IInv PROVE BannerMaskTrue
  <2> SUFFICES ASSUME banner.printed PROVE SameVotes
    BY DEF BannerMaskTrue, SameVotes, AllVotes
  <2>1. banner.printed = TRUE
    BY <1>1 DEF IInv, TypeInv
  <2>2. QED
    BY <1>1, <2>1 DEF IInv, PowerInv
<1>2. QED
  BY <1>1, Invariance, PTL

\* No scenario dereferences a handle or a buffer that is not there.
THEOREM Resources == Spec => []ResourcesForScenarios
<1>1. ASSUME IInv PROVE ResourcesForScenarios
  <2>1. pc \in Running => live = own
    BY <1>1 DEF IInv, OwnInv, Running
  <2>2. pc \in Running => PerThread("handle") \subseteq live
    BY <1>1, <2>1 DEF IInv, HandleInv, Opened
  <2>3. ASSUME pc = "mem", n <= Len(MemTable),
               ScenarioEnabled(opt.filter, MemTable[n])
        PROVE  PerThread("src") \cup PerThread("dst") \subseteq live
    <3>1. n \in DOMAIN MemTable
      BY <1>1, <2>3 DEF IInv, TypeInv, MemTable
    <3>2. NeedMem(opt.filter)
      BY <2>3, <3>1 DEF NeedMem
    <3>3. QED
      BY <1>1, <2>1, <2>3, <3>2 DEF IInv, MemInv, Running
  <2>4. QED
    BY <2>2, <2>3 DEF ResourcesForScenarios, Running
<1>2. QED
  BY <1>1, Invariance, PTL

-----------------------------------------------------------------------------
(* The HMX scenarios.                                                      *)

\* What the switch of the skel says of each mode.
LEMMA ModeTables ==
    ASSUME NEW m
    PROVE  /\ m = "UB_ADEEP32" =>
                 ActivationLen(m) = DeepTiles * U8 /\ WeightLen(m) = DeepTiles * U8
           /\ m = "FP16_HF_X64" => ActivationLen(m) = U16 /\ WeightLen(m) = U16
           /\ m = "UB_WDEEP_FULL_X64" => ActivationLen(m) = U8 /\ WeightLen(m) = U16
           /\ m \notin {"UB_ADEEP32", "FP16_HF_X64", "UB_WDEEP_FULL_X64"} =>
                 ActivationLen(m) = U8 /\ WeightLen(m) = U8
           /\ m = "UH2X2_FULL_X64" => MinArch(m) = 69
           /\ m = "INT4_WN2X_FULL_X64" => MinArch(m) = 73
           /\ m \notin {"UH2X2_FULL_X64", "INT4_WN2X_FULL_X64"} => MinArch(m) = 0
<1>1. m = "UB_ADEEP32" =>
          ActivationLen(m) = DeepTiles * U8 /\ WeightLen(m) = DeepTiles * U8
  BY Zenon DEF ActivationLen, WeightLen
<1>2. m = "FP16_HF_X64" => ActivationLen(m) = U16 /\ WeightLen(m) = U16
  BY Zenon DEF ActivationLen, WeightLen
<1>3. m = "UB_WDEEP_FULL_X64" => ActivationLen(m) = U8 /\ WeightLen(m) = U16
  BY Zenon DEF ActivationLen, WeightLen
<1>4. m \notin {"UB_ADEEP32", "FP16_HF_X64", "UB_WDEEP_FULL_X64"} =>
          ActivationLen(m) = U8 /\ WeightLen(m) = U8
  BY Zenon DEF ActivationLen, WeightLen
<1>5. /\ m = "UH2X2_FULL_X64" => MinArch(m) = 69
      /\ m = "INT4_WN2X_FULL_X64" => MinArch(m) = 73
      /\ m \notin {"UH2X2_FULL_X64", "INT4_WN2X_FULL_X64"} => MinArch(m) = 0
  BY Zenon DEF MinArch
<1>6. QED
  BY <1>1, <1>2, <1>3, <1>4, <1>5, Zenon

LEMMA OutputTable ==
    ASSUME NEW m
    PROVE  /\ m \in ProbeModes => WrittenLen(m) = 16
           /\ m \in UbModes => WrittenLen(m) = U8
           /\ m = "UH2X2_FULL_X64" => WrittenLen(m) = U16x2x2
           /\ m \notin ProbeModes \cup UbModes \cup {"UH2X2_FULL_X64"} =>
                 WrittenLen(m) = U16
<1>1. /\ ProbeModes \cap UbModes = {}
      /\ "UH2X2_FULL_X64" \notin ProbeModes \cup UbModes
  BY DEF ProbeModes, UbModes
<1>2. m \in ProbeModes => WrittenLen(m) = 16
  BY <1>1, Zenon DEF WrittenLen
<1>3. m \in UbModes => WrittenLen(m) = U8
  BY <1>1, Zenon DEF WrittenLen
<1>4. m = "UH2X2_FULL_X64" => WrittenLen(m) = U16x2x2
  BY <1>1, Zenon DEF WrittenLen
<1>5. m \notin ProbeModes \cup UbModes \cup {"UH2X2_FULL_X64"} =>
          WrittenLen(m) = U16
  BY Zenon DEF WrittenLen
<1>6. QED
  BY <1>2, <1>3, <1>4, <1>5

\* Row by row, the host's table asks for no less than the skel's switch.
Sizes == {16, 1024, 2048, 8192, 32768}
LEMMA RowsCover ==
    ASSUME NEW k \in DOMAIN HmxTable
    PROVE  /\ HmxTable[k].minArch \in Nat
           /\ MinArch(HmxTable[k].mode) <= HmxTable[k].minArch
           /\ HmxTable[k].activation \in Sizes
           /\ HmxTable[k].weight \in Sizes
           /\ HmxTable[k].output \in Sizes
           /\ HmxTable[k].activation >= ActivationLen(HmxTable[k].mode)
           /\ HmxTable[k].weight >= WeightLen(HmxTable[k].mode)
           /\ HmxTable[k].output >= WrittenLen(HmxTable[k].mode)
<1>1. k \in 1..16
  BY DEF HmxTable
<1>2. /\ HmxTable[k].minArch \in Nat
      /\ MinArch(HmxTable[k].mode) <= HmxTable[k].minArch
  BY <1>1, ModeTables DEF HmxTable, HmxRow
<1>3. /\ HmxTable[k].activation \in Sizes
      /\ HmxTable[k].weight \in Sizes
      /\ HmxTable[k].output \in Sizes
  BY <1>1 DEF HmxTable, HmxRow, Sizes, U8, U16, DeepTiles
<1>4. /\ HmxTable[k].activation >= ActivationLen(HmxTable[k].mode)
      /\ HmxTable[k].weight >= WeightLen(HmxTable[k].mode)
  BY <1>1, ModeTables DEF HmxTable, HmxRow, U8, U16, DeepTiles
<1>5. HmxTable[k].output >= WrittenLen(HmxTable[k].mode)
  BY <1>1, OutputTable
     DEF HmxTable, HmxRow, ProbeModes, UbModes, U8, U16, U16x2x2
<1>6. QED
  BY <1>2, <1>3, <1>4, <1>5

\* The largest of some sizes is one of them, and no smaller than any.
LEMMA LargestIs ==
    ASSUME NEW S \in SUBSET Sizes, NEW x \in S
    PROVE  Largest(S) \in S /\ Largest(S) >= x
<1>1. \E y \in S : \A k \in S : k <= y
  BY DEF Sizes
<1>2. S # {} /\ Largest(S) = CHOOSE y \in S : \A k \in S : k <= y
  BY Zenon DEF Largest
<1>3. Largest(S) \in S /\ \A k \in S : k <= Largest(S)
  BY <1>1, <1>2, Zenon
<1>4. QED
  BY <1>3 DEF Sizes

\* The buffers hold what each enabled row asks for.
LEMMA BuffersCover ==
    ASSUME NEW filter, NEW a, NEW k \in DOMAIN HmxTable,
           HmxEnabled(filter, HmxTable[k], a)
    PROVE  /\ HmxBuffers(filter, a).activation >= HmxTable[k].activation
           /\ HmxBuffers(filter, a).weight >= HmxTable[k].weight
           /\ HmxBuffers(filter, a).output >= HmxTable[k].output
<1> DEFINE candidates == EnabledHmx(filter, a)
<1>1. HmxTable[k] \in candidates
  BY DEF EnabledHmx
<1>2. /\ {r.activation : r \in candidates} \subseteq Sizes
      /\ {r.weight : r \in candidates} \subseteq Sizes
      /\ {r.output : r \in candidates} \subseteq Sizes
  BY RowsCover DEF EnabledHmx
<1> HIDE DEF candidates
<1>3. /\ Largest({r.activation : r \in candidates}) >= HmxTable[k].activation
      /\ Largest({r.weight : r \in candidates}) >= HmxTable[k].weight
      /\ Largest({r.output : r \in candidates}) >= HmxTable[k].output
  BY <1>1, <1>2, LargestIs
<1>4. QED
  BY <1>3 DEF HmxBuffers, candidates

\* HmxInv is kept by every step.
THEOREM NextHmxInv == IInv /\ HmxInv /\ [Next]_vars => HmxInv'
<1> SUFFICES ASSUME IInv, HmxInv, [Next]_vars PROVE HmxInv'
  OBVIOUS
<1> USE DEF HmxInv, Pcs, Early, Opened, Running
<1>1. CASE CheckSize \/ UnsignedPd \/ Capabilities
  BY <1>1 DEF CheckSize, UnsignedPd, Capabilities, Goto, Exit
<1>2. CASE MakeUri
  <2>1. \/ pc' = "exited"
        \/ /\ pc' = "handles" /\ skel' \in Built
           /\ own' = own \cup {<<"uri", 0>>}
    BY <1>2 DEF MakeUri, Goto, Exit, Take
  <2>2. own = {}
    BY <1>2 DEF MakeUri, IInv, OwnInv
  <2>3. QED
    BY <2>1, <2>2
<1>3. CASE AllocHandles \/ Open
  BY <1>3 DEF AllocHandles, Open, Goto, Out, Take, caps, config
<1>4. CASE Power
  <2>1. /\ pc = "power" /\ pc' \in {"power", "info", "out"}
        /\ UNCHANGED <<own, skel>>
    BY <1>4 DEF Power, Goto, Out, caps
  <2>2. QED
    BY <2>1
<1>5. CASE Info
  BY <1>5 DEF Info, Goto, Out
<1>6. CASE AllocMemArrays \/ AllocMemBuffers
  <2>1. /\ pc \in {"mem_arrays", "mem_buffers"}
        /\ pc' \in {"mem_buffers", "rpc", "out"}
        /\ UNCHANGED <<skel, arch, opt, sized>>
    BY <1>6 DEF AllocMemArrays, AllocMemBuffers, Goto, Out, caps, config
  <2>2. PICK got \in SUBSET {<<"srcs", 0>>, <<"dsts", 0>>, <<"src", n>>, <<"dst", n>>} :
            own' = own \cup got
    BY <1>6 DEF AllocMemArrays, AllocMemBuffers, Take
  <2>3. QED
    BY <2>1, <2>2
<1>7. CASE AllocHmx
  <2>1. /\ pc = "hmx" /\ pc' \in {"hmx", "out"}
        /\ sized' = HmxBuffers(opt.filter, arch)
        /\ UNCHANGED <<opt, arch, skel>>
    BY <1>7 DEF AllocHmx, BufferSizes, Out, Goto, caps, config
  <2>2. QED
    BY <2>1
<1>8. CASE RpcNull \/ Compute \/ Hmx \/ Mem \/ LoopEnds
  <2>1. /\ pc \in Running /\ pc' \in Running \cup {"out"}
        /\ pc' = "hmx" => pc \in {"hmx", "compute"}
        /\ pc = "hmx" => pc' \in {"hmx", "mem", "out"}
        /\ pc = "mem" => pc' \in {"mem", "out"}
        /\ UNCHANGED <<opt, arch, skel, own, sized>>
    <3>1. CASE RpcNull
      BY <3>1 DEF RpcNull, Run, Out, Goto, config, caps
    <3>2. CASE Compute
      BY <3>2 DEF Compute, Run, Out, Goto, config, caps
    <3>3. CASE Hmx
      BY <3>3 DEF Hmx, Run, Out, Goto, config, caps
    <3>4. CASE Mem
      BY <3>4 DEF Mem, Run, Out, Goto, config, caps
    <3>5. CASE LoopEnds
      BY <3>5 DEF LoopEnds, Goto, config, caps
    <3>6. QED
      BY <1>8, <3>1, <3>2, <3>3, <3>4, <3>5
  <2>2. QED
    BY <2>1
<1>9. CASE Cleanup
  BY <1>9 DEF Cleanup, Exit, Goto
<1>10. CASE UNCHANGED vars
  BY <1>10 DEF vars
<1>11. QED
  BY <1>1, <1>2, <1>3, <1>4, <1>5, <1>6, <1>7, <1>8, <1>9, <1>10 DEF Next

\* Every reachable state satisfies both invariants.
THEOREM HmxInvariance == Spec => [](IInv /\ HmxInv)
<1>1. Init => IInv /\ HmxInv
  <2>1. Init => HmxInv
    BY DEF Init, HmxInv, Pcs, Early, Opened, Running
  <2>2. QED
    BY <2>1, InitInv
<1>2. (IInv /\ HmxInv) /\ [Next]_vars => (IInv /\ HmxInv)'
  BY NextInv, NextHmxInv
<1>3. QED
  BY <1>1, <1>2, PTL DEF Spec

\* Whatever scenarios are asked for, of whatever skel: the buffers allocated
\* once are long enough for each, and those of "all" have been compiled.
THEOREM HmxFit == Spec => []HmxScenariosFit
<1>1. ASSUME IInv, HmxInv PROVE HmxScenariosFit
  <2> SUFFICES ASSUME pc = "hmx", n <= Len(HmxTable),
                      HmxEnabled(opt.filter, HmxTable[n], arch)
               PROVE  /\ opt.filter = All => MinArch(HmxTable[n].mode) <= skel
                      /\ <<"activation", 0>> \in own =>
                            /\ sized.activation >= HmxTable[n].activation
                            /\ sized.weight >= HmxTable[n].weight
                            /\ sized.output >= HmxTable[n].output
                            /\ HmxTable[n].activation
                                  >= ActivationLen(HmxTable[n].mode)
                            /\ HmxTable[n].weight >= WeightLen(HmxTable[n].mode)
                            /\ HmxTable[n].output >= WrittenLen(HmxTable[n].mode)
    BY DEF HmxScenariosFit
  <2>1. n \in DOMAIN HmxTable
    BY <1>1 DEF IInv, TypeInv, HmxTable
  <2>2. skel \in Built /\ arch = skel
    BY <1>1 DEF HmxInv, Pcs, Early, Opened, Running
  <2>3. opt.filter = All => MinArch(HmxTable[n].mode) <= skel
    <3>1. ASSUME opt.filter = All PROVE arch >= HmxTable[n].minArch
      BY <2>2, <3>1 DEF HmxEnabled, Built
    <3>2. /\ MinArch(HmxTable[n].mode) <= HmxTable[n].minArch
          /\ HmxTable[n].minArch \in Nat /\ MinArch(HmxTable[n].mode) \in Nat
      BY <2>1, RowsCover, ModeTables
    <3>3. QED
      BY <2>2, <3>1, <3>2 DEF Built
  <2>4. <<"activation", 0>> \in own =>
            /\ sized.activation >= HmxTable[n].activation
            /\ sized.weight >= HmxTable[n].weight
            /\ sized.output >= HmxTable[n].output
    BY <1>1, <2>1, BuffersCover DEF HmxInv
  <2>5. QED
    BY <2>1, <2>3, <2>4, RowsCover
<1>2. QED
  BY <1>1, HmxInvariance, PTL

-----------------------------------------------------------------------------
(* The rows of the report.                                                 *)

\* No two entries of the tables have a name in common.
LEMMA ComputeNamesDiffer ==
    ASSUME NEW j \in DOMAIN ComputeTable, NEW k \in DOMAIN ComputeTable,
           ComputeTable[j].name = ComputeTable[k].name
    PROVE  j = k
BY DEF ComputeTable

LEMMA HmxNamesDiffer ==
    ASSUME NEW j \in DOMAIN HmxTable, NEW k \in DOMAIN HmxTable,
           HmxTable[j].name = HmxTable[k].name
    PROVE  j = k
BY SMTT(60) DEF HmxTable, HmxRow

LEMMA MemNamesDiffer ==
    ASSUME NEW j \in DOMAIN MemTable, NEW k \in DOMAIN MemTable,
           MemTable[j] = MemTable[k]
    PROVE  j = k
BY DEF MemTable

LEMMA TablesDiffer ==
    /\ "rpc-null" \notin ComputeScenarios \cup MemScenarios \cup HmxScenarios
    /\ ComputeScenarios \cap MemScenarios = {}
    /\ ComputeScenarios \cap HmxScenarios = {}
    /\ MemScenarios \cap HmxScenarios = {}
BY DEF ComputeScenarios, MemScenarios, HmxScenarios, ComputeTable, MemTable,
       HmxTable, HmxRow

\* Every name is in one of the tables.
LEMMA NamesAre ==
    /\ "rpc-null" \in Names
    /\ \A k \in DOMAIN ComputeTable : /\ ComputeTable[k].name \in Names
                                      /\ ComputeTable[k].name \in ComputeScenarios
    /\ \A k \in DOMAIN MemTable : /\ MemTable[k] \in Names
                                  /\ MemTable[k] \in MemScenarios
    /\ \A k \in DOMAIN HmxTable : /\ HmxTable[k].name \in Names
                                  /\ HmxTable[k].name \in HmxScenarios
    /\ \A s \in Names : \/ s = "rpc-null"
                        \/ \E k \in DOMAIN ComputeTable : s = ComputeTable[k].name
                        \/ \E k \in DOMAIN MemTable : s = MemTable[k]
                        \/ \E k \in DOMAIN HmxTable : s = HmxTable[k].name
BY DEF Names, ComputeScenarios, MemScenarios, HmxScenarios

\* An entry is wanted when its enabled() says so.
LEMMA WantedAre ==
    ASSUME NEW filter, NEW a
    PROVE  /\ "rpc-null" \in Wanted(filter, a)
                 <=> ScenarioEnabled(filter, "rpc-null")
           /\ \A k \in DOMAIN ComputeTable :
                 ComputeTable[k].name \in Wanted(filter, a)
                    <=> ScenarioEnabled(filter, ComputeTable[k].name)
           /\ \A k \in DOMAIN MemTable :
                 MemTable[k] \in Wanted(filter, a)
                    <=> ScenarioEnabled(filter, MemTable[k])
           /\ \A k \in DOMAIN HmxTable :
                 HmxTable[k].name \in Wanted(filter, a)
                    <=> HmxEnabled(filter, HmxTable[k], a)
           /\ Wanted(filter, a) \subseteq Names
<1> DEFINE enabled == {r.name : r \in EnabledHmx(filter, a)}
           others == {name \in {"rpc-null"} \cup ComputeScenarios \cup MemScenarios :
                         ScenarioEnabled(filter, name)}
<1>1. Wanted(filter, a) = others \cup enabled
  BY DEF Wanted
<1>2. \A s : s \in enabled
              <=> \E k \in DOMAIN HmxTable : /\ HmxEnabled(filter, HmxTable[k], a)
                                             /\ s = HmxTable[k].name
  BY DEF EnabledHmx
<1>3. enabled \subseteq HmxScenarios
  BY <1>2, NamesAre
<1>4. \A k \in DOMAIN HmxTable :
          HmxTable[k].name \in enabled <=> HmxEnabled(filter, HmxTable[k], a)
  BY <1>2, HmxNamesDiffer
<1> HIDE DEF enabled
<1>5. \A k \in DOMAIN HmxTable : HmxTable[k].name \notin others
  BY NamesAre, TablesDiffer
<1>6. Wanted(filter, a) \subseteq Names
  BY <1>1, <1>3 DEF Names
<1>7. /\ "rpc-null" \notin enabled
      /\ \A k \in DOMAIN ComputeTable : ComputeTable[k].name \notin enabled
      /\ \A k \in DOMAIN MemTable : MemTable[k] \notin enabled
  BY <1>3, NamesAre, TablesDiffer
<1>8. QED
  BY <1>1, <1>4, <1>5, <1>6, <1>7, NamesAre

\* What is reported so far is reported once and was asked for.
LEMMA SoFarOnce == RowsSoFar => RowsOnce
<1> SUFFICES ASSUME RowsSoFar, NEW s \in Names
             PROVE  rows[s] <= 1 /\ (rows[s] > 0 => s \in Wanted(opt.filter, arch))
  BY DEF RowsOnce, Reported
<1> USE WantedAre DEF RowsSoFar, One
<1>1. CASE s = "rpc-null"
  BY <1>1
<1>2. CASE \E k \in DOMAIN ComputeTable : s = ComputeTable[k].name
  BY <1>2
<1>3. CASE \E k \in DOMAIN MemTable : s = MemTable[k]
  BY <1>3
<1>4. CASE \E k \in DOMAIN HmxTable : s = HmxTable[k].name
  BY <1>4
<1>5. QED
  BY <1>1, <1>2, <1>3, <1>4, NamesAre

\* A wanted scenario without its row: the report is not complete.
LEMMA RowMissing ==
    ASSUME NEW s \in Wanted(opt.filter, arch), rows[s] = 0
    PROVE  ~Complete
BY DEF Complete, Reported

\* A group's names are those of its enabled entries.
LEMMA GroupNames ==
    ASSUME NEW filter, NEW g, NEW k \in DOMAIN ComputeTable
    PROVE  ComputeTable[k].name \in ComputeNames(filter, g)
              <=> /\ ComputeTable[k].group = g
                  /\ ScenarioEnabled(filter, ComputeTable[k].name)
BY ComputeNamesDiffer DEF ComputeNames
LEMMA GroupIsCompute ==
    ASSUME NEW filter, NEW g
    PROVE  ComputeNames(filter, g) \subseteq ComputeScenarios
BY DEF ComputeNames, ComputeScenarios

\* Before the scenarios.
LEMMA EarlyRows ==
    ASSUME IInv, RowsInv, ExitInv,
           CheckSize \/ UnsignedPd \/ Capabilities \/ MakeUri \/ AllocHandles
              \/ Open \/ Power
    PROVE  RowsInv' /\ ExitInv'
<1> USE DEF Pcs, Early, Opened, Running
<1>1. /\ pc \in Early \cup {"handles", "open", "power"}
      /\ rows' = rows /\ groups' = groups
      /\ opt' = opt /\ arch' = arch
      /\ pc' \in Early \cup {"handles", "open", "power", "info", "out", "exited"}
      /\ pc' = "power" => pc \in {"open", "power"}
      /\ pc' = "open" => pc \in {"handles", "open"}
      /\ pc' = "handles" => pc = "uri"
      /\ pc' \in Early => pc \in Early
  <2>1. CASE CheckSize \/ UnsignedPd \/ Capabilities \/ MakeUri
    BY <2>1 DEF CheckSize, UnsignedPd, Capabilities, MakeUri, Goto, Exit, Take,
                config, caps, report
  <2>2. CASE AllocHandles \/ Open
    BY <2>2 DEF AllocHandles, Open, Goto, Out, Take, config, caps, report
  <2>3. CASE Power
    BY <2>3 DEF Power, Goto, Out, config, caps
  <2>4. QED
    BY <2>1, <2>2, <2>3
<1>2. banner.printed = FALSE /\ banner'.printed = FALSE
  <2>1. banner.printed = FALSE /\ banner \in [printed : BOOLEAN, mask : SUBSET VoteNames]
    BY <1>1 DEF IInv, PowerInv, TypeInv
  <2>2. banner' = banner \/ \E m : banner' = [banner EXCEPT !.mask = m]
    BY DEF CheckSize, UnsignedPd, Capabilities, MakeUri, AllocHandles, Open,
           Power, report
  <2>3. QED
    BY <2>1, <2>2
<1>3. RowsInv'
  <2>1. /\ rows' \in [Names -> Nat] /\ RowsOnce'
        /\ \A s \in Names : rows'[s] = 0
    BY <1>1 DEF RowsInv, RowsOnce, Reported
  <2>2. groups' = {}
    BY <1>1 DEF RowsInv, GroupsSoFar
  <2>3. QED
    BY <1>1, <2>1, <2>2 DEF RowsInv, GroupsSoFar
<1>4. ~Complete'
  BY <1>2 DEF Complete
<1>5. pc' = "out" => err' # 0
  <2>1. ENOMEM # 0
    BY DEF ENOMEM
  <2>2. CASE CheckSize \/ UnsignedPd \/ Capabilities \/ MakeUri
    BY <2>2 DEF CheckSize, UnsignedPd, Capabilities, MakeUri, Goto, Exit
  <2>3. CASE AllocHandles
    BY <2>1, <2>3 DEF AllocHandles, Goto, Out
  <2>4. CASE Open
    BY <2>4, ErrsAssumption DEF Open, Goto, Out
  <2>5. CASE Power
    BY <2>5, ErrsAssumption DEF Power, Goto, Out, PowerReport, StepFails
  <2>6. QED
    BY <2>2, <2>3, <2>4, <2>5
<1>6. pc' = "exited" => exit' # 0
  BY <1>1 DEF CheckSize, UnsignedPd, Capabilities, MakeUri, AllocHandles, Open,
              Power, Goto, Exit, Out
<1>7. ExitInv'
  BY <1>1, <1>4, <1>5, <1>6 DEF ExitInv
<1>8. QED
  BY <1>3, <1>7

\* From the banner to the first scenario.
LEMMA BannerRows ==
    ASSUME IInv, RowsInv, ExitInv,
           Info \/ AllocMemArrays \/ AllocMemBuffers
    PROVE  RowsInv' /\ ExitInv'
<1> USE DEF Pcs, Early, Opened, Running
<1>1. /\ pc \in {"info", "mem_arrays", "mem_buffers"}
      /\ rows' = rows /\ groups' = groups /\ opt' = opt
      /\ pc' \in {"mem_arrays", "mem_buffers", "rpc", "out"}
  BY DEF Info, AllocMemArrays, AllocMemBuffers, Goto, Out, Take, config, caps,
         report
<1>2. /\ rows \in [Names -> Nat] /\ \A s \in Names : rows[s] = 0
      /\ groups = {}
  BY <1>1 DEF RowsInv, GroupsSoFar
<1>3. \A s \in Names : rows'[s] = 0 /\ rows' \in [Names -> Nat]
  BY <1>1, <1>2
<1>4. RowsInv'
  <2>1. RowsOnce'
    BY <1>3 DEF RowsOnce, Reported
  <2>2. pc' = "rpc" => RowsSoFar'
    BY <1>3, NamesAre DEF RowsSoFar, One
  <2>3. QED
    BY <1>1, <1>2, <1>3, <2>1, <2>2 DEF RowsInv, GroupsSoFar
<1>5. ExitInv'
  <2>1. CASE Info
    <3>1. CASE pc' = "out"
      <4>1. \E e \in Errs : Out(e) /\ UNCHANGED <<arch, banner>>
        BY <2>1, <3>1 DEF Info, Goto
      <4>2. err' # 0 /\ banner'.printed = FALSE
        BY <4>1, <2>1, ErrsAssumption DEF Info, Out, IInv, PowerInv
      <4>3. QED
        BY <3>1, <4>2 DEF ExitInv, Complete
    <3>2. CASE pc' # "out"
      <4>1. /\ err' = 0
            /\ banner' = [banner EXCEPT !.printed = TRUE]
            /\ pc' = IF NeedMem(opt.filter) THEN "mem_arrays" ELSE "rpc"
        BY <2>1, <3>2 DEF Info, Goto, Out
      <4>2. banner'.printed = TRUE
        BY <4>1 DEF IInv, TypeInv
      <4>3. QED
        BY <1>1, <4>1, <4>2 DEF ExitInv
    <3>3. QED
      BY <3>1, <3>2
  <2>2. CASE AllocMemArrays \/ AllocMemBuffers
    <3>1. /\ NeedMem(opt.filter) /\ err = 0 /\ banner.printed = TRUE
          /\ banner' = banner /\ arch' = arch
          /\ \/ err' = ENOMEM /\ pc' = "out"
             \/ err' = err /\ pc' # "out"
      BY <1>1, <2>2 DEF ExitInv, AllocMemArrays, AllocMemBuffers, Goto, Out,
                        Take, caps, report
    <3>2. ~Complete'
      <4>1. PICK k \in DOMAIN MemTable : ScenarioEnabled(opt.filter, MemTable[k])
        BY <3>1 DEF NeedMem
      <4>2. MemTable[k] \in Wanted(opt.filter, arch) /\ MemTable[k] \in Names
        BY <4>1, WantedAre, NamesAre
      <4>3. MemTable[k] \in Wanted(opt.filter, arch)' /\ rows'[MemTable[k]] = 0
        BY <1>1, <1>3, <3>1, <4>2
      <4>4. QED
        BY <4>3 DEF Complete, Reported
    <3>3. ENOMEM # 0
      BY DEF ENOMEM
    <3>4. QED
      BY <1>1, <3>1, <3>2, <3>3 DEF ExitInv
  <2>3. QED
    BY <2>1, <2>2
<1>6. QED
  BY <1>4, <1>5

\* A scenario that fails, or whose buffers cannot be had, leaves the report as
\* it is, without its row.
LEMMA FailedRows ==
    ASSUME IInv, RowsInv, ExitInv, pc \in Running,
           NEW s \in Wanted(opt.filter, arch), rows[s] = 0,
           pc' = "out", err' # 0, rows' = rows, opt' = opt, arch' = arch
    PROVE  RowsInv' /\ ExitInv'
<1> USE DEF Pcs, Early, Opened, Running
<1>1. ~Complete'
  BY DEF Complete, Reported
<1>2. RowsOnce'
  BY DEF RowsInv, RowsOnce, Reported
<1>3. QED
  BY <1>1, <1>2 DEF RowsInv, ExitInv, GroupsSoFar

\* The scenarios that go well only have the rows to look after.
LEMMA GoesOn ==
    ASSUME IInv, RowsInv, ExitInv, pc \in Running,
           pc' \in {"compute", "hmx", "mem"}, err' = 0, banner' = banner,
           rows' \in [Names -> Nat], RowsSoFar', GroupsSoFar'
    PROVE  RowsInv' /\ ExitInv'
<1> USE DEF Pcs, Early, Opened, Running
<1>1. RowsOnce'
  <2>1. (RowsSoFar => RowsOnce)'
    BY SoFarOnce, PTL
  <2>2. QED
    BY <2>1
<1>2. QED
  BY <1>1 DEF RowsInv, ExitInv

LEMMA RpcRows ==
    ASSUME IInv, RowsInv, ExitInv, RpcNull
    PROVE  RowsInv' /\ ExitInv'
<1> USE DEF Pcs, Early, Opened, Running
<1>1. /\ pc = "rpc" /\ RowsSoFar /\ groups = {} /\ err = 0
      /\ UNCHANGED <<opt, arch, groups, banner>>
      /\ rows \in [Names -> Nat]
  BY DEF RpcNull, config, caps, RowsInv, GroupsSoFar, ExitInv
<1>2. CASE ~ScenarioEnabled(opt.filter, "rpc-null")
  <2>1. pc' = "compute" /\ n' = 1 /\ err' = 0 /\ rows' = rows
    BY <1>1, <1>2 DEF RpcNull, Goto
  <2>2. RowsSoFar' /\ GroupsSoFar'
    BY <1>1, <1>2, <2>1 DEF RowsSoFar, GroupsSoFar, One, ComputeTable
  <2>3. QED
    BY <1>1, <2>1, <2>2, GoesOn
<1>3. CASE /\ ScenarioEnabled(opt.filter, "rpc-null")
           /\ Run({"rpc-null"}, "compute", 1) /\ pc' # "out"
  <2>1. /\ pc' = "compute" /\ n' = 1 /\ err' = 0
        /\ rows' = [s \in Names |-> IF s \in {"rpc-null"} THEN rows[s] + 1
                                                        ELSE rows[s]]
    BY <1>3 DEF Run, Out, Goto
  <2>2. rows' \in [Names -> Nat]
    BY <1>1, <2>1
  <2>3. RowsSoFar' /\ GroupsSoFar'
    <3>1. GroupsSoFar'
      BY <1>1, <2>1 DEF GroupsSoFar, ComputeTable
    <3>2. rows'["rpc-null"] = 1
      BY <1>1, <2>1, NamesAre DEF RowsSoFar, One
    <3>3. /\ \A k \in DOMAIN ComputeTable :
                rows'[ComputeTable[k].name] = rows[ComputeTable[k].name]
          /\ \A k \in DOMAIN MemTable : rows'[MemTable[k]] = rows[MemTable[k]]
          /\ \A k \in DOMAIN HmxTable :
                rows'[HmxTable[k].name] = rows[HmxTable[k].name]
      BY <2>1, NamesAre, TablesDiffer
    <3>4. RowsSoFar'
      BY <1>1, <1>3, <2>1, <3>2, <3>3 DEF RowsSoFar, One, ComputeTable
    <3>5. QED
      BY <3>1, <3>4
  <2>4. QED
    BY <1>1, <2>1, <2>2, <2>3, GoesOn
<1>4. CASE /\ ScenarioEnabled(opt.filter, "rpc-null")
           /\ Run({"rpc-null"}, "compute", 1) /\ pc' = "out"
  <2>1. err' # 0 /\ rows' = rows
    BY <1>4, ErrsAssumption DEF Run, Out, Goto
  <2>2. rows["rpc-null"] = 0 /\ "rpc-null" \in Wanted(opt.filter, arch)
    BY <1>1, <1>4, WantedAre DEF RowsSoFar, One
  <2>3. QED
    BY <1>1, <1>4, <2>1, <2>2, FailedRows
<1>5. QED
  BY <1>2, <1>3, <1>4 DEF RpcNull

\* Rows of compute scenarios leave those of the other tables alone.
LEMMA ComputeRowsOnly ==
    ASSUME NEW names \in SUBSET ComputeScenarios, rows \in [Names -> Nat],
           rows' = [s \in Names |-> IF s \in names THEN rows[s] + 1 ELSE rows[s]]
    PROVE  /\ rows' \in [Names -> Nat]
           /\ rows'["rpc-null"] = rows["rpc-null"]
           /\ \A k \in DOMAIN MemTable : rows'[MemTable[k]] = rows[MemTable[k]]
           /\ \A k \in DOMAIN HmxTable :
                 rows'[HmxTable[k].name] = rows[HmxTable[k].name]
           /\ \A k \in DOMAIN ComputeTable :
                 rows'[ComputeTable[k].name] =
                    IF ComputeTable[k].name \in names
                    THEN rows[ComputeTable[k].name] + 1
                    ELSE rows[ComputeTable[k].name]
BY NamesAre, TablesDiffer

\* The row of an HMX scenario, and of a memory scenario.
LEMMA OneHmxRow ==
    ASSUME NEW j \in DOMAIN HmxTable, rows \in [Names -> Nat],
           rows' = [s \in Names |-> IF s \in {HmxTable[j].name} THEN rows[s] + 1
                                                            ELSE rows[s]]
    PROVE  /\ rows' \in [Names -> Nat]
           /\ rows'["rpc-null"] = rows["rpc-null"]
           /\ \A k \in DOMAIN MemTable : rows'[MemTable[k]] = rows[MemTable[k]]
           /\ \A k \in DOMAIN ComputeTable :
                 rows'[ComputeTable[k].name] = rows[ComputeTable[k].name]
           /\ \A k \in DOMAIN HmxTable :
                 rows'[HmxTable[k].name] = IF k = j
                                           THEN rows[HmxTable[k].name] + 1
                                           ELSE rows[HmxTable[k].name]
<1>1. \A k \in DOMAIN HmxTable : HmxTable[k].name = HmxTable[j].name <=> k = j
  BY HmxNamesDiffer
<1>2. QED
  BY <1>1, NamesAre, TablesDiffer

LEMMA OneMemRow ==
    ASSUME NEW j \in DOMAIN MemTable, rows \in [Names -> Nat],
           rows' = [s \in Names |-> IF s \in {MemTable[j]} THEN rows[s] + 1
                                                       ELSE rows[s]]
    PROVE  /\ rows' \in [Names -> Nat]
           /\ rows'["rpc-null"] = rows["rpc-null"]
           /\ \A k \in DOMAIN HmxTable :
                 rows'[HmxTable[k].name] = rows[HmxTable[k].name]
           /\ \A k \in DOMAIN ComputeTable :
                 rows'[ComputeTable[k].name] = rows[ComputeTable[k].name]
           /\ \A k \in DOMAIN MemTable :
                 rows'[MemTable[k]] = IF k = j THEN rows[MemTable[k]] + 1
                                               ELSE rows[MemTable[k]]
<1>1. \A k \in DOMAIN MemTable : MemTable[k] = MemTable[j] <=> k = j
  BY MemNamesDiffer
<1>2. QED
  BY <1>1, NamesAre, TablesDiffer

LEMMA ComputeRows ==
    ASSUME IInv, RowsInv, ExitInv, Compute
    PROVE  RowsInv' /\ ExitInv'
<1> USE DEF Pcs, Early, Opened, Running
<1> DEFINE row == ComputeTable[n]
           g == row.group
           turned == \/ ~ScenarioEnabled(opt.filter, row.name)
                     \/ g \in groups
           names == IF g # 0 THEN ComputeNames(opt.filter, g) ELSE {row.name}
<1>1. /\ pc = "compute" /\ RowsSoFar /\ GroupsSoFar /\ err = 0
      /\ 0 \notin groups
      /\ UNCHANGED <<opt, arch, banner>>
      /\ rows \in [Names -> Nat]
      /\ n \in Nat \ {0} /\ n \in DOMAIN ComputeTable
      /\ DOMAIN ComputeTable \subseteq Nat
  BY DEF Compute, config, caps, RowsInv, GroupsSoFar, ExitInv, IInv, TypeInv,
         ComputeTable
<1>2. CASE turned
  <2>1. /\ pc' = "compute" /\ n' = n + 1 /\ err' = 0 /\ rows' = rows
        /\ groups' = groups
    BY <1>1, <1>2 DEF Compute
  <2>2. \A k \in DOMAIN ComputeTable : k < n + 1 <=> k < n \/ k = n
    BY <1>1
  <2>3. RowsSoFar'
    BY <1>1, <1>2, <2>1, <2>2 DEF RowsSoFar, One
  <2>4. GroupsSoFar'
    BY <1>1, <1>2, <2>1, <2>2 DEF GroupsSoFar
  <2>5. QED
    BY <1>1, <2>1, <2>3, <2>4, GoesOn
<1>3. CASE ~turned
  <2>1. Run(names, "compute", n + 1)
        /\ groups' = IF g # 0 THEN groups \cup {g} ELSE groups
    BY <1>1, <1>3 DEF Compute, GroupsAfter
  <2>2. /\ names \subseteq ComputeScenarios /\ row.name \in names
        /\ \A k \in DOMAIN ComputeTable :
              ComputeTable[k].name \in names
                 <=> IF g # 0 THEN /\ ComputeTable[k].group = g
                                   /\ ScenarioEnabled(opt.filter,
                                                      ComputeTable[k].name)
                              ELSE k = n
    BY <1>1, <1>3, GroupNames, GroupIsCompute, NamesAre, ComputeNamesDiffer
  <2>3. ScenarioEnabled(opt.filter, row.name) /\ g \notin groups
    BY <1>3
  <2> HIDE DEF names, turned
  <2>4. CASE pc' # "out"
    <3>1. /\ pc' = "compute" /\ n' = n + 1 /\ err' = 0
          /\ rows' = [s \in Names |-> IF s \in names THEN rows[s] + 1
                                                     ELSE rows[s]]
      BY <2>1, <2>4 DEF Run, Out, Goto
    <3>2. \A k \in DOMAIN ComputeTable : k < n + 1 <=> k < n \/ k = n
      BY <1>1
    <3>3. GroupsSoFar'
      BY <1>1, <2>1, <3>1, <3>2 DEF GroupsSoFar
    <3>4. \A k \in DOMAIN ComputeTable :
             ComputeTable[k].name \in names =>
                 /\ ScenarioEnabled(opt.filter, ComputeTable[k].name)
                 /\ ~(k < n) /\ ComputeTable[k].group \notin groups
      BY <1>1, <2>2, <2>3 DEF GroupsSoFar
    <3>5. ASSUME NEW k \in DOMAIN ComputeTable
          PROVE  rows'[ComputeTable[k].name] =
                    One(/\ ScenarioEnabled(opt.filter, ComputeTable[k].name)
                        /\ k < n + 1 \/ ComputeTable[k].group \in groups')
      <4>1. rows[ComputeTable[k].name] =
               One(/\ ScenarioEnabled(opt.filter, ComputeTable[k].name)
                   /\ k < n \/ ComputeTable[k].group \in groups)
        BY <1>1 DEF RowsSoFar
      <4>2. rows'[ComputeTable[k].name] =
               IF ComputeTable[k].name \in names
               THEN rows[ComputeTable[k].name] + 1
               ELSE rows[ComputeTable[k].name]
        BY <1>1, <2>2, <3>1, ComputeRowsOnly
      <4>3. CASE ComputeTable[k].name \in names
        <5>1. rows[ComputeTable[k].name] = 0
          BY <3>4, <4>1, <4>3 DEF One
        <5>2. k < n + 1 \/ ComputeTable[k].group \in groups'
          BY <1>1, <2>1, <2>2, <4>3
        <5>3. QED
          BY <3>4, <4>2, <4>3, <5>1, <5>2 DEF One
      <4>4. CASE ComputeTable[k].name \notin names
        <5>1. k # n
          BY <2>2, <4>4
        <5>2. CASE ScenarioEnabled(opt.filter, ComputeTable[k].name)
          BY <2>1, <2>2, <3>2, <4>1, <4>2, <4>4, <5>1, <5>2
        <5>3. CASE ~ScenarioEnabled(opt.filter, ComputeTable[k].name)
          BY <4>1, <4>2, <4>4, <5>3 DEF One
        <5>4. QED
          BY <5>2, <5>3
      <4>5. QED
        BY <4>3, <4>4
    <3>6. /\ rows' \in [Names -> Nat]
          /\ rows'["rpc-null"] = rows["rpc-null"]
          /\ \A k \in DOMAIN MemTable : rows'[MemTable[k]] = rows[MemTable[k]]
          /\ \A k \in DOMAIN HmxTable :
                rows'[HmxTable[k].name] = rows[HmxTable[k].name]
      BY <1>1, <2>2, <3>1, ComputeRowsOnly
    <3>7. RowsSoFar'
      BY <1>1, <3>1, <3>5, <3>6 DEF RowsSoFar, One
    <3>8. QED
      BY <1>1, <3>1, <3>3, <3>6, <3>7, GoesOn
  <2>5. CASE pc' = "out"
    <3>1. err' # 0 /\ rows' = rows
      BY <2>1, <2>5, ErrsAssumption DEF Run, Out, Goto
    <3>2. rows[row.name] = 0 /\ row.name \in Wanted(opt.filter, arch)
      BY <1>1, <2>3, WantedAre DEF RowsSoFar, One
    <3>3. QED
      BY <1>1, <2>5, <3>1, <3>2, FailedRows
  <2>6. QED
    BY <2>4, <2>5
<1>4. QED
  BY <1>2, <1>3

LEMMA HmxRows ==
    ASSUME IInv, RowsInv, ExitInv, AllocHmx \/ Hmx
    PROVE  RowsInv' /\ ExitInv'
<1> USE DEF Pcs, Early, Opened, Running
<1> DEFINE row == HmxTable[n]
<1>1. /\ pc = "hmx" /\ RowsSoFar /\ err = 0
      /\ UNCHANGED <<opt, arch, banner, groups>>
      /\ rows \in [Names -> Nat]
      /\ n \in Nat \ {0} /\ n \in DOMAIN HmxTable
      /\ DOMAIN HmxTable \subseteq Nat
  <2>1. pc = "hmx" /\ n <= Len(HmxTable)
    BY DEF AllocHmx, Hmx
  <2>2. UNCHANGED <<opt, arch, banner, groups>>
    BY DEF AllocHmx, Hmx, config, caps, report
  <2>3. n \in Nat \ {0}
    BY DEF IInv, TypeInv
  <2>4. n \in DOMAIN HmxTable /\ DOMAIN HmxTable \subseteq Nat
    BY <2>1, <2>3 DEF HmxTable
  <2>5. RowsSoFar /\ rows \in [Names -> Nat] /\ err = 0
    BY <2>1 DEF RowsInv, ExitInv
  <2>6. QED
    BY <2>1, <2>2, <2>3, <2>4, <2>5
<1>2. CASE ~HmxEnabled(opt.filter, row, arch)
  <2>1. pc' = "hmx" /\ n' = n + 1 /\ err' = 0 /\ rows' = rows
    BY <1>1, <1>2 DEF AllocHmx, Hmx
  <2>2. \A k \in DOMAIN HmxTable : k < n + 1 <=> k < n \/ k = n
    BY <1>1
  <2>3. RowsSoFar'
    BY <1>1, <1>2, <2>1, <2>2 DEF RowsSoFar, One
  <2>4. QED
    BY <1>1, <2>1, <2>3, GoesOn DEF GroupsSoFar
<1>3. CASE /\ HmxEnabled(opt.filter, row, arch)
           /\ pc' # "out" /\ AllocHmx
  <2>1. pc' = "hmx" /\ n' = n /\ err' = 0 /\ rows' = rows
    BY <1>1, <1>3 DEF AllocHmx, Out, Goto, report
  <2>2. RowsSoFar'
    BY <1>1, <2>1 DEF RowsSoFar
  <2>3. QED
    BY <1>1, <2>1, <2>2, GoesOn DEF GroupsSoFar
<1>4. CASE /\ HmxEnabled(opt.filter, row, arch)
           /\ pc' # "out" /\ Hmx
  <2>1. /\ pc' = "hmx" /\ n' = n + 1 /\ err' = 0
        /\ rows' = [s \in Names |-> IF s \in {row.name} THEN rows[s] + 1
                                                        ELSE rows[s]]
    BY <1>1, <1>4 DEF Hmx, Run, Out, Goto
  <2>2. \A k \in DOMAIN HmxTable : k < n + 1 <=> k < n \/ k = n
    BY <1>1
  <2>3. /\ rows' \in [Names -> Nat]
        /\ rows'["rpc-null"] = rows["rpc-null"]
        /\ \A k \in DOMAIN MemTable : rows'[MemTable[k]] = rows[MemTable[k]]
        /\ \A k \in DOMAIN ComputeTable :
              rows'[ComputeTable[k].name] = rows[ComputeTable[k].name]
        /\ \A k \in DOMAIN HmxTable :
              rows'[HmxTable[k].name] = IF k = n
                                        THEN rows[HmxTable[k].name] + 1
                                        ELSE rows[HmxTable[k].name]
    BY <1>1, <2>1, OneHmxRow
  <2>4. ASSUME NEW k \in DOMAIN HmxTable
        PROVE  rows'[HmxTable[k].name] =
                  One(HmxEnabled(opt.filter, HmxTable[k], arch) /\ k < n + 1)
    <3>1. rows[HmxTable[k].name] =
             One(HmxEnabled(opt.filter, HmxTable[k], arch) /\ k < n)
      BY <1>1 DEF RowsSoFar
    <3>2. CASE k = n
      BY <1>1, <1>4, <2>3, <3>1, <3>2 DEF One
    <3>3. CASE k # n
      BY <2>2, <2>3, <3>1, <3>3
    <3>4. QED
      BY <3>2, <3>3
  <2>5. RowsSoFar'
    BY <1>1, <2>1, <2>3, <2>4 DEF RowsSoFar, One
  <2>6. QED
    BY <1>1, <2>1, <2>3, <2>5, GoesOn DEF GroupsSoFar
<1>5. CASE HmxEnabled(opt.filter, row, arch) /\ pc' = "out"
  <2>1. err' # 0 /\ rows' = rows
    <3>1. CASE AllocHmx
      BY <1>1, <1>5, <3>1 DEF AllocHmx, Out, Goto, ENOMEM, report
    <3>2. CASE Hmx
      BY <1>5, <3>2, ErrsAssumption DEF Hmx, Run, Out, Goto
    <3>3. QED
      BY <3>1, <3>2
  <2>2. rows[row.name] = 0 /\ row.name \in Wanted(opt.filter, arch)
    BY <1>1, <1>5, WantedAre DEF RowsSoFar, One
  <2>3. QED
    BY <1>1, <1>5, <2>1, <2>2, FailedRows
<1>6. QED
  BY <1>2, <1>3, <1>4, <1>5

LEMMA MemRows ==
    ASSUME IInv, RowsInv, ExitInv, Mem
    PROVE  RowsInv' /\ ExitInv'
<1> USE DEF Pcs, Early, Opened, Running
<1>1. /\ pc = "mem" /\ RowsSoFar /\ err = 0
      /\ UNCHANGED <<opt, arch, banner, groups>>
      /\ rows \in [Names -> Nat]
      /\ n \in Nat \ {0} /\ n \in DOMAIN MemTable
      /\ DOMAIN MemTable \subseteq Nat
  BY DEF Mem, config, caps, RowsInv, ExitInv, IInv, TypeInv, MemTable
<1>2. \A k \in DOMAIN MemTable : k < n + 1 <=> k < n \/ k = n
  BY <1>1
<1>3. CASE ~ScenarioEnabled(opt.filter, MemTable[n])
  <2>1. pc' = "mem" /\ n' = n + 1 /\ err' = 0 /\ rows' = rows
    BY <1>1, <1>3 DEF Mem
  <2>2. RowsSoFar'
    BY <1>1, <1>2, <1>3, <2>1 DEF RowsSoFar, One
  <2>3. QED
    BY <1>1, <2>1, <2>2, GoesOn DEF GroupsSoFar
<1>4. CASE ScenarioEnabled(opt.filter, MemTable[n]) /\ pc' # "out"
  <2>1. /\ pc' = "mem" /\ n' = n + 1 /\ err' = 0
        /\ rows' = [s \in Names |-> IF s \in {MemTable[n]} THEN rows[s] + 1
                                                           ELSE rows[s]]
    BY <1>1, <1>4 DEF Mem, Run, Out, Goto
  <2>2. /\ rows' \in [Names -> Nat]
        /\ rows'["rpc-null"] = rows["rpc-null"]
        /\ \A k \in DOMAIN HmxTable :
              rows'[HmxTable[k].name] = rows[HmxTable[k].name]
        /\ \A k \in DOMAIN ComputeTable :
              rows'[ComputeTable[k].name] = rows[ComputeTable[k].name]
        /\ \A k \in DOMAIN MemTable :
              rows'[MemTable[k]] = IF k = n THEN rows[MemTable[k]] + 1
                                            ELSE rows[MemTable[k]]
    BY <1>1, <2>1, OneMemRow
  <2>3. ASSUME NEW k \in DOMAIN MemTable
        PROVE  rows'[MemTable[k]] =
                  One(ScenarioEnabled(opt.filter, MemTable[k]) /\ k < n + 1)
    <3>1. rows[MemTable[k]] =
             One(ScenarioEnabled(opt.filter, MemTable[k]) /\ k < n)
      BY <1>1 DEF RowsSoFar
    <3>2. CASE k = n
      BY <1>1, <1>4, <2>2, <3>1, <3>2 DEF One
    <3>3. CASE k # n
      BY <1>2, <2>2, <3>1, <3>3
    <3>4. QED
      BY <3>2, <3>3
  <2>4. RowsSoFar'
    BY <1>1, <2>1, <2>2, <2>3 DEF RowsSoFar, One
  <2>5. QED
    BY <1>1, <2>1, <2>2, <2>4, GoesOn DEF GroupsSoFar
<1>5. CASE ScenarioEnabled(opt.filter, MemTable[n]) /\ pc' = "out"
  <2>1. err' # 0 /\ rows' = rows
    BY <1>5, ErrsAssumption DEF Mem, Run, Out, Goto
  <2>2. rows[MemTable[n]] = 0 /\ MemTable[n] \in Wanted(opt.filter, arch)
    BY <1>1, <1>5, WantedAre DEF RowsSoFar, One
  <2>3. QED
    BY <1>1, <1>5, <2>1, <2>2, FailedRows
<1>6. QED
  BY <1>3, <1>4, <1>5

\* After the last loop every wanted row is there.
LEMMA AllReported ==
    ASSUME RowsSoFar, pc = "mem", n > Len(MemTable), n \in Nat,
           banner.printed = TRUE
    PROVE  Complete
<1>1. Len(MemTable) = 3 /\ DOMAIN MemTable = 1..3
  BY DEF MemTable
<1>2. \A k \in DOMAIN MemTable : k < n
  BY <1>1
<1>3. ASSUME NEW s \in Names
      PROVE  rows[s] > 0 <=> s \in Wanted(opt.filter, arch)
  <2> USE <1>2, WantedAre DEF RowsSoFar, One
  <2>1. CASE s = "rpc-null"
    BY <2>1
  <2>2. CASE \E k \in DOMAIN ComputeTable : s = ComputeTable[k].name
    BY <2>2
  <2>3. CASE \E k \in DOMAIN MemTable : s = MemTable[k]
    BY <2>3
  <2>4. CASE \E k \in DOMAIN HmxTable : s = HmxTable[k].name
    BY <2>4
  <2>5. QED
    BY <1>3, <2>1, <2>2, <2>3, <2>4, NamesAre
<1>4. QED
  BY <1>3, WantedAre DEF Complete, Reported

LEMMA LoopRows ==
    ASSUME IInv, RowsInv, ExitInv, LoopEnds
    PROVE  RowsInv' /\ ExitInv'
<1> USE DEF Pcs, Early, Opened, Running
<1>1. /\ RowsSoFar /\ err = 0 /\ banner.printed = TRUE /\ RowsOnce
      /\ UNCHANGED <<opt, arch, banner, groups, rows, err>>
      /\ n' = 1 /\ n \in Nat \ {0} /\ rows \in [Names -> Nat]
  BY DEF LoopEnds, Goto, config, caps, report, RowsInv, ExitInv, IInv, TypeInv
<1>2. CASE pc = "compute" /\ n > Len(ComputeTable) /\ pc' = "hmx"
  <2>1. \A k \in DOMAIN ComputeTable : k < n
    BY <1>1, <1>2 DEF ComputeTable
  <2>2. \A k \in DOMAIN HmxTable : ~(k < 1)
    BY DEF HmxTable
  <2>3. RowsSoFar'
    BY <1>1, <1>2, <2>1, <2>2 DEF RowsSoFar
  <2>4. QED
    BY <1>1, <1>2, <2>3, GoesOn DEF GroupsSoFar
<1>3. CASE pc = "hmx" /\ n > Len(HmxTable) /\ pc' = "mem"
  <2>1. \A k \in DOMAIN HmxTable : k < n
    BY <1>1, <1>3 DEF HmxTable
  <2>2. \A k \in DOMAIN MemTable : ~(k < 1)
    BY DEF MemTable
  <2>3. RowsSoFar'
    BY <1>1, <1>3, <2>1, <2>2 DEF RowsSoFar
  <2>4. QED
    BY <1>1, <1>3, <2>3, GoesOn DEF GroupsSoFar
<1>4. CASE pc = "mem" /\ n > Len(MemTable) /\ pc' = "out"
  <2>1. Complete'
    BY <1>1, <1>4, AllReported DEF Complete, Reported
  <2>2. RowsOnce'
    BY <1>1 DEF RowsOnce, Reported
  <2>3. QED
    BY <1>1, <1>4, <2>1, <2>2 DEF RowsInv, ExitInv, GroupsSoFar
<1>5. QED
  BY <1>2, <1>3, <1>4 DEF LoopEnds, Goto

LEMMA CleanupRows ==
    ASSUME IInv, RowsInv, ExitInv, Cleanup
    PROVE  RowsInv' /\ ExitInv'
<1> USE DEF Pcs, Early, Opened, Running
<1>1. /\ pc = "out" /\ pc' = "exited"
      /\ exit' = IF err # 0 THEN 1 ELSE 0
      /\ UNCHANGED <<opt, arch, banner, groups, rows>>
  BY DEF Cleanup, Exit, Goto, CodeOf, config, caps
<1>2. Complete' <=> Complete
  BY <1>1 DEF Complete, Reported
<1>3. RowsOnce'
  BY <1>1 DEF RowsInv, RowsOnce, Reported
<1>4. QED
  BY <1>1, <1>2, <1>3 DEF RowsInv, ExitInv, GroupsSoFar

\* The rows and the error are kept by every step.
THEOREM NextRows == IInv /\ RowsInv /\ ExitInv /\ [Next]_vars
                       => RowsInv' /\ ExitInv'
<1> SUFFICES ASSUME IInv, RowsInv, ExitInv, [Next]_vars
             PROVE  RowsInv' /\ ExitInv'
  OBVIOUS
<1>1. CASE UNCHANGED vars
  BY <1>1 DEF vars, RowsInv, RowsSoFar, GroupsSoFar, RowsOnce, Reported, ExitInv,
              Complete
<1>2. CASE Next
  BY <1>2, EarlyRows, BannerRows, RpcRows, ComputeRows, HmxRows, MemRows,
     LoopRows, CleanupRows DEF Next
<1>3. QED
  BY <1>1, <1>2

\* Every reachable state satisfies them.
THEOREM RowsInvariance == Spec => [](IInv /\ RowsInv /\ ExitInv)
<1>1. Init => IInv /\ RowsInv /\ ExitInv
  <2>1. Init => RowsInv /\ ExitInv
    BY DEF Init, RowsInv, GroupsSoFar, RowsOnce, Reported, ExitInv, Early,
           Opened, Running
  <2>2. QED
    BY <2>1, InitInv
<1>2. (IInv /\ RowsInv /\ ExitInv) /\ [Next]_vars => (IInv /\ RowsInv /\ ExitInv)'
  BY NextInv, NextRows
<1>3. QED
  BY <1>1, <1>2, PTL DEF Spec

\* However main ends, no row is printed twice, the int8 group's included, and
\* none that was not asked for.
THEOREM OnceEach == Spec => []RowsOnce
<1>1. RowsInv => RowsOnce
  BY DEF RowsInv
<1>2. QED
  BY <1>1, RowsInvariance, PTL

\* The exit code tells a complete report from an incomplete one, whatever call
\* failed, with whatever error.
THEOREM ExitTells == Spec => []ExitTruth
<1>1. ExitInv => ExitTruth
  BY DEF ExitInv, ExitTruth
<1>2. QED
  BY <1>1, RowsInvariance, PTL
=============================================================================
