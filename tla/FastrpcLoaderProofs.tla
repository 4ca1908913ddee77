------------------------- MODULE FastrpcLoaderProofs -------------------------
(***************************************************************************)
(* Proofs about FastrpcLoader for any number of workers and calls and for  *)
(* whatever DLLs are found: the invariant IInv is inductive, a call is     *)
(* only forwarded through a bound slot, one DLL is loaded at most, nothing *)
(* is left with it, and every step of the loader is a step of OneVerdict   *)
(* or changes nothing there.                                               *)
(***************************************************************************)
EXTENDS FastrpcLoader, TLAPS

\* What the proofs use of the tables.
LEMMA Lengths ==
    /\ Len(Script) = 13 /\ Len(Required) = 9
    /\ Len(Sources) = 4 /\ Len(ServiceSteps) = 7
BY DEF Script, Required, Sources, ServiceSteps

LEMMA ScriptFacts ==
    /\ Script[11] = "rpcmem_free" /\ Script[12] = "remote_handle64_close"
    /\ \A n \in (1..12) \ {10} : Script[n] \in RequiredSet
    /\ "remote_handle64_invoke" \in RequiredSet
<1>1. /\ Required[1] = "remote_handle64_open"
      /\ Required[2] = "remote_handle64_invoke"
      /\ Required[3] = "remote_handle64_close"
      /\ Required[4] = "remote_handle_control"
      /\ Required[6] = "remote_session_control"
      /\ Required[7] = "rpcmem_alloc" /\ Required[8] = "rpcmem_free"
  BY DEF Required
<1>2. /\ Script[1] = "remote_session_control"
      /\ Script[2] = "remote_handle_control"
      /\ Script[3] = "remote_session_control"
      /\ Script[4] = "remote_handle_control"
      /\ Script[5] = "remote_handle64_open"
      /\ Script[6] = "remote_handle64_invoke"
      /\ Script[7] = "remote_handle64_invoke"
      /\ Script[8] = "remote_handle_control"
      /\ Script[9] = "rpcmem_alloc"
      /\ Script[11] = "rpcmem_free" /\ Script[12] = "remote_handle64_close"
  BY DEF Script
<1>3. \A n \in 1..9 : Required[n] \in RequiredSet
  BY Lengths DEF RequiredSet
<1>4. QED
  BY <1>1, <1>2, <1>3

LEMMA RequiredFacts == \A n \in 1..9 : Required[n] \in RequiredSet
BY Lengths DEF RequiredSet

\* Where main goes after a call.
LEMMA NextOfFacts ==
    ASSUME NEW n \in 1..13, NEW o
    PROVE  /\ NextOf(n, o) \in {11, 12, 13}
           /\ NextOf(n, o) = 12 /\ n <= 11 => "buffer" \notin o
           /\ NextOf(n, o) = 13 /\ n <= 12 => "handle" \notin o
           /\ NextOf(n, o) = 13 /\ n <= 11 => "buffer" \notin o
           /\ n >= 12 => NextOf(n, o) \in {12, 13}
           /\ n >= 13 => NextOf(n, o) = 13
BY Lengths DEF NextOf, AtFree

LEMMA TakesFacts ==
    ASSUME NEW n
    PROVE  Takes(n) \subseteq {"OpenSCManager", "OpenService", "LocalAlloc"}
BY DEF Takes

\* The initial states satisfy the inductive invariant.
THEOREM InitInv == Init => IInv
<1> SUFFICES ASSUME Init PROVE IInv
  OBVIOUS
<1> USE LoaderAssumption, Lengths DEF Init
<1>1. TypeOK
  <2>1. GlobalsTyped
    BY DEF GlobalsTyped
  <2>2. LocalsTyped
    BY DEF LocalsTyped
  <2>3. HostTyped
    BY DEF HostTyped
  <2> QED BY <2>1, <2>2, <2>3 DEF TypeOK
<1>2. MainAlone
  BY DEF MainAlone, Threads, Loading, AtWorkers
<1>3. ToldTheSame
  BY DEF ToldTheSame, Undecided
<1>4. SlotsBound
  BY DEF SlotsBound, Threads, Ok, EFailed
<1>5. LoadsSoFar
  BY DEF LoadsSoFar
<1>6. HandlesClosed
  BY DEF HandlesClosed
<1>7. GivenBack
  BY DEF GivenBack, AtFree
<1>8. QED
  BY <1>1, <1>2, <1>3, <1>4, <1>5, <1>6, <1>7 DEF IInv

\* IInv is kept by MainSkips: main leaves out a call.
LEMMA MainSkipsStep ==
    ASSUME IInv, MainSkips PROVE IInv'
<1> USE LoaderAssumption, Lengths, ScriptFacts, NextOfFacts, TakesFacts
    DEF IInv, MainSkips, Optionally, AtUnsignedPd, globals, locals, host
<1>1. TypeOK'
  <2>1. GlobalsTyped'
    BY DEF TypeOK, GlobalsTyped, LocalsTyped, Threads
  <2>2. LocalsTyped'
    BY DEF TypeOK, LocalsTyped, HostTyped, Threads, AtWorkers
  <2>3. HostTyped'
    BY DEF TypeOK, HostTyped
  <2> QED BY <2>1, <2>2, <2>3 DEF TypeOK
<1>2. MainAlone'
  BY DEF TypeOK, LocalsTyped, HostTyped, MainAlone, Threads, Loading,
         AtWorkers, AtFree
<1>3. ToldTheSame'
  BY DEF TypeOK, LocalsTyped, HostTyped, MainAlone, ToldTheSame,
         Undecided, Loading, Threads, AtWorkers
<1>4. SlotsBound'
  BY DEF TypeOK, LocalsTyped, HostTyped, MainAlone, SlotsBound, Loading,
         Threads, AtWorkers
<1>5. LoadsSoFar'
  BY DEF TypeOK, LocalsTyped, HostTyped, MainAlone, LoadsSoFar, Loading,
         Threads, AtWorkers
<1>6. HandlesClosed'
  BY DEF TypeOK, LocalsTyped, HandlesClosed
<1>7. GivenBack'
  BY DEF TypeOK, LocalsTyped, HostTyped, MainAlone, ToldTheSame, GivenBack,
         Undecided, Loading, Threads, AtWorkers, AtFree
<1>8. QED
  BY <1>1, <1>2, <1>3, <1>4, <1>5, <1>6, <1>7

\* IInv is kept by MainCalls: main makes its next call.
LEMMA MainCallsStep ==
    ASSUME IInv, MainCalls PROVE IInv'
<1> USE LoaderAssumption, Lengths, ScriptFacts, NextOfFacts, TakesFacts
    DEF IInv, MainCalls, Begin, globals, locals, host
<1>1. TypeOK'
  <2>1. GlobalsTyped'
    BY DEF TypeOK, GlobalsTyped, LocalsTyped, Threads
  <2>2. LocalsTyped'
    BY DEF TypeOK, LocalsTyped, HostTyped, Threads, AtWorkers
  <2>3. HostTyped'
    BY DEF TypeOK, HostTyped
  <2> QED BY <2>1, <2>2, <2>3 DEF TypeOK
<1>2. MainAlone'
  BY DEF TypeOK, LocalsTyped, HostTyped, MainAlone, Threads, Loading,
         AtWorkers, AtFree
<1>3. ToldTheSame'
  BY DEF TypeOK, LocalsTyped, HostTyped, MainAlone, ToldTheSame,
         Undecided, Loading, Threads, AtWorkers
<1>4. SlotsBound'
  BY DEF TypeOK, LocalsTyped, HostTyped, MainAlone, SlotsBound, Loading,
         Threads, AtWorkers
<1>5. LoadsSoFar'
  BY DEF TypeOK, LocalsTyped, HostTyped, MainAlone, LoadsSoFar, Loading,
         Threads, AtWorkers
<1>6. HandlesClosed'
  BY DEF TypeOK, LocalsTyped, HandlesClosed
<1>7. GivenBack'
  BY DEF TypeOK, LocalsTyped, HostTyped, MainAlone, ToldTheSame, GivenBack,
         Undecided, Loading, Threads, AtWorkers, AtFree
<1>8. QED
  BY <1>1, <1>2, <1>3, <1>4, <1>5, <1>6, <1>7

\* IInv is kept by MainGoesOn: main takes the answer and goes on, or to the
\* cleanup.
LEMMA MainGoesOnStep ==
    ASSUME IInv, MainGoesOn PROVE IInv'
<1> USE LoaderAssumption, Lengths, ScriptFacts, NextOfFacts, TakesFacts
    DEF IInv, MainGoesOn, globals, locals, host
<1>1. TypeOK'
  <2>1. GlobalsTyped'
    BY DEF TypeOK, GlobalsTyped, LocalsTyped, Threads
  <2>2. LocalsTyped'
    BY DEF TypeOK, GlobalsTyped, LocalsTyped, HostTyped, Threads
  <2>3. HostTyped'
    <3>1. mainAt \in 1..12
      BY DEF TypeOK, HostTyped, MainAlone
    <3>2. mainAt' \in 1..13
      BY <3>1 DEF AtWorkers, AtFree
    <3> QED BY <3>2 DEF TypeOK, HostTyped
  <2> QED BY <2>1, <2>2, <2>3 DEF TypeOK
<1>2. MainAlone'
  <2>1. pc[Main] = "returned" /\ mainAt \in 1..12 \ {10} /\ initialized
    BY DEF TypeOK, HostTyped, MainAlone, ToldTheSame, Undecided,
           AtWorkers, Threads
  <2>2. \A w \in Workers : w # Main /\ pc[w] = "idle"
    BY <2>1 DEF MainAlone, AtWorkers
  <2>3. pc' = [pc EXCEPT ![Main] = "idle"] /\ initialized' = initialized
    OBVIOUS
  <2>4. \A t \in Threads : pc'[t] = "idle"
    BY <2>2, <2>3 DEF TypeOK, LocalsTyped, Threads
  <2> QED BY <2>1, <2>3, <2>4 DEF MainAlone, Loading, Threads
<1>3. ToldTheSame'
  BY DEF TypeOK, LocalsTyped, HostTyped, MainAlone, ToldTheSame,
         Undecided, Loading, Threads, AtWorkers
<1>4. SlotsBound'
  BY DEF TypeOK, LocalsTyped, HostTyped, MainAlone, SlotsBound, Loading,
         Threads, AtWorkers
<1>5. LoadsSoFar'
  BY DEF TypeOK, LocalsTyped, HostTyped, MainAlone, LoadsSoFar, Loading,
         Threads, AtWorkers
<1>6. HandlesClosed'
  BY DEF TypeOK, LocalsTyped, HandlesClosed
<1>7. GivenBack'
  BY DEF TypeOK, LocalsTyped, HostTyped, MainAlone, ToldTheSame, GivenBack,
         Undecided, Loading, Threads, AtWorkers, AtFree
<1>8. QED
  BY <1>1, <1>2, <1>3, <1>4, <1>5, <1>6, <1>7

\* IInv is kept by WorkerCallsRemote: a worker calls while main waits for it.
LEMMA WorkerCallsRemoteStep ==
    ASSUME IInv, NEW w \in Workers, WorkerCallsRemote(w) PROVE IInv'
<1> USE LoaderAssumption, Lengths, ScriptFacts, NextOfFacts, TakesFacts
    DEF IInv, WorkerCallsRemote, Begin, WorkersRun, globals, locals, host
<1>1. TypeOK'
  <2>1. GlobalsTyped'
    BY DEF TypeOK, GlobalsTyped, LocalsTyped, Threads
  <2>2. LocalsTyped'
    BY DEF TypeOK, GlobalsTyped, LocalsTyped, HostTyped, Threads
  <2>3. HostTyped'
    BY DEF TypeOK, HostTyped
  <2> QED BY <2>1, <2>2, <2>3 DEF TypeOK
<1>2. MainAlone'
  BY DEF TypeOK, LocalsTyped, HostTyped, MainAlone, Threads, Loading,
         AtWorkers, AtFree
<1>3. ToldTheSame'
  BY DEF TypeOK, LocalsTyped, HostTyped, MainAlone, ToldTheSame,
         Undecided, Loading, Threads, AtWorkers
<1>4. SlotsBound'
  BY DEF TypeOK, LocalsTyped, HostTyped, MainAlone, SlotsBound, Loading,
         Threads, AtWorkers
<1>5. LoadsSoFar'
  BY DEF TypeOK, LocalsTyped, HostTyped, MainAlone, LoadsSoFar, Loading,
         Threads, AtWorkers
<1>6. HandlesClosed'
  BY DEF TypeOK, LocalsTyped, HandlesClosed
<1>7. GivenBack'
  BY DEF TypeOK, LocalsTyped, HostTyped, MainAlone, ToldTheSame, GivenBack,
         Undecided, Loading, Threads, AtWorkers, AtFree
<1>8. QED
  BY <1>1, <1>2, <1>3, <1>4, <1>5, <1>6, <1>7

\* IInv is kept by WorkerGoesOn: a worker is done with a call.
LEMMA WorkerGoesOnStep ==
    ASSUME IInv, NEW w \in Workers, WorkerGoesOn(w) PROVE IInv'
<1> USE LoaderAssumption, Lengths, ScriptFacts, NextOfFacts, TakesFacts
    DEF IInv, WorkerGoesOn, globals, locals, host
<1>1. TypeOK'
  <2>1. GlobalsTyped'
    BY DEF TypeOK, GlobalsTyped, LocalsTyped, Threads
  <2>2. LocalsTyped'
    BY DEF TypeOK, GlobalsTyped, LocalsTyped, HostTyped, Threads
  <2>3. HostTyped'
    <3>1. left[w] > 0
      BY DEF MainAlone
    <3> QED BY <3>1 DEF TypeOK, HostTyped
  <2> QED BY <2>1, <2>2, <2>3 DEF TypeOK
<1>2. MainAlone'
  BY DEF TypeOK, LocalsTyped, HostTyped, MainAlone, Threads, Loading,
         AtWorkers, AtFree
<1>3. ToldTheSame'
  BY DEF TypeOK, LocalsTyped, HostTyped, MainAlone, ToldTheSame,
         Undecided, Loading, Threads, AtWorkers
<1>4. SlotsBound'
  BY DEF TypeOK, LocalsTyped, HostTyped, MainAlone, SlotsBound, Loading,
         Threads, AtWorkers
<1>5. LoadsSoFar'
  BY DEF TypeOK, LocalsTyped, HostTyped, MainAlone, LoadsSoFar, Loading,
         Threads, AtWorkers
<1>6. HandlesClosed'
  BY DEF TypeOK, LocalsTyped, HandlesClosed
<1>7. GivenBack'
  BY DEF TypeOK, LocalsTyped, HostTyped, MainAlone, ToldTheSame, GivenBack,
         Undecided, Loading, Threads, AtWorkers, AtFree
<1>8. QED
  BY <1>1, <1>2, <1>3, <1>4, <1>5, <1>6, <1>7

\* IInv is kept by Joined: main has joined the workers.
LEMMA JoinedStep ==
    ASSUME IInv, Joined PROVE IInv'
<1> USE LoaderAssumption, Lengths, ScriptFacts, NextOfFacts, TakesFacts
    DEF IInv, Joined, globals, locals, host
<1>1. TypeOK'
  <2>1. GlobalsTyped'
    BY DEF TypeOK, GlobalsTyped, LocalsTyped, Threads
  <2>2. LocalsTyped'
    BY DEF TypeOK, GlobalsTyped, LocalsTyped, HostTyped, Threads
  <2>3. HostTyped'
    BY DEF TypeOK, HostTyped, AtFree
  <2> QED BY <2>1, <2>2, <2>3 DEF TypeOK
<1>2. MainAlone'
  BY DEF TypeOK, LocalsTyped, HostTyped, MainAlone, Threads, Loading,
         AtWorkers, AtFree
<1>3. ToldTheSame'
  BY DEF TypeOK, LocalsTyped, HostTyped, MainAlone, ToldTheSame,
         Undecided, Loading, Threads, AtWorkers
<1>4. SlotsBound'
  BY DEF TypeOK, LocalsTyped, HostTyped, MainAlone, SlotsBound, Loading,
         Threads, AtWorkers
<1>5. LoadsSoFar'
  BY DEF TypeOK, LocalsTyped, HostTyped, MainAlone, LoadsSoFar, Loading,
         Threads, AtWorkers
<1>6. HandlesClosed'
  BY DEF TypeOK, LocalsTyped, HandlesClosed
<1>7. GivenBack'
  BY DEF TypeOK, LocalsTyped, HostTyped, MainAlone, ToldTheSame, GivenBack,
         Undecided, Loading, Threads, AtWorkers, AtFree
<1>8. QED
  BY <1>1, <1>2, <1>3, <1>4, <1>5, <1>6, <1>7

\* IInv is kept by Enter: the first call begins the load, the others see the
\* final status.
LEMMA EnterStep ==
    ASSUME IInv, NEW t \in Threads, Enter(t) PROVE IInv'
<1> USE LoaderAssumption, Lengths, ScriptFacts, NextOfFacts, TakesFacts
    DEF IInv, Enter, AlreadyDone, globals, locals, host
<1>1. TypeOK'
  <2>1. GlobalsTyped'
    BY DEF TypeOK, GlobalsTyped, LocalsTyped, Threads
  <2>2. LocalsTyped'
    BY DEF TypeOK, GlobalsTyped, LocalsTyped, HostTyped, Threads
  <2>3. HostTyped'
    BY DEF TypeOK, HostTyped
  <2> QED BY <2>1, <2>2, <2>3 DEF TypeOK
<1>2. MainAlone'
  BY DEF TypeOK, LocalsTyped, HostTyped, MainAlone, Threads, Loading,
         AtWorkers, AtFree
<1>3. ToldTheSame'
  BY DEF TypeOK, LocalsTyped, HostTyped, MainAlone, ToldTheSame,
         Undecided, Loading, Threads, AtWorkers
<1>4. SlotsBound'
  BY DEF TypeOK, LocalsTyped, HostTyped, MainAlone, SlotsBound, Loading,
         Threads, AtWorkers
<1>5. LoadsSoFar'
  BY DEF TypeOK, LocalsTyped, HostTyped, MainAlone, LoadsSoFar, Loading,
         Threads, AtWorkers
<1>6. HandlesClosed'
  BY DEF TypeOK, LocalsTyped, HandlesClosed
<1>7. GivenBack'
  BY DEF TypeOK, LocalsTyped, HostTyped, MainAlone, ToldTheSame, GivenBack,
         Undecided, Loading, Threads, AtWorkers, AtFree
<1>8. QED
  BY <1>1, <1>2, <1>3, <1>4, <1>5, <1>6, <1>7

\* IInv is kept by TryPath: a DLL is loaded from a path, or not.
LEMMA TryPathStep ==
    ASSUME IInv, NEW t \in Threads, TryPath(t) PROVE IInv'
<1> USE LoaderAssumption, Lengths, ScriptFacts, NextOfFacts, TakesFacts
    DEF IInv, TryPath, Tried, globals, locals, host
<1>1. TypeOK'
  <2>1. GlobalsTyped'
    <3>1. present[at[t]] \in Dlls \union {None}
      BY DEF TypeOK, GlobalsTyped, LocalsTyped, LoadsSoFar
    <3> QED BY <3>1 DEF TypeOK, GlobalsTyped
  <2>2. LocalsTyped'
    BY DEF TypeOK, GlobalsTyped, LocalsTyped, HostTyped, Threads
  <2>3. HostTyped'
    BY DEF TypeOK, HostTyped
  <2> QED BY <2>1, <2>2, <2>3 DEF TypeOK
<1>2. MainAlone'
  BY DEF TypeOK, LocalsTyped, HostTyped, MainAlone, Threads, Loading,
         AtWorkers, AtFree
<1>3. ToldTheSame'
  BY DEF TypeOK, LocalsTyped, HostTyped, MainAlone, ToldTheSame,
         Undecided, Loading, Threads, AtWorkers
<1>4. SlotsBound'
  <2>1. pc' = [pc EXCEPT ![t] = pc'[t]] /\ bound' = bound /\ t = Main
    BY DEF TypeOK, LocalsTyped, MainAlone, Loading
  <2>2. pc'[t] = "symbols" => at'[t] = 1
    BY DEF TypeOK, LocalsTyped
  <2>3. status' = status \/ status' = EUnableToLoad
    OBVIOUS
  <2> QED BY <2>1, <2>2, <2>3 DEF SlotsBound, Ok, EUnableToLoad
<1>5. LoadsSoFar'
  BY DEF TypeOK, LocalsTyped, HostTyped, MainAlone, LoadsSoFar, Loading,
         Threads, AtWorkers
<1>6. HandlesClosed'
  BY DEF TypeOK, LocalsTyped, HandlesClosed
<1>7. GivenBack'
  BY DEF TypeOK, LocalsTyped, HostTyped, MainAlone, ToldTheSame, GivenBack,
         Undecided, Loading, Threads, AtWorkers, AtFree
<1>8. QED
  BY <1>1, <1>2, <1>3, <1>4, <1>5, <1>6, <1>7

\* IInv is kept by StartService: a service is asked for the DLL.
LEMMA StartServiceStep ==
    ASSUME IInv, NEW t \in Threads, StartService(t) PROVE IInv'
<1> USE LoaderAssumption, Lengths, ScriptFacts, NextOfFacts, TakesFacts
    DEF IInv, StartService, globals, locals, host
<1>1. TypeOK'
  <2>1. GlobalsTyped'
    BY DEF TypeOK, GlobalsTyped, LocalsTyped, Threads
  <2>2. LocalsTyped'
    BY DEF TypeOK, GlobalsTyped, LocalsTyped, HostTyped, Threads
  <2>3. HostTyped'
    BY DEF TypeOK, HostTyped
  <2> QED BY <2>1, <2>2, <2>3 DEF TypeOK
<1>2. MainAlone'
  BY DEF TypeOK, LocalsTyped, HostTyped, MainAlone, Threads, Loading,
         AtWorkers, AtFree
<1>3. ToldTheSame'
  BY DEF TypeOK, LocalsTyped, HostTyped, MainAlone, ToldTheSame,
         Undecided, Loading, Threads, AtWorkers
<1>4. SlotsBound'
  BY DEF TypeOK, LocalsTyped, HostTyped, MainAlone, SlotsBound, Loading,
         Threads, AtWorkers
<1>5. LoadsSoFar'
  BY DEF TypeOK, LocalsTyped, HostTyped, MainAlone, LoadsSoFar, Loading,
         Threads, AtWorkers
<1>6. HandlesClosed'
  BY DEF TypeOK, LocalsTyped, HandlesClosed
<1>7. GivenBack'
  BY DEF TypeOK, LocalsTyped, HostTyped, MainAlone, ToldTheSame, GivenBack,
         Undecided, Loading, Threads, AtWorkers, AtFree
<1>8. QED
  BY <1>1, <1>2, <1>3, <1>4, <1>5, <1>6, <1>7

\* IInv is kept by ServiceStep: one more handle of the service manager is held.
LEMMA ServiceStepStep ==
    ASSUME IInv, NEW t \in Threads, ServiceStep(t) PROVE IInv'
<1> USE LoaderAssumption, Lengths, ScriptFacts, NextOfFacts, TakesFacts
    DEF IInv, ServiceStep, StepsBefore, globals, locals, host
<1>1. TypeOK'
  <2>1. GlobalsTyped'
    BY DEF TypeOK, GlobalsTyped, LocalsTyped, Threads
  <2>2. LocalsTyped'
    BY DEF TypeOK, GlobalsTyped, LocalsTyped, HostTyped, Threads
  <2>3. HostTyped'
    BY DEF TypeOK, HostTyped
  <2> QED BY <2>1, <2>2, <2>3 DEF TypeOK
<1>2. MainAlone'
  BY DEF TypeOK, LocalsTyped, HostTyped, MainAlone, Threads, Loading,
         AtWorkers, AtFree
<1>3. ToldTheSame'
  BY DEF TypeOK, LocalsTyped, HostTyped, MainAlone, ToldTheSame,
         Undecided, Loading, Threads, AtWorkers
<1>4. SlotsBound'
  BY DEF TypeOK, LocalsTyped, HostTyped, MainAlone, SlotsBound, Loading,
         Threads, AtWorkers
<1>5. LoadsSoFar'
  BY DEF TypeOK, LocalsTyped, HostTyped, MainAlone, LoadsSoFar, Loading,
         Threads, AtWorkers
<1>6. HandlesClosed'
  BY DEF TypeOK, LocalsTyped, HandlesClosed
<1>7. GivenBack'
  BY DEF TypeOK, LocalsTyped, HostTyped, MainAlone, ToldTheSame, GivenBack,
         Undecided, Loading, Threads, AtWorkers, AtFree
<1>8. QED
  BY <1>1, <1>2, <1>3, <1>4, <1>5, <1>6, <1>7

\* IInv is kept by ServiceEnds: the handles are given back.
LEMMA ServiceEndsStep ==
    ASSUME IInv, NEW t \in Threads, ServiceEnds(t) PROVE IInv'
<1> USE LoaderAssumption, Lengths, ScriptFacts, NextOfFacts, TakesFacts
    DEF IInv, ServiceEnds, Tried, Released, globals, locals, host
<1>1. TypeOK'
  <2>1. GlobalsTyped'
    <3>1. present[at[t]] \in Dlls \union {None}
      BY DEF TypeOK, GlobalsTyped, LocalsTyped, LoadsSoFar
    <3>2. PICK module \in Dlls \union {None} : Tried(t, module)
      BY <3>1
    <3> QED BY <3>2 DEF TypeOK, GlobalsTyped
  <2>2. LocalsTyped'
    BY DEF TypeOK, GlobalsTyped, LocalsTyped, HostTyped, Threads
  <2>3. HostTyped'
    BY DEF TypeOK, HostTyped
  <2> QED BY <2>1, <2>2, <2>3 DEF TypeOK
<1>2. MainAlone'
  BY DEF TypeOK, LocalsTyped, HostTyped, MainAlone, Threads, Loading,
         AtWorkers, AtFree
<1>3. ToldTheSame'
  BY DEF TypeOK, LocalsTyped, HostTyped, MainAlone, ToldTheSame,
         Undecided, Loading, Threads, AtWorkers
<1>4. SlotsBound'
  <2>1. pc' = [pc EXCEPT ![t] = pc'[t]] /\ bound' = bound /\ t = Main
    BY DEF TypeOK, LocalsTyped, MainAlone, Loading
  <2>2. pc'[t] = "symbols" => at'[t] = 1
    BY DEF TypeOK, LocalsTyped
  <2>3. status' = status \/ status' = EUnableToLoad
    OBVIOUS
  <2> QED BY <2>1, <2>2, <2>3 DEF SlotsBound, Ok, EUnableToLoad
<1>5. LoadsSoFar'
  BY DEF TypeOK, LocalsTyped, HostTyped, MainAlone, LoadsSoFar, Loading,
         Threads, AtWorkers
<1>6. HandlesClosed'
  BY DEF TypeOK, LocalsTyped, HandlesClosed
<1>7. GivenBack'
  BY DEF TypeOK, LocalsTyped, HostTyped, MainAlone, ToldTheSame, GivenBack,
         Undecided, Loading, Threads, AtWorkers, AtFree
<1>8. QED
  BY <1>1, <1>2, <1>3, <1>4, <1>5, <1>6, <1>7

\* IInv is kept by Bind: one symbol is bound, or the load has failed.
LEMMA BindStep ==
    ASSUME IInv, NEW t \in Threads, Bind(t) PROVE IInv'
<1> USE LoaderAssumption, Lengths, ScriptFacts, NextOfFacts, TakesFacts
    DEF IInv, Bind, Bindable, globals, locals, host
<1>1. TypeOK'
  <2>1. GlobalsTyped'
    <3>1. Required[at[t]] \in RequiredSet
      BY RequiredFacts DEF TypeOK, LocalsTyped
    <3> QED BY <3>1 DEF TypeOK, GlobalsTyped
  <2>2. LocalsTyped'
    BY DEF TypeOK, GlobalsTyped, LocalsTyped, HostTyped, Threads
  <2>3. HostTyped'
    BY DEF TypeOK, HostTyped
  <2> QED BY <2>1, <2>2, <2>3 DEF TypeOK
<1>2. MainAlone'
  BY DEF TypeOK, LocalsTyped, HostTyped, MainAlone, Threads, Loading,
         AtWorkers, AtFree
<1>3. ToldTheSame'
  BY DEF TypeOK, LocalsTyped, HostTyped, MainAlone, ToldTheSame,
         Undecided, Loading, Threads, AtWorkers
<1>4. SlotsBound'
  <2>1. t = Main /\ at[t] \in 1..9 /\ bound \subseteq bound'
    BY DEF TypeOK, LocalsTyped, MainAlone, Loading
  <2>2. CASE Required[at[t]] \in dll
    <3>1. Required[at[t]] \in bound' /\ at'[t] = at[t] + 1 /\ status' = status
      BY <2>2 DEF TypeOK, LocalsTyped
    <3> QED BY <2>1, <3>1 DEF SlotsBound
  <2>3. CASE Required[at[t]] \notin dll
    BY <2>1, <2>3 DEF SlotsBound, TypeOK, LocalsTyped, Ok, EUnableToLoad
  <2> QED BY <2>2, <2>3
<1>5. LoadsSoFar'
  BY DEF TypeOK, LocalsTyped, HostTyped, MainAlone, LoadsSoFar, Loading,
         Threads, AtWorkers
<1>6. HandlesClosed'
  BY DEF TypeOK, LocalsTyped, HandlesClosed
<1>7. GivenBack'
  BY DEF TypeOK, LocalsTyped, HostTyped, MainAlone, ToldTheSame, GivenBack,
         Undecided, Loading, Threads, AtWorkers, AtFree
<1>8. QED
  BY <1>1, <1>2, <1>3, <1>4, <1>5, <1>6, <1>7

\* IInv is kept by BindOptional: the load has succeeded.
LEMMA BindOptionalStep ==
    ASSUME IInv, NEW t \in Threads, BindOptional(t) PROVE IInv'
<1> USE LoaderAssumption, Lengths, ScriptFacts, NextOfFacts, TakesFacts
    DEF IInv, BindOptional, globals, locals, host
<1>1. TypeOK'
  <2>1. GlobalsTyped'
    BY DEF TypeOK, GlobalsTyped, LocalsTyped, Threads
  <2>2. LocalsTyped'
    BY DEF TypeOK, GlobalsTyped, LocalsTyped, HostTyped, Threads
  <2>3. HostTyped'
    BY DEF TypeOK, HostTyped
  <2> QED BY <2>1, <2>2, <2>3 DEF TypeOK
<1>2. MainAlone'
  BY DEF TypeOK, LocalsTyped, HostTyped, MainAlone, Threads, Loading,
         AtWorkers, AtFree
<1>3. ToldTheSame'
  BY DEF TypeOK, LocalsTyped, HostTyped, MainAlone, ToldTheSame,
         Undecided, Loading, Threads, AtWorkers
<1>4. SlotsBound'
  <2>1. t = Main /\ at[t] = 10
    BY DEF TypeOK, LocalsTyped, MainAlone, Loading
  <2>2. \A n \in 1..9 : Required[n] \in bound
    BY <2>1 DEF SlotsBound
  <2>3. RequiredSet \subseteq bound'
    BY <2>2 DEF RequiredSet
  <2>4. pc'[Main] = "dispatch"
    BY <2>1 DEF TypeOK, LocalsTyped
  <2> QED BY <2>3, <2>4 DEF SlotsBound
<1>5. LoadsSoFar'
  BY DEF TypeOK, LocalsTyped, HostTyped, MainAlone, LoadsSoFar, Loading,
         Threads, AtWorkers
<1>6. HandlesClosed'
  BY DEF TypeOK, LocalsTyped, HandlesClosed
<1>7. GivenBack'
  BY DEF TypeOK, LocalsTyped, HostTyped, MainAlone, ToldTheSame, GivenBack,
         Undecided, Loading, Threads, AtWorkers, AtFree
<1>8. QED
  BY <1>1, <1>2, <1>3, <1>4, <1>5, <1>6, <1>7

\* IInv is kept by Forward: the call goes through a bound slot.
LEMMA ForwardStep ==
    ASSUME IInv, NEW t \in Threads, Forward(t) PROVE IInv'
<1> USE LoaderAssumption, Lengths, ScriptFacts, NextOfFacts, TakesFacts
    DEF IInv, Forward, globals, locals, host
<1>1. TypeOK'
  <2>1. GlobalsTyped'
    BY DEF TypeOK, GlobalsTyped, LocalsTyped, Threads
  <2>2. LocalsTyped'
    BY DEF TypeOK, GlobalsTyped, LocalsTyped, HostTyped, Threads
  <2>3. HostTyped'
    <3>1. Lent(fn[t]) \subseteq {"buffer", "handle"}
      BY DEF Lent, TypeOK, HostTyped
    <3>2. owned' = Lent(fn[t]) \/ owned' = owned
      OBVIOUS
    <3> QED BY <3>1, <3>2 DEF TypeOK, HostTyped
  <2> QED BY <2>1, <2>2, <2>3 DEF TypeOK
<1>2. MainAlone'
  BY DEF TypeOK, LocalsTyped, HostTyped, MainAlone, Threads, Loading,
         AtWorkers, AtFree
<1>3. ToldTheSame'
  BY DEF TypeOK, LocalsTyped, HostTyped, MainAlone, ToldTheSame,
         Undecided, Loading, Threads, AtWorkers
<1>4. SlotsBound'
  BY DEF TypeOK, LocalsTyped, HostTyped, MainAlone, SlotsBound, Loading,
         Threads, AtWorkers
<1>5. LoadsSoFar'
  BY DEF TypeOK, LocalsTyped, HostTyped, MainAlone, LoadsSoFar, Loading,
         Threads, AtWorkers
<1>6. HandlesClosed'
  BY DEF TypeOK, LocalsTyped, HandlesClosed
<1>7. GivenBack'
  <2>1. /\ pc' = [pc EXCEPT ![t] = "returned"] /\ mainAt' = mainAt
        /\ status' = status /\ initialized' = initialized
        /\ ~Undecided /\ status = Ok
    BY DEF ToldTheSame
  <2>2. ~Undecided'
    BY <2>1 DEF Undecided, Loading, TypeOK, LocalsTyped, Threads
  <2>3. CASE t \in Workers
    <3>1. fn[t] = "remote_handle64_invoke" /\ t # Main
      BY <2>3 DEF MainAlone
    <3>2. owned' = owned
      BY <3>1 DEF Lent
    <3> QED BY <2>1, <2>2, <3>1, <3>2 DEF GivenBack, TypeOK, LocalsTyped
  <2>4. CASE t = Main
    <3>1. fn[t] = Script[mainAt] /\ mainAt \in 1..12
      BY <2>4 DEF MainAlone, TypeOK, HostTyped
    <3>2. CASE mainAt = 11
      <4>1. owned' = owned \ {"buffer"}
        BY <3>1, <3>2 DEF Lent
      <4> QED BY <2>1, <2>2, <3>2, <4>1 DEF GivenBack, AtFree
    <3>3. CASE mainAt = 12
      <4>1. owned' = owned \ {"handle"} /\ "buffer" \notin owned
        BY <3>1, <3>3 DEF Lent, GivenBack, AtFree
      <4>2. owned' = {}
        BY <4>1 DEF TypeOK, HostTyped
      <4> QED BY <3>3, <4>2 DEF GivenBack, AtFree
    <3>4. CASE mainAt \in 1..10
      BY <2>1, <2>2, <3>4 DEF GivenBack, AtFree
    <3> QED BY <3>1, <3>2, <3>3, <3>4
  <2> QED BY <2>3, <2>4 DEF Threads
<1>8. QED
  BY <1>1, <1>2, <1>3, <1>4, <1>5, <1>6, <1>7

\* IInv is kept by Fail: the call fails with the status of the load.
LEMMA FailStep ==
    ASSUME IInv, NEW t \in Threads, Fail(t) PROVE IInv'
<1> USE LoaderAssumption, Lengths, ScriptFacts, NextOfFacts, TakesFacts
    DEF IInv, Fail, globals, locals, host
<1>1. TypeOK'
  <2>1. GlobalsTyped'
    BY DEF TypeOK, GlobalsTyped, LocalsTyped, Threads
  <2>2. LocalsTyped'
    BY DEF TypeOK, GlobalsTyped, LocalsTyped, HostTyped, Threads
  <2>3. HostTyped'
    BY DEF TypeOK, HostTyped
  <2> QED BY <2>1, <2>2, <2>3 DEF TypeOK
<1>2. MainAlone'
  BY DEF TypeOK, LocalsTyped, HostTyped, MainAlone, Threads, Loading,
         AtWorkers, AtFree
<1>3. ToldTheSame'
  BY DEF TypeOK, LocalsTyped, HostTyped, MainAlone, ToldTheSame,
         Undecided, Loading, Threads, AtWorkers
<1>4. SlotsBound'
  BY DEF TypeOK, LocalsTyped, HostTyped, MainAlone, SlotsBound, Loading,
         Threads, AtWorkers
<1>5. LoadsSoFar'
  BY DEF TypeOK, LocalsTyped, HostTyped, MainAlone, LoadsSoFar, Loading,
         Threads, AtWorkers
<1>6. HandlesClosed'
  BY DEF TypeOK, LocalsTyped, HandlesClosed
<1>7. GivenBack'
  BY DEF TypeOK, LocalsTyped, HostTyped, MainAlone, ToldTheSame, GivenBack,
         Undecided, Loading, Threads, AtWorkers, AtFree
<1>8. QED
  BY <1>1, <1>2, <1>3, <1>4, <1>5, <1>6, <1>7

\* Every step keeps the inductive invariant.
THEOREM StepInv == IInv /\ [Next]_vars => IInv'
<1> SUFFICES ASSUME IInv, [Next]_vars PROVE IInv'
  OBVIOUS
<1>1. CASE Host
  BY <1>1, MainSkipsStep, MainCallsStep, MainGoesOnStep, JoinedStep, WorkerCallsRemoteStep,
     WorkerGoesOnStep DEF Host
<1>2. CASE \E t \in Threads : Loader(t)
  BY <1>2, EnterStep, TryPathStep, StartServiceStep, ServiceStepStep,
     ServiceEndsStep, BindStep, BindOptionalStep, ForwardStep, FailStep
     DEF Loader
<1>3. CASE UNCHANGED vars
  BY <1>3 DEF vars, globals, locals, host, IInv, TypeOK, GlobalsTyped,
     LocalsTyped, HostTyped, MainAlone, ToldTheSame, SlotsBound, LoadsSoFar,
     HandlesClosed, GivenBack, Loading, Undecided
<1>4. QED
  BY <1>1, <1>2, <1>3 DEF Next

\* The inductive invariant holds in every reachable state.
THEOREM Invariance == Spec => []IInv
BY InitInv, StepInv, PTL DEF Spec

\* Every variable of FastrpcLoader keeps its type.
THEOREM TypeCorrect == Spec => []TypeOK
<1>1. IInv => TypeOK
  BY DEF IInv
<1>2. QED
  BY <1>1, Invariance, PTL

\* No call goes through a slot that is null, whatever DLLs there are and however
\* many workers call (fastrpc_windows.c:225-319).
THEOREM NoNullSlot == Spec => []BoundCalls
<1>1. IInv => BoundCalls
  <2> SUFFICES ASSUME IInv, NEW t \in Threads, pc[t] = "dispatch", seen[t] = Ok
               PROVE  fn[t] \in bound
    BY DEF BoundCalls
  <2>1. RequiredSet \subseteq bound
    BY DEF IInv, ToldTheSame, SlotsBound
  <2>2. fn[t] \in RequiredSet
    <3>1. CASE t \in Workers
      BY <3>1, ScriptFacts DEF IInv, MainAlone
    <3>2. CASE t = Main
      <4>1. fn[t] = Script[mainAt] /\ mainAt \in 1..12 /\ mainAt # 10
        BY <3>2, Lengths DEF IInv, MainAlone, TypeOK, HostTyped, AtWorkers
      <4> QED BY <4>1, ScriptFacts
    <3> QED BY <3>1, <3>2 DEF Threads
  <2> QED BY <2>1, <2>2
<1>2. QED
  BY <1>1, Invariance, PTL

\* load_from_service gives back all it took, on every path.
THEOREM ServiceClean == Spec => []HandlesClosed
<1>1. IInv => HandlesClosed
  BY DEF IInv
<1>2. QED
  BY <1>1, Invariance, PTL

\* The search ends with the first DLL that could be loaded.
THEOREM OneDll == Spec => []LoadedOnce
<1>1. IInv => LoadedOnce
  BY DEF IInv, LoadsSoFar, LoadedOnce
<1>2. QED
  BY <1>1, Invariance, PTL

\* What main got through the DLL it gives back through it.
THEOREM AllGivenBack == Spec => []NothingLost
<1>1. IInv => NothingLost
  BY DEF IInv, GivenBack, NothingLost
<1>2. QED
  BY <1>1, Invariance, PTL

-----------------------------------------------------------------------------
(* The refinement.                                                         *)

\* A step that decides nothing and after which everybody has been told what
\* they had been told.
LEMMA Hidden ==
    ASSUME IInv,
           \/ Joined \/ MainSkips
           \/ \E t \in Threads : Enter(t) \/ StartService(t) \/ ServiceStep(t)
    PROVE  UNCHANGED Abstract!vars
<1>1. (Undecided' <=> Undecided) /\ status' = status
  <2>1. CASE Joined \/ MainSkips
    BY <2>1 DEF Joined, MainSkips, Undecided, Loading, globals, locals
  <2>2. CASE \E t \in Threads : Enter(t)
    BY <2>2 DEF Enter, AlreadyDone, Undecided, Loading, IInv, TypeOK,
       LocalsTyped
  <2>3. CASE \E t \in Threads : StartService(t) \/ ServiceStep(t)
    BY <2>3 DEF StartService, ServiceStep, Undecided, Loading, globals, IInv,
       TypeOK, LocalsTyped
  <2> QED BY <2>1, <2>2, <2>3
<1>2. \A t \in Threads : Told(t)' = Told(t)
  BY DEF Joined, MainSkips, Enter, StartService, ServiceStep, Told, locals, globals,
     IInv,
     TypeOK, LocalsTyped
<1>3. QED
  BY <1>1, <1>2 DEF Abstract!vars

\* A call begins.
LEMMA CallIsAsk ==
    ASSUME IInv, NEW t \in Threads, NEW f, Begin(t, f)
    PROVE  Abstract!Ask(t)
<1> USE DEF IInv, TypeOK, LocalsTyped, Begin, globals
<1>1. (Undecided' <=> Undecided) /\ status' = status
  BY DEF Undecided, Loading
<1>2. Told(t) = "idle" /\ Told(t)' = "waiting"
  BY DEF Told
<1>3. \A u \in Threads \ {t} : Told(u)' = Told(u)
  BY DEF Told
<1>4. QED
  BY <1>1, <1>2, <1>3 DEF Abstract!Ask

\* A call is over.
LEMMA GoesOnIsDone ==
    ASSUME IInv, NEW t \in Threads, pc[t] = "returned",
           pc' = [pc EXCEPT ![t] = "idle"], UNCHANGED <<globals, seen>>
    PROVE  Abstract!Done(t)
<1> USE DEF IInv, TypeOK, LocalsTyped, globals
<1>1. (Undecided' <=> Undecided) /\ status' = status
  BY DEF Undecided, Loading
<1>2. Told(t) \in {Ok, EUnableToLoad} /\ Told(t)' = "idle"
  BY DEF Told, ToldTheSame
<1>3. \A u \in Threads \ {t} : Told(u)' = Told(u)
  BY DEF Told
<1>4. Told(t) \notin {"idle", "waiting"}
  BY <1>2 DEF Ok, EUnableToLoad
<1>5. QED
  BY <1>1, <1>2, <1>3, <1>4 DEF Abstract!Done

\* The loading thread goes on, or decides.
LEMMA LoadIsDecide ==
    ASSUME IInv, NEW t \in Threads,
           TryPath(t) \/ ServiceEnds(t) \/ Bind(t) \/ BindOptional(t)
    PROVE  Abstract!Decide \/ UNCHANGED Abstract!vars
<1> USE DEF IInv, TypeOK, LocalsTyped
<1>1. Loading(t) /\ Undecided /\ Told(t) = "waiting"
  BY DEF TryPath, ServiceEnds, Bind, BindOptional, Loading, Undecided, Told
<1>2. \A u \in Threads \ {t} : ~Loading(u)
  BY <1>1 DEF MainAlone
<1>3. /\ initialized' = initialized /\ initialized = TRUE
      /\ pc' = [pc EXCEPT ![t] = pc'[t]]
      /\ \A u \in Threads \ {t} : seen'[u] = seen[u]
      /\ pc'[t] \in {"source", "symbols", "dispatch"}
      /\ pc'[t] = "dispatch" => status' \in {Ok, EUnableToLoad}
  BY <1>1 DEF TryPath, ServiceEnds, Bind, BindOptional, Tried, MainAlone,
     GlobalsTyped
<1>4. \A u \in Threads : Told(u)' = Told(u)
  BY <1>1, <1>3 DEF Told, Loading
<1>5. CASE pc'[t] = "dispatch"
  <2>1. ~Undecided'
    BY <1>2, <1>3, <1>5 DEF Undecided, Loading
  <2> QED BY <1>1, <1>3, <1>4, <1>5, <2>1 DEF Abstract!Decide
<1>6. CASE pc'[t] # "dispatch"
  <2>1. Undecided'
    BY <1>3, <1>6 DEF Undecided, Loading
  <2> QED BY <1>1, <1>4, <2>1 DEF Abstract!vars
<1>7. QED
  BY <1>5, <1>6

\* A call is told the verdict.
LEMMA ReturnIsTell ==
    ASSUME IInv, NEW t \in Threads, Forward(t) \/ Fail(t)
    PROVE  Abstract!Tell(t)
<1> USE DEF IInv, TypeOK, LocalsTyped, Forward, Fail, globals
<1>1. (Undecided' <=> Undecided) /\ ~Undecided /\ status' = status
  BY DEF Undecided, Loading, ToldTheSame
<1>2. Told(t) = "waiting" /\ Told(t)' = status
  BY DEF Told, ToldTheSame
<1>3. \A u \in Threads \ {t} : Told(u)' = Told(u)
  BY DEF Told
<1>4. status # "none"
  BY <1>1 DEF ToldTheSame, Ok, EUnableToLoad
<1>5. QED
  <2> HIDE DEF IInv, TypeOK, LocalsTyped, Forward, Fail, globals
  <2> QED BY <1>1, <1>2, <1>3, <1>4 DEF Abstract!Tell

\* However early the loader marks itself initialized, every call of every thread
\* is told the one verdict, for any number of workers and calls
\* (fastrpc_windows.c:175-223).
THEOREM Refinement == Spec => Abstract!Spec
<1>1. Init => Abstract!Init
  BY DEF Init, Undecided, Told, Abstract!Init
<1>2. IInv /\ [Next]_vars => [Abstract!Next]_(Abstract!vars)
  <2> SUFFICES ASSUME IInv, [Next]_vars, ~UNCHANGED Abstract!vars
               PROVE  Abstract!Next
    OBVIOUS
  <2>1. CASE UNCHANGED vars
    <3>1. UNCHANGED Abstract!vars
      BY <2>1 DEF vars, globals, locals, host, Abstract!vars, Told, Undecided,
         Loading
    <3> QED BY <3>1
  <2>2. CASE MainCalls
    BY <2>2, CallIsAsk DEF MainCalls, Threads, Abstract!Next
  <2>3. CASE MainGoesOn
    BY <2>3, GoesOnIsDone DEF MainGoesOn, Threads, Abstract!Next
  <2>4. CASE Joined \/ MainSkips
    BY <2>4, Hidden
  <2>5. CASE \E w \in Workers : WorkerCallsRemote(w) \/ WorkerGoesOn(w)
    BY <2>5, CallIsAsk, GoesOnIsDone DEF WorkerCallsRemote, WorkerGoesOn,
       Threads, Abstract!Next
  <2>6. CASE \E t \in Threads : Loader(t)
    BY <2>6, Hidden, LoadIsDecide, ReturnIsTell DEF Loader, Abstract!Next
  <2> QED BY <2>1, <2>2, <2>3, <2>4, <2>5, <2>6 DEF Next, Host
<1>3. QED
  BY <1>1, <1>2, Invariance, PTL DEF Spec, Abstract!Spec
==============================================================================
