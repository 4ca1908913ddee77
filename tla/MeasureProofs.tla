--------------------------- MODULE MeasureProofs ---------------------------
(***************************************************************************)
(* Proofs about Measure for every number of workers, every amount of work  *)
(* and all sets of errors, cycle counts and checksums: the invariant IInv  *)
(* is inductive, the four safety properties the runs check follow from it, *)
(* and Measure implements MeasureAtomic.                                   *)
(***************************************************************************)
EXTENDS Measure, WellFoundedInduction, TLAPS

\* The collect loop stops at the lowest-numbered failing worker: if there is a
\* failing one, FirstFailing is one.
LEMMA FirstFailingFails == Failing # {} => FirstFailing \in Failing
<1>1. SUFFICES ASSUME Failing # {}
               PROVE  \E t \in Failing : \A u \in Failing : t <= u
  BY <1>1 DEF FirstFailing
<1>2. Failing \subseteq Nat
  BY NAssumption DEF Failing, Workers
<1>3. \E t \in Failing : \A u \in Failing :
          <<u, t>> \notin OpToRel(<, Nat)
  BY <1>1, <1>2, NatLessThanWellFounded, WFMin
<1>4. PICK t \in Failing : \A u \in Failing : ~(u < t)
  BY <1>2, <1>3 DEF OpToRel
<1>5. QED
  BY <1>2, <1>4

\* The count of a result, a product of two parameters, is a natural number.
LEMMA CountIsNat == Per * N \in Nat
BY NAssumption, PerAssumption

\* The errors a call can return are never Ok.
LEMMA ErrorsAreErrors ==
    /\ NoMem # Ok /\ Again # Ok /\ Failed # Ok
    /\ \A e \in WorkerErrors : e # Ok
BY ErrorsAssumption DEF WorkerErrors

\* The initial states satisfy the inductive invariant.
THEOREM InitInv == Init => IInv
<1> SUFFICES ASSUME Init PROVE IInv
  OBVIOUS
<1> USE NAssumption, PerAssumption, ErrorsAssumption DEF Init
<1>1. TypeOK
  BY DEF TypeOK, Pcs, Arg, Span, Blank, NoResult, WorkerErrors, Errors
<1>2. HeapInv
  BY DEF HeapInv, Before
<1>3. ThreadInv
  BY DEF ThreadInv, Before, After, Running, Workers
<1>4. WorkInv
  BY DEF WorkInv, Running, Exited, Blank
<1>5. CountInv
  BY DEF CountInv, After
<1>6. TimeInv
  BY DEF TimeInv, Exited, After
<1>7. QED
  BY <1>1, <1>2, <1>3, <1>4, <1>5, <1>6 DEF IInv

\* IInv is kept by AllocArgs: callocs the argument array or gives up.
LEMMA AllocArgsStep ==
    ASSUME IInv, AllocArgs PROVE IInv'
<1> USE NAssumption, PerAssumption, ErrorsAssumption, DataAssumption,
        CountIsNat, ErrorsAreErrors DEF IInv, AllocArgs, Return
<1>1. TypeOK'
  BY DEF Pcs, Arg, Span, WorkerErrors, Errors, Workers, TypeOK
<1>2. HeapInv'
  BY DEF Before, TypeOK, HeapInv
<1>3. ThreadInv'
  BY DEF Before, After, Running, Workers, TypeOK, HeapInv, ThreadInv
<1>4. WorkInv'
  BY DEF Running, Exited, Before, Workers, TypeOK, WorkInv, ThreadInv
<1>5. CountInv'
  BY DEF After, Exited, TypeOK, HeapInv, ThreadInv, WorkInv, CountInv
<1>6. TimeInv'
  BY SMTT(60) DEF Exited, After, Before, Span, Running, Workers, TypeOK, ThreadInv, WorkInv, TimeInv
<1>7. QED
  BY <1>1, <1>2, <1>3, <1>4, <1>5, <1>6

\* IInv is kept by AllocThreads: callocs the thread array or gives up.
LEMMA AllocThreadsStep ==
    ASSUME IInv, AllocThreads PROVE IInv'
<1> USE NAssumption, PerAssumption, ErrorsAssumption, DataAssumption,
        CountIsNat, ErrorsAreErrors DEF IInv, AllocThreads, Return
<1>1. TypeOK'
  BY DEF Pcs, Arg, Span, WorkerErrors, Errors, Workers, TypeOK
<1>2. HeapInv'
  BY DEF Before, TypeOK, HeapInv
<1>3. ThreadInv'
  BY DEF Before, After, Running, Workers, TypeOK, HeapInv, ThreadInv
<1>4. WorkInv'
  BY DEF Running, Exited, Before, Workers, TypeOK, WorkInv, ThreadInv
<1>5. CountInv'
  BY DEF After, Exited, TypeOK, HeapInv, ThreadInv, WorkInv, CountInv
<1>6. TimeInv'
  BY DEF Exited, After, Before, Span, Running, Workers, TypeOK, ThreadInv, WorkInv, TimeInv
<1>7. QED
  BY <1>1, <1>2, <1>3, <1>4, <1>5, <1>6

\* IInv is kept by Start: takes the start time.
LEMMA StartStep ==
    ASSUME IInv, Start PROVE IInv'
<1> USE NAssumption, PerAssumption, ErrorsAssumption, DataAssumption,
        CountIsNat, ErrorsAreErrors DEF IInv, Start
<1>1. TypeOK'
  BY DEF Pcs, Arg, Span, WorkerErrors, Errors, Workers, TypeOK
<1>2. HeapInv'
  BY DEF Before, TypeOK, HeapInv
<1>3. ThreadInv'
  BY DEF Before, After, Running, Workers, TypeOK, HeapInv, ThreadInv
<1>4. WorkInv'
  <2>1. \A t \in Workers : /\ thr[t] = "none" /\ done[t] = 0
                           /\ args[t].err = Ok
    BY DEF ThreadInv, WorkInv, Before
  <2>2. \A t \in Workers : thr'[t] \in {"none", "ready"}
    BY <2>1 DEF TypeOK, Workers
  <2>3. QED
    BY <2>1, <2>2 DEF WorkInv, Running, Exited
<1>5. CountInv'
  BY DEF After, Exited, TypeOK, HeapInv, ThreadInv, WorkInv, CountInv
<1>6. TimeInv'
  BY DEF Exited, After, Before, Span, Running, Workers, TypeOK, ThreadInv, WorkInv, TimeInv
<1>7. QED
  BY <1>1, <1>2, <1>3, <1>4, <1>5, <1>6

\* IInv is kept by SpawnOk: creates a worker.
LEMMA SpawnOkStep ==
    ASSUME IInv, SpawnOk PROVE IInv'
<1> USE NAssumption, PerAssumption, ErrorsAssumption, DataAssumption,
        CountIsNat, ErrorsAreErrors DEF IInv, SpawnOk
<1>1. TypeOK'
  <2>1. created < N /\ created \in 0..N
    BY DEF TypeOK, ThreadInv
  <2>2. created' \in 0..N /\ created + 1 \in Workers
    BY <2>1 DEF Workers
  <2>3. thr' \in [Workers -> {"none", "ready", "calling", "exited", "joined"}]
    BY <2>2 DEF TypeOK
  <2>4. QED
    BY <2>2, <2>3 DEF TypeOK, Pcs
<1>2. HeapInv'
  BY DEF Before, TypeOK, HeapInv
<1>3. ThreadInv'
  BY DEF Before, After, Running, Workers, TypeOK, HeapInv, ThreadInv
<1>4. WorkInv'
  <2>1. created + 1 \in Workers /\ thr[created + 1] = "none"
    BY DEF TypeOK, ThreadInv, HeapInv, Workers
  <2>2. thr'[created + 1] = "ready"
    BY <2>1 DEF TypeOK
  <2>3. \A t \in Workers : t # created + 1 => thr'[t] = thr[t]
    BY DEF TypeOK
  <2>4. QED
    BY <2>1, <2>2, <2>3 DEF WorkInv, Running, Exited
<1>5. CountInv'
  BY DEF After, Exited, TypeOK, HeapInv, ThreadInv, WorkInv, CountInv
<1>6. TimeInv'
  BY SMTT(60) DEF Exited, After, Before, Span, Running, Workers, TypeOK, ThreadInv, WorkInv, TimeInv
<1>7. QED
  BY <1>1, <1>2, <1>3, <1>4, <1>5, <1>6

\* IInv is kept by SpawnFails: fails to create a worker.
LEMMA SpawnFailsStep ==
    ASSUME IInv, SpawnFails PROVE IInv'
<1> USE NAssumption, PerAssumption, ErrorsAssumption, DataAssumption,
        CountIsNat, ErrorsAreErrors DEF IInv, SpawnFails
<1>1. TypeOK'
  BY DEF Pcs, Arg, Span, WorkerErrors, Errors, Workers, TypeOK
<1>2. HeapInv'
  BY DEF Before, TypeOK, HeapInv
<1>3. ThreadInv'
  BY DEF Before, After, Running, Workers, TypeOK, HeapInv, ThreadInv
<1>4. WorkInv'
  BY DEF Running, Exited, Before, Workers, TypeOK, WorkInv, ThreadInv
<1>5. CountInv'
  BY DEF After, Exited, TypeOK, HeapInv, ThreadInv, WorkInv, CountInv
<1>6. TimeInv'
  BY DEF Exited, After, Before, Span, Running, Workers, TypeOK, ThreadInv, WorkInv, TimeInv
<1>7. QED
  BY <1>1, <1>2, <1>3, <1>4, <1>5, <1>6

\* IInv is kept by Join: joins a worker.
LEMMA JoinStep ==
    ASSUME IInv, Join PROVE IInv'
<1> USE NAssumption, PerAssumption, ErrorsAssumption, DataAssumption,
        CountIsNat, ErrorsAreErrors DEF IInv, Join, ToJoin
<1>1. TypeOK'
  <2>1. joined' \in 0..N /\ joined + 1 \in Workers
    BY DEF TypeOK, Workers
  <2>2. thr' \in [Workers -> {"none", "ready", "calling", "exited", "joined"}]
    BY DEF TypeOK
  <2>3. QED
    BY <2>1, <2>2 DEF TypeOK
<1>2. HeapInv'
  BY DEF Before, TypeOK, HeapInv
<1>3. ThreadInv'
  BY DEF Before, After, Running, Workers, TypeOK, HeapInv, ThreadInv
<1>4. WorkInv'
  BY DEF Running, Exited, Before, Workers, TypeOK, WorkInv, ThreadInv
<1>5. CountInv'
  BY DEF After, Exited, TypeOK, HeapInv, ThreadInv, WorkInv, CountInv
<1>6. TimeInv'
  <2>1. UNCHANGED <<pc, clock, watch, span, done>>
    OBVIOUS
  <2>2. \A t \in Workers : \/ thr'[t] = thr[t]
                           \/ thr[t] = "exited" /\ thr'[t] = "joined"
    BY DEF TypeOK, Workers
  <2>3. QED
    BY <2>1, <2>2 DEF TimeInv, Exited
<1>7. QED
  BY <1>1, <1>2, <1>3, <1>4, <1>5, <1>6

\* IInv is kept by Stop: takes the stop time.
LEMMA StopStep ==
    ASSUME IInv, Stop PROVE IInv'
<1> USE NAssumption, PerAssumption, ErrorsAssumption, DataAssumption,
        CountIsNat, ErrorsAreErrors DEF IInv, Stop, Finished, ToJoin, NoResult
<1>1. TypeOK'
  BY DEF Pcs, Arg, Span, WorkerErrors, Errors, Workers, TypeOK
<1>2. HeapInv'
  BY DEF Before, TypeOK, HeapInv
<1>3. ThreadInv'
  <2>1. CASE N = 1
    <3>1. thr[1] = "exited" \/ pc = "join"
      BY DEF Finished
    <3>2. pc # "join"
      BY <2>1 DEF HeapInv
    <3>3. QED
      BY <2>1, <3>1, <3>2 DEF ThreadInv, TypeOK, Workers, Before, After, Running
  <2>2. CASE N > 1
    <3>1. joined = created /\ pc = "join"
      BY <2>2 DEF Finished, ToJoin, HeapInv
    <3>2. \A t \in Workers : thr[t] \in {"none", "joined"}
      BY <2>2, <3>1 DEF ThreadInv, TypeOK, Workers
    <3>3. \A t \in Workers : ~Running(t)'
      BY <3>2 DEF Running
    <3>4. pc' = "collect" /\ UNCHANGED <<thr, created, joined, err>>
      OBVIOUS
    <3>5. N # 1
      BY <2>2
    <3>6. QED
      BY <2>2, <3>1, <3>3, <3>4, <3>5 DEF ThreadInv, Before, After
  <2>3. QED
    BY <2>1, <2>2
<1>4. WorkInv'
  BY DEF Running, Exited, Before, Workers, TypeOK, WorkInv, ThreadInv
<1>5. CountInv'
  BY DEF After, Exited, TypeOK, HeapInv, ThreadInv, WorkInv, CountInv
<1>6. TimeInv'
  BY DEF Exited, After, Before, Span, Running, Workers, TypeOK, ThreadInv, WorkInv, TimeInv
<1>7. QED
  BY <1>1, <1>2, <1>3, <1>4, <1>5, <1>6

\* IInv is kept by Collect: folds the answers and frees.
LEMMA CollectStep ==
    ASSUME IInv, Collect PROVE IInv'
<1> USE NAssumption, PerAssumption, ErrorsAssumption, DataAssumption,
        CountIsNat, ErrorsAreErrors DEF IInv, Collect, Return
<1>1. TypeOK'
  <2>1. Failing # {} => args[FirstFailing].err \in Errors
    BY FirstFailingFails DEF Failing, TypeOK, Arg, Errors
  <2>2. err' \in Errors \cup {Ok}
    BY <2>1 DEF TypeOK, Errors
  <2>3. result'.count \in Nat
    BY DEF TypeOK
  <2>4. QED
    BY <2>2, <2>3 DEF TypeOK, Pcs
<1>2. HeapInv'
  BY DEF Before, TypeOK, HeapInv
<1>3. ThreadInv'
  BY DEF Before, After, Running, Workers, TypeOK, HeapInv, ThreadInv
<1>4. WorkInv'
  BY DEF Running, Exited, Before, Workers, TypeOK, WorkInv, ThreadInv
<1>5. CountInv'
  <2> SUFFICES ASSUME err' = Ok
               PROVE  /\ result'.count = Per * N
                      /\ \A t \in Workers : Exited(t) /\ args[t].err = Ok
    BY DEF CountInv, Exited
  <2>1. err = Ok
    OBVIOUS
  <2>2. Failing = {}
    <3>1. Failing # {} => args[FirstFailing].err # Ok
      BY FirstFailingFails DEF Failing
    <3>2. QED
      BY <2>1, <3>1
  <2>3. \A t \in Workers : args[t].err = Ok
    BY <2>2 DEF Failing
  <2>4. result'.count = Per * N
    BY <2>1 DEF CountInv, After
  <2>5. \A t \in Workers : Exited(t)
    BY <2>1 DEF ThreadInv, Exited, Workers, After, TypeOK
  <2>6. QED
    BY <2>3, <2>4, <2>5
<1>6. TimeInv'
  BY DEF Exited, After, Before, Span, Running, Workers, TypeOK, ThreadInv, WorkInv, TimeInv
<1>7. QED
  BY <1>1, <1>2, <1>3, <1>4, <1>5, <1>6

\* IInv is kept by Invoke: worker enters the DSP.
LEMMA InvokeStep ==
    ASSUME IInv, NEW t \in Workers, Invoke(t) PROVE IInv'
<1> USE NAssumption, PerAssumption, ErrorsAssumption, DataAssumption,
        CountIsNat, ErrorsAreErrors DEF IInv, Invoke
<1>1. TypeOK'
  <2>1. thr' \in [Workers -> {"none", "ready", "calling", "exited", "joined"}]
    BY DEF TypeOK
  <2>2. span' \in [Workers -> Span]
    BY DEF TypeOK, Span
  <2>3. QED
    BY <2>1, <2>2 DEF TypeOK
<1>2. HeapInv'
  BY DEF Before, TypeOK, HeapInv
<1>3. ThreadInv'
  BY DEF Before, After, Running, Workers, TypeOK, HeapInv, ThreadInv
<1>4. WorkInv'
  BY DEF Running, Exited, Before, Workers, TypeOK, WorkInv, ThreadInv
<1>5. CountInv'
  BY DEF After, Exited, TypeOK, HeapInv, ThreadInv, WorkInv, CountInv
<1>6. TimeInv'
  <2>1. /\ span'[t].to = clock
        /\ \/ span'[t].from = clock
           \/ span'[t].from = span[t].from /\ done[t] > 0
    BY DEF TypeOK, Span
  <2>2. \A u \in Workers : u # t => span'[u] = span[u] /\ thr'[u] = thr[u]
    BY DEF TypeOK
  <2>3. pc \notin After
    BY DEF ThreadInv, Running, After
  <2>4. watch.start <= span'[t].from
    BY <2>1 DEF TimeInv, TypeOK
  <2>5. QED
    BY <2>1, <2>2, <2>3, <2>4 DEF TimeInv, TypeOK, Span, Exited
<1>7. QED
  BY <1>1, <1>2, <1>3, <1>4, <1>5, <1>6

\* A worker whose call came back: what the three kinds of worker have in common.
LEMMA AnswersStep ==
    ASSUME IInv, NEW t \in Workers, NEW a \in Arg, NEW work \in Nat,
           NEW next \in {"ready", "exited"}, Answers(t, a, work, next),
           done[t] + work <= Per,
           next = "exited" /\ a.err = Ok => done[t] + work = Per,
           next = "ready" => /\ kind = "rpc" /\ a.err = Ok
                             /\ done[t] + work < Per
    PROVE  IInv'
<1> USE NAssumption, PerAssumption DEF IInv, Answers, mainVars
<1>1. TypeOK'
  <2>1. done'[t] \in 0..Per
    BY DEF TypeOK
  <2>2. done' \in [Workers -> 0..Per]
    BY <2>1 DEF TypeOK
  <2>3. span' \in [Workers -> Span]
    BY DEF TypeOK, Span
  <2>4. args' \in [Workers -> Arg]
    BY DEF TypeOK
  <2>5. thr' \in [Workers -> {"none", "ready", "calling", "exited", "joined"}]
    BY DEF TypeOK
  <2>6. QED
    BY <2>2, <2>3, <2>4, <2>5 DEF TypeOK
<1>2. HeapInv'
  BY DEF HeapInv
<1>3. ThreadInv'
  <2>1. thr'[t] \notin {"none", "joined"} /\ thr[t] \notin {"none", "joined"}
    BY DEF TypeOK
  <2>2. \A u \in Workers : u # t => thr'[u] = thr[u]
    BY DEF TypeOK
  <2>3. pc \notin Before \cup After
    BY DEF TypeOK, ThreadInv, Before, After, Running
  <2>4. pc \notin {"alloc_args", "alloc_threads", "start", "collect", "returned"}
    BY <2>3 DEF Before, After
  <2>5. QED
    BY <2>1, <2>2, <2>4 DEF ThreadInv, Before, After, Running, TypeOK, Workers
<1>4. WorkInv'
  <2> SUFFICES ASSUME NEW u \in Workers
               PROVE  /\ thr'[u] = "none" => done'[u] = 0 /\ args'[u].err = Ok
                      /\ Running(u)' => done'[u] < Per /\ args'[u].err = Ok
                      /\ Running(u)' /\ kind # "rpc" => done'[u] = 0
                      /\ Exited(u)' /\ args'[u].err = Ok => done'[u] = Per
    BY DEF WorkInv
  <2>1. CASE u = t
    BY <2>1 DEF TypeOK, Running, Exited
  <2>2. CASE u # t
    BY <2>2 DEF TypeOK, Running, Exited, WorkInv
  <2>3. QED
    BY <2>1, <2>2
<1>5. CountInv'
  BY DEF CountInv, ThreadInv, Running, After, TypeOK
<1>6. TimeInv'
  <2>1. span'[t].from = span[t].from /\ span'[t].to = clock
    BY DEF TypeOK, Span
  <2>2. \A u \in Workers : u # t => /\ span'[u] = span[u]
                                    /\ thr'[u] = thr[u] /\ done'[u] = done[u]
    BY DEF TypeOK
  <2>3. pc \notin After
    BY DEF ThreadInv, Running, After
  <2>4. watch.start <= span[t].from
    BY DEF TimeInv
  <2>5. QED
    BY <2>1, <2>2, <2>3, <2>4 DEF TimeInv, TypeOK, Span, Exited
<1>7. QED
  BY <1>1, <1>2, <1>3, <1>4, <1>5, <1>6

\* IInv is kept by RpcReturn: rpc call comes back.
LEMMA RpcReturnStep ==
    ASSUME IInv, NEW t \in Workers, RpcReturn(t) PROVE IInv'
<1> USE NAssumption, PerAssumption, ErrorsAreErrors
<1>1. Blank \in Arg /\ Blank.err = Ok
  BY DEF Blank, Arg
<1>2. done[t] \in Nat /\ done[t] < Per
  BY DEF IInv, TypeOK, WorkInv, Running, RpcReturn, Answers
<1>3. ASSUME NEW e \in DspErrors, Answers(t, Error(e), 0, "exited")
      PROVE  IInv'
  <2>1. Error(e) \in Arg /\ Error(e).err # Ok
    BY DEF Error, Blank, Arg, WorkerErrors
  <2>2. QED
    BY <1>2, <1>3, <2>1, AnswersStep
<1>4. ASSUME MoreCalls(t), Answers(t, Blank, 1, "ready") PROVE IInv'
  BY <1>1, <1>2, <1>4, AnswersStep DEF RpcReturn, MoreCalls
<1>5. ASSUME ~MoreCalls(t), NEW c \in Checksums,
             Answers(t, [Blank EXCEPT !.checksum = c], 1, "exited")
      PROVE  IInv'
  <2>1. [Blank EXCEPT !.checksum = c] \in Arg
    BY DEF Blank, Arg
  <2>2. done[t] + 1 = Per
    BY <1>2, <1>5 DEF MoreCalls
  <2>3. QED
    BY <1>5, <2>1, <2>2, AnswersStep
<1>6. QED
  BY <1>3, <1>4, <1>5 DEF RpcReturn

\* IInv is kept by BenchReturn: benchmark call comes back.
LEMMA BenchReturnStep ==
    ASSUME IInv, NEW t \in Workers, BenchReturn(t) PROVE IInv'
<1> USE NAssumption, PerAssumption, ErrorsAreErrors
<1>1. done[t] = 0
  BY DEF IInv, WorkInv, Running, BenchReturn, Answers
<1>2. ASSUME NEW e \in DspErrors, Answers(t, Error(e), 0, "exited")
      PROVE  IInv'
  <2>1. Error(e) \in Arg /\ Error(e).err # Ok
    BY DEF Error, Blank, Arg, WorkerErrors
  <2>2. QED
    BY <1>1, <1>2, <2>1, AnswersStep
<1>3. ASSUME NEW n \in Cycles, NEW c \in Checksums,
             Answers(t, [err |-> Ok, cycles |-> n, checksum |-> c], Per,
                     "exited")
      PROVE  IInv'
  <2>1. [err |-> Ok, cycles |-> n, checksum |-> c] \in Arg
    BY DEF Arg
  <2>2. QED
    BY <1>1, <1>3, <2>1, AnswersStep
<1>4. QED
  BY <1>2, <1>3 DEF BenchReturn

\* IInv is kept by CopyReturn: copy comes back and is verified.
LEMMA CopyReturnStep ==
    ASSUME IInv, NEW t \in Workers, CopyReturn(t) PROVE IInv'
<1> USE NAssumption, PerAssumption, ErrorsAreErrors
<1>1. done[t] = 0
  BY DEF IInv, WorkInv, Running, CopyReturn, Answers
<1>2. ASSUME NEW e \in DspErrors, Answers(t, Error(e), 0, "exited")
      PROVE  IInv'
  <2>1. Error(e) \in Arg /\ Error(e).err # Ok
    BY DEF Error, Blank, Arg, WorkerErrors
  <2>2. QED
    BY <1>1, <1>2, <2>1, AnswersStep
<1>3. ASSUME NEW n \in Cycles, NEW c \in Checksums,
             NEW verdict \in {Ok, Failed},
             Answers(t, [err |-> verdict, cycles |-> n, checksum |-> c], Per,
                     "exited")
      PROVE  IInv'
  <2>1. [err |-> verdict, cycles |-> n, checksum |-> c] \in Arg
    BY DEF Arg, WorkerErrors
  <2>2. QED
    BY <1>1, <1>3, <2>1, AnswersStep
<1>4. QED
  BY <1>2, <1>3 DEF CopyReturn

\* IInv is kept by Tick: time passes.
LEMMA TickStep ==
    ASSUME IInv, Tick PROVE IInv'
<1> USE NAssumption, PerAssumption, ErrorsAssumption, DataAssumption,
        CountIsNat, ErrorsAreErrors DEF IInv, Tick, mainVars
<1>1. TypeOK'
  BY DEF TypeOK
<1>2. HeapInv'
  BY DEF Before, TypeOK, HeapInv
<1>3. ThreadInv'
  BY DEF Before, After, Running, Workers, TypeOK, HeapInv, ThreadInv
<1>4. WorkInv'
  BY DEF WorkInv, Running, Exited
<1>5. CountInv'
  BY DEF After, Exited, TypeOK, HeapInv, ThreadInv, WorkInv, CountInv
<1>6. TimeInv'
  <2>1. /\ clock \in Nat /\ clock' = clock + 1
        /\ watch.start \in Nat /\ watch.stop \in Nat
        /\ \A t \in Workers : span[t].from \in Nat /\ span[t].to \in Nat
    BY DEF TypeOK, Span
  <2>2. UNCHANGED <<pc, thr, done, watch, span>>
    OBVIOUS
  <2>3. QED
    BY <2>1, <2>2 DEF TimeInv, Exited
<1>7. QED
  BY <1>1, <1>2, <1>3, <1>4, <1>5, <1>6

\* IInv is inductive.
THEOREM NextInv == IInv /\ [Next]_vars => IInv'
<1> SUFFICES ASSUME IInv, [Next]_vars PROVE IInv'
  OBVIOUS
<1>1. CASE Main
  BY <1>1, AllocArgsStep, AllocThreadsStep, StartStep, SpawnOkStep,
     SpawnFailsStep, JoinStep, StopStep, CollectStep DEF Main
<1>2. CASE Tick
  BY <1>2, TickStep
<1>3. ASSUME NEW t \in Workers, Worker(t) PROVE IInv'
  BY <1>3, InvokeStep, RpcReturnStep, BenchReturnStep, CopyReturnStep
     DEF Worker
<1>4. CASE UNCHANGED vars
  BY <1>4 DEF vars, IInv, TypeOK, HeapInv, ThreadInv, WorkInv, CountInv,
              TimeInv, Running, Exited
<1>5. QED
  BY <1>1, <1>2, <1>3, <1>4 DEF Next

\* Every reachable state satisfies the inductive invariant.
THEOREM Invariance == Spec => []IInv
BY InitInv, NextInv, PTL DEF Spec

\* Every variable of a measurement keeps its type.
THEOREM TypeCorrect == Spec => []TypeOK
<1>1. IInv => TypeOK
  BY DEF IInv
<1>2. QED
  BY <1>1, Invariance, PTL

\* The argument array the workers write into is never freed under one that
\* still runs, whichever pthread_create or calloc fails.
THEOREM MemorySafe == Spec => []NoUseAfterFree
<1>1. ASSUME IInv PROVE NoUseAfterFree
  <2>1. SUFFICES ASSUME NEW t \in Workers, Running(t) PROVE "args" \in heap
    BY DEF NoUseAfterFree
  <2>2. pc \notin {"alloc_args", "returned"}
    BY <1>1, <2>1 DEF IInv, ThreadInv, Before, After, Running
  <2>3. QED
    BY <1>1, <2>2 DEF IInv, HeapInv
<1>2. QED
  BY <1>1, Invariance, PTL

\* A measurement that returned, with or without an error, freed both arrays and
\* left no thread unjoined.
THEOREM Quiescent == Spec => []ReturnsQuiescent
<1>1. ASSUME IInv, pc = "returned"
      PROVE  /\ heap = {}
             /\ \A t \in Workers : \/ thr[t] \in {"none", "joined"}
                                   \/ N = 1 /\ thr[t] = "exited"
  <2>1. heap = {}
    BY <1>1 DEF IInv, HeapInv
  <2>2. ASSUME NEW t \in Workers
        PROVE  \/ thr[t] \in {"none", "joined"}
               \/ N = 1 /\ thr[t] = "exited"
    <3>1. thr[t] \in {"none", "exited", "joined"}
      BY <1>1 DEF IInv, TypeOK, ThreadInv, After, Running
    <3>2. CASE N = 1
      BY <3>1, <3>2
    <3>3. CASE N > 1
      BY <1>1, <3>3, NAssumption
         DEF IInv, ThreadInv, TypeOK, After, Workers
    <3>4. QED
      BY <3>2, <3>3, NAssumption
  <2>3. QED
    BY <2>1, <2>2
<1>2. IInv => ReturnsQuiescent
  BY <1>1 DEF ReturnsQuiescent
<1>3. QED
  BY <1>2, Invariance, PTL

\* The count a successful measurement reports is the work the DSP did for it.
THEOREM CountTrue == Spec => []CountIsWorkDone
<1>1. IInv => CountIsWorkDone
  BY DEF IInv, CountInv, WorkInv, CountIsWorkDone, After
<1>2. QED
  BY <1>1, Invariance, PTL

\* The time a measurement reports contains all the work of all its workers.
THEOREM ElapsedTrue == Spec => []ElapsedCoversWork
<1>1. IInv => ElapsedCoversWork
  BY DEF IInv, TimeInv, ElapsedCoversWork, Exited, After
<1>2. QED
  BY <1>1, Invariance, PTL

-----------------------------------------------------------------------------
(* Measure implements MeasureAtomic, for every number of workers, amount   *)
(* of work and set of errors: what the caller of a measurement is told is  *)
(* a function of the workers' answers alone.                               *)

\* What the refinement needs besides IInv: a worker that has not ended has left
\* nothing in its struct, and the only error the measuring thread can bring to
\* the collect loop is that of a failed pthread_create.
BlankTillAnswered == \A t \in Workers : ~Exited(t) => args[t] = Blank
OnlySpawnFailed ==
    pc \in {"join", "collect"} /\ err # Ok =>
        err = Again /\ N > 1 /\ created < N
RInv == BlankTillAnswered /\ OnlySpawnFailed

\* The initial states satisfy it.
LEMMA InitRInv == Init => RInv
BY NAssumption DEF Init, RInv, BlankTillAnswered, OnlySpawnFailed

\* A worker that begins had not ended.
LEMMA SpawnedNotExited ==
    ASSUME IInv, Start \/ SpawnOk
    PROVE  \A t \in Workers : Exited(t)' <=> Exited(t)
<1> USE NAssumption DEF IInv
<1>1. CASE Start
  <2>1. \A t \in Workers : thr[t] = "none" /\ thr'[t] \in {"none", "ready"}
    BY <1>1 DEF Start, TypeOK, ThreadInv, Before
  <2> QED BY <2>1 DEF Exited
<1>2. CASE SpawnOk
  <2>1. created + 1 \in Workers /\ thr[created + 1] = "none"
    BY <1>2 DEF SpawnOk, TypeOK, HeapInv, ThreadInv, Workers
  <2> QED BY <1>2, <2>1 DEF SpawnOk, TypeOK, Exited
<1>3. QED
  BY <1>1, <1>2

\* A step of the measuring thread keeps it.
LEMMA MainRInv ==
    ASSUME IInv, RInv, Main \/ Tick PROVE RInv'
<1> USE NAssumption, ErrorsAreErrors DEF IInv, RInv
<1>1. args' = args
  BY DEF Main, AllocArgs, AllocThreads, Start, SpawnOk, SpawnFails, Join, Stop,
     Collect, Tick
<1>2. \A t \in Workers : Exited(t) => Exited(t)'
  <2>1. CASE Start \/ SpawnOk
    BY <2>1, SpawnedNotExited
  <2>2. CASE Join
    BY <2>2 DEF Join, Exited, TypeOK
  <2>3. CASE ~(Start \/ SpawnOk \/ Join)
    BY <2>3 DEF Main, AllocArgs, AllocThreads, SpawnFails, Stop, Collect, Tick,
       Exited
  <2> QED BY <2>1, <2>2, <2>3
<1>3. BlankTillAnswered'
  BY <1>1, <1>2 DEF BlankTillAnswered
<1>4. OnlySpawnFailed'
  <2>1. CASE AllocArgs \/ AllocThreads \/ Start
    BY <2>1 DEF AllocArgs, AllocThreads, Start, Return, OnlySpawnFailed, HeapInv,
       Before
  <2>2. CASE SpawnOk \/ SpawnFails
    BY <2>2 DEF SpawnOk, SpawnFails, OnlySpawnFailed, HeapInv, ThreadInv, Before
  <2>3. CASE Join \/ Stop \/ Tick
    BY <2>3 DEF Join, Stop, Tick, mainVars, OnlySpawnFailed, HeapInv, Finished
  <2>4. CASE Collect
    BY <2>4 DEF Collect, Return, OnlySpawnFailed
  <2> QED BY <2>1, <2>2, <2>3, <2>4 DEF Main
<1>5. QED
  BY <1>3, <1>4

\* A step of a worker keeps it.
LEMMA WorkerRInv ==
    ASSUME IInv, RInv, NEW t \in Workers, Worker(t) PROVE RInv'
<1> USE DEF IInv, RInv
<1>1. OnlySpawnFailed'
  BY DEF OnlySpawnFailed, Worker, Invoke, RpcReturn, BenchReturn, CopyReturn,
     Answers, mainVars
<1>2. CASE Invoke(t)
  BY <1>1, <1>2 DEF BlankTillAnswered, Invoke, Exited, TypeOK
<1>3. ASSUME NEW a, NEW work, Answers(t, a, work, "exited")
      PROVE  BlankTillAnswered'
  BY <1>3 DEF BlankTillAnswered, Answers, Exited, TypeOK
<1>4. ASSUME Answers(t, Blank, 1, "ready")
      PROVE  BlankTillAnswered'
  BY <1>4 DEF BlankTillAnswered, Answers, Exited, TypeOK
<1>5. CASE RpcReturn(t) \/ BenchReturn(t) \/ CopyReturn(t)
  BY <1>1, <1>3, <1>4, <1>5 DEF RpcReturn, BenchReturn, CopyReturn
<1>6. QED
  BY <1>2, <1>5 DEF Worker

\* Both invariants hold in every reachable state.
THEOREM RefinementInvariance == Spec => [](IInv /\ RInv)
<1>1. IInv /\ RInv /\ [Next]_vars => RInv'
  <2> SUFFICES ASSUME IInv, RInv, [Next]_vars PROVE RInv'
    OBVIOUS
  <2>1. CASE UNCHANGED vars
    BY <2>1 DEF vars, RInv, BlankTillAnswered, OnlySpawnFailed, Exited
  <2> QED BY <2>1, MainRInv, WorkerRInv DEF Next
<1>2. QED
  BY <1>1, InitRInv, Invariance, PTL DEF Spec

\* A worker that answers is an answer of the abstract measurement; a call that
\* is not its worker's last changes nothing there.
LEMMA AnswerIsAnswer ==
    ASSUME IInv, IInv', RInv, NEW t \in Workers, Worker(t)
    PROVE  Atomic!Answer(t) \/ UNCHANGED Atomic!vars
<1> USE DEF IInv, RInv
<1>1. pc' = pc /\ err' = err /\ result' = result
  BY DEF Worker, Invoke, RpcReturn, BenchReturn, CopyReturn, Answers, mainVars
<1>2. CASE Invoke(t)
  <2>1. args' = args /\ \A u \in Workers : Exited(u)' <=> Exited(u)
    BY <1>2 DEF Invoke, Exited, TypeOK
  <2> QED BY <1>1, <2>1 DEF Atomic!vars, ReportMade
<1>3. ASSUME NEW a, NEW work, Answers(t, a, work, "exited")
      PROVE  Atomic!Answer(t)
  <2>1. pc # "returned" /\ ~Exited(t)
    BY <1>3 DEF Answers, ThreadInv, Running, After, Exited
  <2>2. \A u \in Workers : Exited(u)' <=> Exited(u) \/ u = t
    BY <1>3 DEF Answers, Exited, TypeOK
  <2>3. args' = [args EXCEPT ![t] = a] /\ a \in Arg
    BY <1>3 DEF Answers, TypeOK
  <2>4. a \in Atomic!Outcome
    BY <2>3 DEF Atomic!Outcome, Arg
  <2> QED BY <1>1, <2>1, <2>2, <2>3, <2>4 DEF Atomic!Answer, ReportMade
<1>4. ASSUME Answers(t, Blank, 1, "ready")
      PROVE  UNCHANGED Atomic!vars
  <2>1. args' = args
    BY <1>4 DEF Answers, BlankTillAnswered, Exited, TypeOK
  <2>2. \A u \in Workers : Exited(u)' <=> Exited(u)
    BY <1>4 DEF Answers, Exited, TypeOK
  <2> QED BY <1>1, <2>1, <2>2 DEF Atomic!vars, ReportMade
<1>5. CASE RpcReturn(t) \/ BenchReturn(t) \/ CopyReturn(t)
  BY <1>3, <1>4, <1>5 DEF RpcReturn, BenchReturn, CopyReturn
<1>6. QED
  BY <1>2, <1>5 DEF Worker

\* The steps before the collect loop tell the caller nothing, unless they run
\* out of memory; then no worker has run.
LEMMA EarlyStep ==
    ASSUME IInv, RInv,
           (Main /\ ~Collect) \/ Tick
    PROVE  Atomic!GiveUp \/ UNCHANGED Atomic!vars
<1> USE NAssumption, ErrorsAreErrors DEF IInv
<1>1. args' = args
  BY DEF Main, AllocArgs, AllocThreads, Start, SpawnOk, SpawnFails, Join, Stop,
     Tick
<1>2. {t \in Workers : Exited(t)}' = {t \in Workers : Exited(t)}
  <2>1. CASE Start \/ SpawnOk
    BY <2>1, SpawnedNotExited
  <2>2. CASE Join
    BY <2>2 DEF Join, Exited, TypeOK
  <2>3. CASE ~(Start \/ SpawnOk \/ Join)
    BY <2>3 DEF Main, AllocArgs, AllocThreads, SpawnFails, Stop, Tick, Exited
  <2> QED BY <2>1, <2>2, <2>3
<1>3. CASE pc' = "returned"
  <2>1. /\ pc \in Before /\ err' = NoMem
    BY <1>3 DEF Main, AllocArgs, AllocThreads, Start, SpawnOk, SpawnFails, Join,
       Stop, Tick, Return, Before, mainVars
  <2>2. {t \in Workers : Exited(t)} = {}
    BY <2>1 DEF ThreadInv, Exited
  <2> QED BY <1>1, <1>2, <1>3, <2>1, <2>2 DEF Atomic!GiveUp, Atomic!Tell, Before,
             ReportMade
<1>4. CASE pc' # "returned"
  <2>1. pc # "returned"
    BY <1>4 DEF Main, AllocArgs, AllocThreads, Start, SpawnOk, SpawnFails, Join,
       Stop, Tick, Finished
  <2> QED BY <1>1, <1>2, <1>4, <2>1 DEF Atomic!vars
<1>5. QED
  BY <1>3, <1>4

\* The collect loop after a failed pthread_create: the last worker never was.
LEMMA CollectGivesUp ==
    ASSUME IInv, RInv, Collect, err # Ok
    PROVE  Atomic!GiveUp
<1>1. pc = "collect" /\ pc' = "returned" /\ err' = Again /\ Again # Ok
  BY ErrorsAreErrors DEF Collect, Return, RInv, OnlySpawnFailed
<1>2. N > 1 /\ N \in Workers /\ ~Exited(N)
  BY NAssumption DEF Collect, RInv, OnlySpawnFailed, IInv, TypeOK, ThreadInv, Exited,
     Workers
<1>3. UNCHANGED <<args, thr>>
  BY DEF Collect
<1>4. QED
  BY <1>1, <1>2, <1>3 DEF Atomic!GiveUp, Atomic!Tell, Exited, ReportMade

\* The collect loop when every worker was created: the report is that of the
\* abstract measurement.
LEMMA CollectReports ==
    ASSUME IInv, RInv, Collect, err = Ok
    PROVE  Atomic!Report
<1> USE DEF IInv
<1>1. pc = "collect" /\ pc' = "returned" /\ UNCHANGED <<args, thr>>
  BY DEF Collect, Return
<1>2. \A t \in Workers : Exited(t)
  <2>1. CASE N = 1
    BY <1>1, <2>1 DEF ThreadInv, Exited, Workers
  <2>2. CASE N > 1
    BY <1>1, <2>2 DEF ThreadInv, Exited, Workers, After, TypeOK
  <2> QED BY <2>1, <2>2, NAssumption
<1>3. Failing = Atomic!Failing(args) /\ FirstFailing = Atomic!FirstFailing(args)
  BY DEF Failing, FirstFailing, Atomic!Failing, Atomic!FirstFailing, Workers,
     Atomic!Workers
<1>4. ReportMade' = Atomic!ReportOf(args)
  <2>1. CASE Failing # {}
    <3>1. args[FirstFailing].err # Ok
      BY <2>1, FirstFailingFails DEF Failing
    <3>2. err' = args[FirstFailing].err
      BY <2>1 DEF Collect, Return
    <3> QED BY <1>3, <2>1, <3>1, <3>2 DEF ReportMade, Atomic!ReportOf
  <2>2. CASE Failing = {}
    <3>1. Folded = Workers
      BY <2>2 DEF Folded
    <3>2. /\ err' = Ok /\ result'.count = Per * N
          /\ result'.cycles = Slowest(Workers)
          /\ result'.checksum = Mixed(Workers)
      BY <1>1, <2>2, <3>1 DEF Collect, Return, CountInv, After
    <3>3. Slowest(Workers) = Atomic!MaxCycles(args, Atomic!Workers)
      BY DEF Slowest, Atomic!MaxCycles, Workers, Atomic!Workers
    <3>4. Mixed(Workers) = [t \in Atomic!Workers |-> args[t].checksum]
      BY DEF Mixed, Workers, Atomic!Workers
    <3> HIDE DEF IInv
    <3> QED BY <1>3, <2>2, <3>2, <3>3, <3>4 DEF ReportMade, Atomic!ReportOf
  <2> QED BY <2>1, <2>2
<1>5. {t \in Workers : Exited(t)} = Atomic!Workers
  BY <1>2 DEF Workers, Atomic!Workers
<1>6. {t \in Workers : Exited(t)}' = {t \in Workers : Exited(t)}
  BY <1>1 DEF Exited
<1>7. QED
  BY <1>1, <1>4, <1>5, <1>6 DEF Atomic!Report, Atomic!Tell

\* A measurement implements the atomic one: whatever the order of the threads,
\* the joins and the clock, and wherever a pthread_create fails, the caller is
\* told the lowest-numbered failing worker's error or the work of all, and no
\* worker answers after that (cdsp_peak.c:722-866, 1089-1156).
THEOREM Refinement == Spec => ImplementsAtomic
<1>1. Init => Atomic!Init
  BY DEF Init, Exited, Blank, Workers, Atomic!Init, Atomic!Workers,
     Atomic!Unanswered, Atomic!NoReport
<1>2. IInv /\ IInv' /\ RInv /\ [Next]_vars => [Atomic!Next]_(Atomic!vars)
  <2> SUFFICES ASSUME IInv, IInv', RInv, [Next]_vars
               PROVE  Atomic!Next \/ UNCHANGED Atomic!vars
    OBVIOUS
  <2>1. CASE UNCHANGED vars
    BY <2>1 DEF vars, Atomic!vars, Exited, ReportMade
  <2>2. CASE Main \/ Tick
    BY <2>2, EarlyStep, CollectGivesUp, CollectReports DEF Atomic!Next
  <2>3. CASE \E t \in Workers : Worker(t)
    BY <2>3, AnswerIsAnswer DEF Atomic!Next, Workers, Atomic!Workers
  <2> QED BY <2>1, <2>2, <2>3 DEF Next
<1>3. QED
  BY <1>1, <1>2, RefinementInvariance, PTL
     DEF Spec, ImplementsAtomic, Atomic!Spec
============================================================================
