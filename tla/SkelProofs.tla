----------------------------- MODULE SkelProofs -----------------------------
(***************************************************************************)
(* Proofs about the benchmarks of the skel.                                *)
(*                                                                         *)
(* Skel, for every number of handles, every list of jobs and every width   *)
(* of the cycle counter and of the accumulators: the cycles a row reports  *)
(* are net of the banner's overhead and at least one, the operations it    *)
(* reports are those its kernel performed, and the two int8 forms have the *)
(* same accumulators after any number of iterations.                       *)
(*                                                                         *)
(* MemBuffers, for every size of the buffers, every scale and every        *)
(* number of rounds: the checksum of a memory row depends on the scenario, *)
(* the size and the repeats alone, and the verdict on a copy is true.      *)
(***************************************************************************)
EXTENDS Skel, MemBuffers, FiniteSetTheorems, WellFoundedInduction, TLAPS

-----------------------------------------------------------------------------
(* Arithmetic modulo a width.                                              *)

\* Division with remainder.
LEMMA DivMod ==
    ASSUME NEW a \in Int, NEW w \in Nat \ {0}
    PROVE  /\ a = w * (a \div w) + (a % w)
           /\ a % w \in 0..(w - 1)
           /\ a \div w \in Int
OBVIOUS

\* There is only one remainder.
LEMMA OneRemainder ==
    ASSUME NEW q \in Int, NEW p \in Int, NEW w \in Nat \ {0},
           NEW r \in 0..(w - 1), NEW s \in 0..(w - 1),
           w * q + r = w * p + s
    PROVE  r = s
<1>1. w * (q - p) = s - r
  OBVIOUS
<1>2. CASE q - p >= 1
  <2>1. w * (q - p) >= w
    BY <1>2, SMTT(30)
  <2>2. QED
    BY <2>1, <1>1
<1>3. CASE q - p <= -1
  <2>1. w * (q - p) <= -w
    BY <1>3, SMTT(30)
  <2>2. QED
    BY <2>1, <1>1
<1>4. CASE q = p
  BY <1>4
<1>5. QED
  BY <1>2, <1>3, <1>4

LEMMA RemainderIs ==
    ASSUME NEW x \in Int, NEW w \in Nat \ {0}, NEW q \in Int,
           NEW r \in 0..(w - 1), x = w * q + r
    PROVE  x % w = r
<1> DEFINE p == x \div w
           s == x % w
<1>1. /\ w * q + r = w * p + s /\ p \in Int /\ s \in 0..(w - 1)
  BY DivMod
<1> HIDE DEF p, s
<1>2. r = s
  BY <1>1, OneRemainder
<1>3. QED
  BY <1>2 DEF s

\* Whole turns of the counter do not show.
LEMMA TurnsVanish ==
    ASSUME NEW x \in Int, NEW w \in Nat \ {0}, NEW q \in Int
    PROVE  (x + w * q) % w = x % w
<1> DEFINE p == x \div w
           s == x % w
<1>1. x = w * p + s /\ s \in 0..(w - 1) /\ p \in Int
  BY DivMod
<1> HIDE DEF p, s
<1>2. x + w * q = w * (p + q) + s
  <2>1. w * (p + q) = w * p + w * q
    BY <1>1
  <2>2. w * p \in Int /\ w * q \in Int
    BY <1>1
  <2>3. QED
    BY <1>1, <2>1, <2>2
<1>3. x + w * q \in Int /\ p + q \in Int
  BY <1>1
<1>4. (x + w * q) % w = s
  BY <1>1, <1>2, <1>3, RemainderIs
<1>5. QED
  BY <1>4 DEF s

\* Reducing a summand first changes nothing.
LEMMA ReducedSummand ==
    ASSUME NEW a \in Int, NEW b \in Int, NEW w \in Nat \ {0}
    PROVE  (a + (b % w)) % w = (a + b) % w
<1> DEFINE q == b \div w
           s == b % w
           y == a + s
<1>1. b = w * q + s /\ q \in Int /\ s \in 0..(w - 1) /\ y \in Int
  BY DivMod
<1>2. a + b = y + w * q
  <2>1. w * q \in Int
    BY <1>1
  <2>2. QED
    BY <1>1, <2>1
<1> HIDE DEF q, s, y
<1>3. (y + w * q) % w = y % w
  BY <1>1, TurnsVanish
<1>4. QED
  BY <1>2, <1>3 DEF y, s

\* The difference of two reduced readings is the difference of the readings,
\* when that is not longer than a turn.
LEMMA ReducedDifference ==
    ASSUME NEW a \in Int, NEW b \in Int, NEW w \in Nat \ {0},
           a - b \in 0..(w - 1)
    PROVE  ((a % w) - (b % w)) % w = a - b
<1> DEFINE q == a \div w
           s == a % w
           p == b \div w
           r == b % w
           x == s - r
           d == a - b
           j == p - q
<1>1. a = w * q + s /\ q \in Int /\ s \in 0..(w - 1)
  BY DivMod
<1>2. b = w * p + r /\ p \in Int /\ r \in 0..(w - 1)
  BY DivMod
<1> HIDE DEF q, s, p, r
<1>3. x = w * j + d
  <2>1. w * (p - q) = w * p - w * q
    BY <1>1, <1>2
  <2>2. w * q \in Int /\ w * p \in Int
    BY <1>1, <1>2
  <2>3. QED
    BY <1>1, <1>2, <2>1, <2>2
<1>4. x \in Int /\ j \in Int /\ d \in 0..(w - 1)
  BY <1>1, <1>2
<1> HIDE DEF x, d, j
<1>5. x % w = d
  BY <1>3, <1>4, RemainderIs
<1>6. QED
  BY <1>5 DEF x, d, s, r

-----------------------------------------------------------------------------
(* The kernels.                                                            *)

\* What accumulator k of an int8 kernel holds after i iterations.
Closed(i, k) == (i * Dot(k)) % WordMod

LEMMA DotNat == ASSUME NEW k \in Slots PROVE Dot(k) \in Nat
BY DEF Slots, Dot, AByte, BByte

\* One more iteration, in either form.
LEMMA FoldClosed ==
    ASSUME NEW kernel \in Int8Kernels, NEW i \in Nat, NEW k \in Slots, NEW acc,
           acc[k] = Closed(i, k)
    PROVE  Fold(kernel, acc, k) = Closed(i + 1, k)
<1> DEFINE d == Dot(k)
           x == i * d
           c == x % WordMod
<1>1. d \in Nat /\ WordMod \in Nat \ {0}
  BY DotNat, WordAssumption
<1>2. x \in Int /\ (i + 1) * d = d + x
  <2> HIDE DEF d
  <2>1. QED
    BY <1>1
<1>3. c \in Int
  BY <1>1, <1>2, DivMod
<1>4. (d + c) % WordMod = (d + x) % WordMod
  <2>1. d \in Int /\ x \in Int /\ WordMod \in Nat \ {0}
    BY <1>1, <1>2
  <2> HIDE DEF d, x
  <2>2. QED
    BY <2>1, ReducedSummand, Zenon
<1>5. (c + (d % WordMod)) % WordMod = (c + d) % WordMod
  BY <1>1, <1>3, ReducedSummand
<1>6. c + d = d + c
  BY <1>1, <1>3
<1>7. acc[k] = c /\ Closed(i + 1, k) = (d + x) % WordMod
  BY <1>2 DEF Closed
<1> HIDE DEF d, x, c
<1>8. CASE kernel = "int8_fixed"
  <2>1. Fold(kernel, acc, k) = (c + d) % WordMod
    BY <1>7, <1>8 DEF Fold, d
  <2>2. QED
    BY <2>1, <1>4, <1>6, <1>7
<1>9. CASE kernel = "int8_add_fixed"
  <2>1. Fold(kernel, acc, k) = (c + (d % WordMod)) % WordMod
    BY <1>7, <1>9 DEF Fold, d
  <2>2. QED
    BY <2>1, <1>4, <1>5, <1>6, <1>7
<1>10. QED
  BY <1>8, <1>9 DEF Int8Kernels

\* What it is to be the accumulators of a kernel after 0, 1 .. n iterations.
IsLoop(acc, kernel, n) ==
    acc = [i \in 0..n |-> IF i = 0 THEN [k \in Slots |-> 0]
                          ELSE [k \in Slots |-> Fold(kernel, acc[i - 1], k)]]
ClosedLoop(n) == [i \in 0..n |-> [k \in Slots |-> Closed(i, k)]]

LEMMA ClosedStarts == [k \in Slots |-> 0] = [k \in Slots |-> Closed(0, k)]
<1>1. ASSUME NEW k \in Slots PROVE Closed(0, k) = 0
  <2>1. 0 * Dot(k) = 0
    BY DotNat
  <2>2. 0 % WordMod = 0
    BY WordAssumption, RemainderIs
  <2>3. QED
    BY <2>1, <2>2 DEF Closed
<1>2. QED
  BY <1>1

\* The step of the loop from the closed form.
LEMMA ClosedStep ==
    ASSUME NEW kernel \in Int8Kernels, NEW n \in Nat, NEW i \in 1..n, NEW acc,
           acc[i - 1] = ClosedLoop(n)[i - 1]
    PROVE  [k \in Slots |-> Fold(kernel, acc[i - 1], k)] = ClosedLoop(n)[i]
<1>1. i - 1 \in 0..n /\ i \in 0..n /\ i - 1 \in Nat /\ (i - 1) + 1 = i
  OBVIOUS
<1>2. ASSUME NEW k \in Slots
      PROVE  Fold(kernel, acc[i - 1], k) = Closed(i, k)
  <2>1. acc[i - 1][k] = Closed(i - 1, k)
    BY <1>1 DEF ClosedLoop
  <2>2. Fold(kernel, acc[i - 1], k) = Closed((i - 1) + 1, k)
    BY <1>1, <2>1, FoldClosed
  <2>3. QED
    BY <1>1, <2>2
<1>3. QED
  BY <1>1, <1>2 DEF ClosedLoop

LEMMA ClosedIsLoop ==
    ASSUME NEW kernel \in Int8Kernels, NEW n \in Nat
    PROVE  IsLoop(ClosedLoop(n), kernel, n)
<1> DEFINE g == ClosedLoop(n)
<1>1. ASSUME NEW i \in 0..n
      PROVE  g[i] = IF i = 0 THEN [k \in Slots |-> 0]
                    ELSE [k \in Slots |-> Fold(kernel, g[i - 1], k)]
  <2>1. CASE i = 0
    BY <2>1, ClosedStarts DEF ClosedLoop
  <2>2. CASE i # 0
    <3>1. i \in 1..n
      BY <2>2
    <3>2. QED
      BY <2>2, <3>1, ClosedStep
  <2>3. QED
    BY <2>1, <2>2
<1>2. g = [i \in 0..n |-> g[i]]
  BY DEF ClosedLoop
<1> HIDE DEF g
<1>3. IsLoop(g, kernel, n)
  BY <1>1, <1>2 DEF IsLoop
<1>4. QED
  BY <1>3 DEF g

\* No other function is: take the first iteration at which it differs.
LEMMA LoopIsClosed ==
    ASSUME NEW kernel \in Int8Kernels, NEW n \in Nat, NEW acc,
           IsLoop(acc, kernel, n)
    PROVE  acc = ClosedLoop(n)
<1> DEFINE Wrong == {i \in 0..n : acc[i] # ClosedLoop(n)[i]}
<1>1. acc = [i \in 0..n |-> acc[i]] /\ ClosedLoop(n) = [i \in 0..n |-> ClosedLoop(n)[i]]
  BY DEF IsLoop, ClosedLoop
<1>2. ASSUME Wrong # {} PROVE FALSE
  <2>1. Wrong \subseteq Nat
    OBVIOUS
  <2> HIDE DEF Wrong
  <2>2. \E i \in Wrong : \A j \in Wrong : <<j, i>> \notin OpToRel(<, Nat)
    BY <1>2, <2>1, NatLessThanWellFounded, WFMin
  <2>3. PICK i \in Wrong : \A j \in Wrong : ~(j < i)
    BY <2>1, <2>2 DEF OpToRel
  <2>4. i \in 0..n /\ acc[i] # ClosedLoop(n)[i]
    BY DEF Wrong
  <2>5. CASE i = 0
    <3>1. acc[i] = [k \in Slots |-> 0]
      BY <2>4, <2>5 DEF IsLoop
    <3>2. QED
      BY <2>4, <2>5, <3>1, ClosedStarts DEF ClosedLoop
  <2>6. CASE i # 0
    <3>1. i \in 1..n /\ i - 1 \in 0..n /\ i - 1 < i
      BY <2>4, <2>6
    <3>2. acc[i - 1] = ClosedLoop(n)[i - 1]
      BY <2>3, <3>1 DEF Wrong
    <3>3. acc[i] = [k \in Slots |-> Fold(kernel, acc[i - 1], k)]
      BY <2>4, <2>6 DEF IsLoop
    <3>4. QED
      BY <2>4, <3>1, <3>2, <3>3, ClosedStep
  <2>7. QED
    BY <2>5, <2>6
<1>3. \A i \in 0..n : acc[i] = ClosedLoop(n)[i]
  BY <1>2
<1> HIDE DEF Wrong
<1>4. QED
  BY <1>1, <1>3

\* Both int8 forms hold n times the dot product, reduced to a word, after any
\* number n of iterations.
THEOREM Int8Accumulators ==
    ASSUME NEW kernel \in Int8Kernels, NEW n \in Nat
    PROVE  Accumulated(kernel, n) = [k \in Slots |-> Closed(n, k)]
<1>1. \A acc : IsLoop(acc, kernel, n) <=> acc = ClosedLoop(n)
  BY ClosedIsLoop, LoopIsClosed
<1>2. Accumulated(kernel, n) = (CHOOSE acc : IsLoop(acc, kernel, n))[n]
  BY DEF Accumulated, IsLoop
<1>3. (CHOOSE acc : IsLoop(acc, kernel, n)) = ClosedLoop(n)
  BY <1>1
<1>4. n \in 0..n
  OBVIOUS
<1>5. QED
  BY <1>2, <1>3, <1>4 DEF ClosedLoop

\* A multiply instruction and an addition per lane, eight accumulators: the
\* scenario's ops_per_iter is what an iteration of its kernel performs.
LEMMA OpsPerIteration ==
    ASSUME NEW s \in Scenarios, NEW n \in Int
    PROVE  n * ComputeRows[s].ops
              = Performed(Dispatch(HostKernel[ComputeRows[s].kernel]), n)
<1>1. Cardinality(Slots) = 8
  <2>1. \A a, b \in Int : Cardinality(a..b) = IF a > b THEN 0 ELSE b - a + 1
    BY FS_Interval
  <2>2. 0 \in Int /\ 7 \in Int /\ (IF 0 > 7 THEN 0 ELSE 7 - 0 + 1) = 8
    OBVIOUS
  <2>3. Cardinality(0..7) = IF 0 > 7 THEN 0 ELSE 7 - 0 + 1
    BY <2>1, <2>2, Zenon
  <2>4. QED
    BY <2>2, <2>3 DEF Slots
<1>2. s \in {"fp32-vmuladd", "fp16-vmpyacc", "qf16-vmpyadd", "qf32-vmpyadd",
             "int8-vrmpyacc", "int8-vrmpy-add"}
  BY DEF Scenarios, ComputeRows
<1> USE <1>1 DEF Scenarios, ComputeRows, Row, HostKernel, Dispatch, SkelKernels,
                 Performed, Products, ElementBytes, Int8Kernels, VectorBytes
<1>3. CASE s = "fp32-vmuladd"
  BY <1>3
<1>4. CASE s = "fp16-vmpyacc"
  BY <1>4
<1>5. CASE s = "qf16-vmpyadd"
  BY <1>5
<1>6. CASE s = "qf32-vmpyadd"
  BY <1>6
<1>7. CASE s = "int8-vrmpyacc"
  BY <1>7
<1>8. CASE s = "int8-vrmpy-add"
  BY <1>8
<1>9. QED
  BY <1>2, <1>3, <1>4, <1>5, <1>6, <1>7, <1>8

\* The two int8 scenarios run the two int8 kernels.
LEMMA Int8Dispatch ==
    ASSUME NEW s \in Int8Scenarios
    PROVE  Dispatch(HostKernel[ComputeRows[s].kernel]) \in Int8Kernels
<1> USE DEF ComputeRows, Row, HostKernel, Dispatch, SkelKernels, Int8Kernels
<1>1. CASE s = "int8-vrmpyacc"
  BY <1>1
<1>2. CASE s = "int8-vrmpy-add"
  BY <1>2
<1>3. QED
  BY <1>1, <1>2 DEF Int8Scenarios

-----------------------------------------------------------------------------
(* The invariant.                                                          *)

\* A benchmark's cycles, from the two readings of the counter.
LEMMA ElapsedIs ==
    ASSUME TypeInv, NEW since \in 0..now, now - since \in 1..(CounterMod - 1)
    PROVE  Elapsed(since % CounterMod, Counter) \in 1..(now - since)
<1>1. CounterMod \in Nat \ {0} /\ now \in Int /\ since \in Int
      /\ now - since \in 0..(CounterMod - 1)
  BY SkelAssumption DEF TypeInv
<1>2. Delta(since % CounterMod, Counter) = now - since
  <2>1. ((now % CounterMod) - (since % CounterMod)) % CounterMod = now - since
    BY <1>1, ReducedDifference, Zenon
  <2>2. QED
    BY <2>1 DEF Delta, Counter
<1>3. overhead \in Nat
  BY SkelAssumption DEF TypeInv
<1>4. QED
  BY <1>1, <1>2, <1>3 DEF Elapsed

\* The initial states satisfy the invariant.
THEOREM InitInv == Init => IInv
<1> SUFFICES ASSUME Init PROVE IInv
  OBVIOUS
<1>1. TypeInv
  BY SkelAssumption DEF Init, TypeInv
<1>2. PhaseInv
  BY DEF Init, PhaseInv
<1>3. RunInv
  BY DEF Init, RunInv
<1>4. ResultInv
  BY DEF Init, ResultInv, Reported
<1>5. ElapsedSound
  BY SkelAssumption DEF Init, ElapsedSound, NoResult
<1>6. QED
  BY <1>1, <1>2, <1>3, <1>4, <1>5 DEF IInv

\* A step that neither starts nor ends a benchmark, nor reports one.
LEMMA ResultsKeep ==
    ASSUME IInv, result' = result, phase' = "open" => phase = "open",
           \/ banner' = banner
           \/ phase = "open"
    PROVE  ResultInv' /\ ElapsedSound'
<1>1. ElapsedSound'
  BY DEF IInv, ElapsedSound
<1>2. ASSUME NEW h \in Handles, Reported(h)'
      PROVE  /\ phase' # "open" /\ result'[h].used = banner'
             /\ result'[h] = result[h] /\ Reported(h)
  BY <1>2 DEF IInv, ResultInv, Reported
<1>3. ResultInv'
  BY <1>2 DEF IInv, ResultInv
<1>4. QED
  BY <1>1, <1>3

\* IInv is kept by the calls of main: open, get_info, a round, close.
LEMMA MainStep ==
    ASSUME IInv, Open \/ OpenFails \/ GetInfo \/ Close
    PROVE  IInv'
<1> USE DEF round
<1>1. /\ pending = {} /\ pending' = {} /\ run' = run /\ result' = result
      /\ now' = now /\ job' = job
      /\ phase' = "open" => phase = "open"
      /\ banner' = banner \/ phase = "open"
  BY DEF IInv, PhaseInv, TypeInv, Open, OpenFails, GetInfo, Close
<1>2. TypeInv'
  <2>1. opened \in 0..N /\ N \in Nat
    BY SkelAssumption DEF IInv, TypeInv
  <2>2. opened' \in 0..N
    BY <2>1 DEF Open, OpenFails, GetInfo, Close
  <2>3. overhead' \in 0..(CounterMod - 1)
    BY SkelAssumption DEF IInv, TypeInv, Open, OpenFails, GetInfo, Close
  <2>4. phase' \in {"open", "bench", "exit"}
    BY DEF IInv, TypeInv, Open, OpenFails, GetInfo, Close
  <2>5. QED
    BY <1>1, <2>2, <2>3, <2>4 DEF IInv, TypeInv
<1>3. PhaseInv'
  BY <1>1 DEF IInv, TypeInv, PhaseInv, Open, OpenFails, GetInfo, Close, AllOpen
<1>4. RunInv'
  BY <1>1 DEF IInv, RunInv
<1>5. ResultInv' /\ ElapsedSound'
  BY <1>1, ResultsKeep
<1>6. QED
  BY <1>2, <1>3, <1>4, <1>5 DEF IInv

LEMMA RoundStep ==
    ASSUME IInv, Round
    PROVE  IInv'
<1>1. TypeInv'
  BY SkelAssumption DEF IInv, TypeInv, Round, Handles
<1>2. PhaseInv'
  BY DEF IInv, PhaseInv, Round
<1>3. RunInv'
  BY DEF IInv, RunInv, Round
<1>4. ResultInv' /\ ElapsedSound'
  BY ResultsKeep DEF Round
<1>5. QED
  BY <1>1, <1>2, <1>3, <1>4 DEF IInv

\* IInv is kept while the time goes on.
LEMMA TickStep ==
    ASSUME IInv, Tick
    PROVE  IInv'
<1> USE DEF round
<1>1. now' = now + 1 /\ now \in Nat /\ UNCHANGED <<job, pending, run, result>>
  BY DEF IInv, TypeInv, Tick
<1>2. TypeInv'
  BY <1>1 DEF IInv, TypeInv, Tick
<1>3. PhaseInv'
  BY DEF IInv, PhaseInv, Tick
<1>4. RunInv'
  <2>1. \A s : s \in 0..now => s \in 0..now'
    BY <1>1
  <2>2. QED
    BY <1>1, <2>1 DEF IInv, RunInv, Accepts, Asked
<1>5. ResultInv' /\ ElapsedSound'
  BY ResultsKeep DEF Tick
<1>6. QED
  BY <1>2, <1>3, <1>4, <1>5 DEF IInv

\* IInv is kept by a refused call and by the start of a benchmark.
LEMMA RefuseStep ==
    ASSUME IInv, NEW h \in Handles, Refuse(h)
    PROVE  IInv'
<1>1. TypeInv'
  BY DEF IInv, TypeInv, Refuse
<1>2. PhaseInv'
  BY DEF IInv, PhaseInv, Refuse
<1>3. RunInv'
  <2>1. \A g \in Handles : run[g] = Idle
    BY DEF IInv, RunInv, Refuse
  <2>2. QED
    BY <2>1 DEF RunInv, Refuse
<1>4. ResultInv' /\ ElapsedSound'
  BY ResultsKeep DEF Refuse
<1>5. QED
  BY <1>1, <1>2, <1>3, <1>4 DEF IInv

LEMMA BeginStep ==
    ASSUME IInv, NEW h \in Handles, Begin(h)
    PROVE  IInv'
<1> USE DEF round
<1>1. TypeInv'
  BY DEF IInv, TypeInv, Begin
<1>2. PhaseInv'
  BY DEF IInv, PhaseInv, Begin
<1>3. RunInv'
  <2>1. /\ run'[h] = [start |-> Counter, since |-> now]
        /\ \A g \in Handles \ {h} : run'[g] = run[g]
        /\ h \in pending' /\ pending' = pending /\ Accepts /\ Accepts' = Accepts
        /\ now' = now /\ now \in 0..now
    BY DEF IInv, TypeInv, Begin, Accepts, Asked
  <2>2. run'[h].start = run'[h].since % CounterMod
    BY <2>1 DEF Counter
  <2>3. QED
    BY <2>1, <2>2 DEF IInv, RunInv
<1>4. ResultInv' /\ ElapsedSound'
  BY ResultsKeep DEF Begin
<1>5. QED
  BY <1>1, <1>2, <1>3, <1>4 DEF IInv

\* IInv is kept by the end of a benchmark: its report.
LEMMA EndStep ==
    ASSUME IInv, NEW h \in Handles, End(h)
    PROVE  IInv'
<1>1. /\ run[h] # Idle /\ h \in pending /\ phase = "bench" /\ Accepts
      /\ run[h].since \in 0..now /\ run[h].start = run[h].since % CounterMod
      /\ job \in Jobs /\ banner = overhead
  BY DEF IInv, RunInv, PhaseInv, End
<1> DEFINE new == [cycles   |-> Elapsed(run[h].start, Counter),
                   checksum |-> ChecksumAccumulators(
                                  Accumulated(Dispatch(Asked), job.iterations)),
                   job  |-> job,
                   span |-> now - run[h].since,
                   used |-> overhead,
                   done |-> Performed(Dispatch(Asked), job.iterations)]
<1>2. /\ result' = [result EXCEPT ![h] = new]
      /\ run' = [run EXCEPT ![h] = Idle]
      /\ pending' = pending \ {h}
      /\ UNCHANGED <<phase, opened, overhead, banner, job, err, now>>
  BY DEF End
<1>3. /\ result'[h] = new /\ \A g \in Handles \ {h} : result'[g] = result[g]
      /\ run'[h] = Idle /\ \A g \in Handles \ {h} : run'[g] = run[g]
  BY <1>2 DEF IInv, TypeInv
<1>4. /\ new.used = overhead /\ new.job = job /\ new.span = now - run[h].since
      /\ new.cycles = Elapsed(run[h].start, Counter)
      /\ new.checksum = ChecksumAccumulators(
                           Accumulated(Dispatch(Asked), job.iterations))
      /\ new.done = Performed(Dispatch(Asked), job.iterations)
  OBVIOUS
<1> HIDE DEF new
<1>5. TypeInv'
  BY <1>2 DEF IInv, TypeInv
<1>6. PhaseInv'
  BY <1>1, <1>2 DEF IInv, PhaseInv
<1>7. RunInv'
  <2>1. Accepts' = Accepts
    BY <1>2 DEF Accepts, Asked
  <2>2. QED
    BY <1>2, <1>3, <2>1 DEF IInv, RunInv
<1>8. ElapsedSound'
  <2>1. new.span \in 1..(CounterMod - 1) => new.cycles \in 1..new.span
    BY <1>1, <1>4, ElapsedIs DEF IInv
  <2>2. \A g \in Handles \ {h} :
            result[g].span \in 1..(CounterMod - 1)
                => result[g].cycles \in 1..result[g].span
    BY DEF IInv, ElapsedSound
  <2>3. QED
    BY <1>3, <2>1, <2>2 DEF ElapsedSound
<1>9. ResultInv'
  <2>1. job.iterations > 0 /\ Asked = AskedFor(job)
    BY <1>1 DEF Accepts, Asked
  <2>2. ASSUME NEW g \in Handles, Reported(g)', g # h
        PROVE  Reported(g) /\ result'[g] = result[g]
    BY <1>3, <2>2 DEF Reported
  <2>3. QED
    BY <1>1, <1>2, <1>3, <1>4, <2>1, <2>2 DEF IInv, ResultInv
<1>10. QED
  BY <1>5, <1>6, <1>7, <1>8, <1>9 DEF IInv

\* IInv is kept by every step.
THEOREM NextInv == IInv /\ [Next]_vars => IInv'
<1> SUFFICES ASSUME IInv, [Next]_vars PROVE IInv'
  OBVIOUS
<1>1. CASE UNCHANGED vars
  BY <1>1 DEF vars, IInv, TypeInv, PhaseInv, RunInv, ResultInv, ElapsedSound,
              Reported, Accepts, Asked
<1>2. CASE Next
  BY <1>2, MainStep, RoundStep, TickStep, RefuseStep, BeginStep, EndStep DEF Next
<1>3. QED
  BY <1>1, <1>2

\* Every reachable state of the skel satisfies it.
THEOREM Invariance == Spec => []IInv
BY InitInv, NextInv, PTL DEF Spec

\* The overhead subtracted in every row is the one the banner printed, for any
\* number of handles that each overwrite it when they are opened.
THEOREM BannerOverhead == Spec => []BannerOverheadUsed
<1>1. IInv => BannerOverheadUsed
  BY DEF IInv, ResultInv, BannerOverheadUsed
<1>2. QED
  BY <1>1, Invariance, PTL

\* The cycles of a row are at least one and at most the time the benchmark
\* took, for every width of the counter and every overhead below it.
THEOREM CyclesSound == Spec => []ElapsedSound
<1>1. IInv => ElapsedSound
  BY DEF IInv
<1>2. QED
  BY <1>1, Invariance, PTL

\* The operations a row reports are those its kernel performed, whatever the
\* scenario and the count.
THEOREM OpsTrue == Spec => []OpsAreWhatRan
<1>1. ASSUME IInv PROVE OpsAreWhatRan
  <2> SUFFICES ASSUME NEW h \in Handles, Reported(h)
               PROVE  result[h].job.iterations
                         * ComputeRows[result[h].job.scenario].ops
                            = result[h].done
    BY DEF OpsAreWhatRan
  <2> DEFINE j == result[h].job
  <2>1. /\ j \in Jobs
        /\ result[h].done = Performed(Dispatch(AskedFor(j)), j.iterations)
    BY <1>1 DEF IInv, ResultInv
  <2>2. j.scenario \in Scenarios /\ j.iterations \in Int
    BY <2>1, SkelAssumption
  <2> HIDE DEF j
  <2>3. j.iterations * ComputeRows[j.scenario].ops = result[h].done
    BY <2>1, <2>2, OpsPerIteration DEF AskedFor
  <2>4. QED
    BY <2>3 DEF j
<1>2. QED
  BY <1>1, Invariance, PTL

\* The two int8 forms report one checksum for one count, for every count and
\* every width their accumulators wrap at.
THEOREM Int8Agree == Spec => []Int8FormsAgree
<1>1. ASSUME IInv PROVE Int8FormsAgree
  <2>1. ASSUME NEW h \in Handles, Reported(h),
               result[h].job.scenario \in Int8Scenarios
        PROVE  result[h].checksum = ChecksumAccumulators(
                   [k \in Slots |-> Closed(result[h].job.iterations, k)])
    <3> DEFINE j == result[h].job
    <3>1. /\ j \in Jobs /\ j.iterations > 0 /\ j.scenario \in Int8Scenarios
          /\ result[h].checksum = ChecksumAccumulators(
                 Accumulated(Dispatch(AskedFor(j)), j.iterations))
      BY <1>1, <2>1 DEF IInv, ResultInv
    <3>2. j.iterations \in Nat
      BY <3>1, SkelAssumption
    <3> HIDE DEF j
    <3>3. Dispatch(AskedFor(j)) \in Int8Kernels
      BY <3>1, Int8Dispatch DEF AskedFor
    <3>4. result[h].checksum = ChecksumAccumulators(
                 [k \in Slots |-> Closed(j.iterations, k)])
      BY <3>1, <3>2, <3>3, Int8Accumulators
    <3>5. QED
      BY <3>4 DEF j
  <2>2. QED
    BY <2>1 DEF Int8FormsAgree
<1>2. QED
  BY <1>1, Invariance, PTL

-----------------------------------------------------------------------------
(* Sums.                                                                   *)

\* What it is to be the sums of the first 0, 1 .. n values of f.
IsSums(s, f, n) == s = [k \in 0..n |-> IF k = 0 THEN 0 ELSE s[k - 1] + f[k - 1]]

\* Sums of one function agree as far as both go: otherwise take the first
\* number of values at which they differ.
LEMMA OneSum ==
    ASSUME NEW f, NEW m \in Nat, NEW n \in Nat, NEW s, NEW t,
           IsSums(s, f, m), IsSums(t, f, n), m <= n
    PROVE  s[m] = t[m]
<1> DEFINE Wrong == {k \in 0..m : s[k] # t[k]}
<1>1. ASSUME NEW k \in 0..m
      PROVE  /\ s[k] = IF k = 0 THEN 0 ELSE s[k - 1] + f[k - 1]
             /\ t[k] = IF k = 0 THEN 0 ELSE t[k - 1] + f[k - 1]
  <2>1. k \in 0..n
    OBVIOUS
  <2>2. QED
    BY <2>1 DEF IsSums
<1>2. ASSUME Wrong # {} PROVE FALSE
  <2>1. Wrong \subseteq Nat
    OBVIOUS
  <2> HIDE DEF Wrong
  <2>2. \E k \in Wrong : \A j \in Wrong : <<j, k>> \notin OpToRel(<, Nat)
    BY <1>2, <2>1, NatLessThanWellFounded, WFMin
  <2>3. PICK k \in Wrong : \A j \in Wrong : ~(j < k)
    BY <2>1, <2>2 DEF OpToRel
  <2>4. k \in 0..m /\ s[k] # t[k]
    BY DEF Wrong
  <2>5. k # 0
    BY <1>1, <2>4
  <2>6. k - 1 \in 0..m /\ k - 1 < k
    BY <2>4, <2>5
  <2>7. s[k - 1] = t[k - 1]
    BY <2>3, <2>6 DEF Wrong
  <2>8. QED
    BY <1>1, <2>4, <2>5, <2>7
<1>3. m \in 0..m
  OBVIOUS
<1>4. QED
  BY <1>2, <1>3

\* There are sums: otherwise take the least number of values that has none.
LEMMA SumsExist ==
    ASSUME NEW f, NEW n \in Nat
    PROVE  \E s : IsSums(s, f, n)
<1> DEFINE Bad == {m \in 0..n : ~\E s : IsSums(s, f, m)}
<1>1. ASSUME Bad # {} PROVE FALSE
  <2>1. Bad \subseteq Nat
    OBVIOUS
  <2> HIDE DEF Bad
  <2>2. \E m \in Bad : \A j \in Bad : <<j, m>> \notin OpToRel(<, Nat)
    BY <1>1, <2>1, NatLessThanWellFounded, WFMin
  <2>3. PICK m \in Bad : \A j \in Bad : ~(j < m)
    BY <2>1, <2>2 DEF OpToRel
  <2>4. m \in 0..n /\ ~\E s : IsSums(s, f, m)
    BY DEF Bad
  <2>5. m # 0
    <3> DEFINE zero == [k \in 0..0 |-> 0]
    <3>1. zero = [k \in 0..0 |-> IF k = 0 THEN 0 ELSE zero[k - 1] + f[k - 1]]
      OBVIOUS
    <3> HIDE DEF zero
    <3>2. IsSums(zero, f, 0)
      BY <3>1 DEF IsSums
    <3>3. QED
      BY <2>4, <3>2
  <2>6. m - 1 \in 0..n /\ m - 1 < m /\ m \in Nat
    BY <2>4, <2>5
  <2>7. PICK s : IsSums(s, f, m - 1)
    BY <2>3, <2>6 DEF Bad
  <2> DEFINE t == [k \in 0..m |-> IF k = m THEN s[m - 1] + f[m - 1] ELSE s[k]]
  <2>8. ASSUME NEW k \in 0..m
        PROVE  t[k] = IF k = 0 THEN 0 ELSE t[k - 1] + f[k - 1]
    <3>1. CASE k = m
      <4>1. m - 1 \in 0..m /\ m - 1 # m
        BY <2>5, <2>6
      <4>2. QED
        BY <2>5, <3>1, <4>1
    <3>2. CASE k # m
      <4>1. k \in 0..(m - 1)
        BY <2>6, <3>2
      <4>2. s[k] = IF k = 0 THEN 0 ELSE s[k - 1] + f[k - 1]
        BY <2>7, <4>1 DEF IsSums
      <4>3. k # 0 => k - 1 \in 0..m /\ k - 1 # m
        BY <2>6, <4>1
      <4>4. QED
        BY <3>2, <4>2, <4>3
    <3>3. QED
      BY <3>1, <3>2
  <2>9. t = [k \in 0..m |-> t[k]]
    OBVIOUS
  <2> HIDE DEF t
  <2>10. IsSums(t, f, m)
    BY <2>8, <2>9 DEF IsSums
  <2>11. QED
    BY <2>4, <2>10
<1>2. n \in 0..n
  OBVIOUS
<1>3. QED
  BY <1>1, <1>2

\* The sum of nothing, and of one value more.
LEMMA SumStep ==
    ASSUME NEW f, NEW n \in Nat
    PROVE  SumTo(f, n) = IF n = 0 THEN 0 ELSE SumTo(f, n - 1) + f[n - 1]
<1> DEFINE s == CHOOSE x : IsSums(x, f, n)
           t == CHOOSE x : IsSums(x, f, n - 1)
<1>1. IsSums(s, f, n) /\ SumTo(f, n) = s[n]
  BY SumsExist DEF SumTo, IsSums
<1>2. n \in 0..n
  OBVIOUS
<1>3. CASE n = 0
  <2> HIDE DEF s
  <2>1. QED
    BY <1>1, <1>2, <1>3 DEF IsSums
<1>4. CASE n # 0
  <2>1. n - 1 \in Nat /\ n - 1 <= n
    BY <1>4
  <2>2. IsSums(t, f, n - 1) /\ SumTo(f, n - 1) = t[n - 1]
    BY <2>1, SumsExist DEF SumTo, IsSums
  <2> HIDE DEF s, t
  <2>3. t[n - 1] = s[n - 1]
    BY <1>1, <2>1, <2>2, OneSum
  <2>4. s[n] = s[n - 1] + f[n - 1]
    BY <1>1, <1>2, <1>4 DEF IsSums
  <2>5. QED
    BY <1>1, <1>4, <2>2, <2>3, <2>4
<1>5. QED
  BY <1>3, <1>4

LEMMA SumInt ==
    ASSUME NEW f, NEW n \in Nat, \A k \in 0..(n - 1) : f[k] \in Int
    PROVE  SumTo(f, n) \in Int
<1> DEFINE Bad == {m \in 0..n : SumTo(f, m) \notin Int}
<1>1. ASSUME Bad # {} PROVE FALSE
  <2>1. Bad \subseteq Nat
    OBVIOUS
  <2> HIDE DEF Bad
  <2>2. \E m \in Bad : \A j \in Bad : <<j, m>> \notin OpToRel(<, Nat)
    BY <1>1, <2>1, NatLessThanWellFounded, WFMin
  <2>3. PICK m \in Bad : \A j \in Bad : ~(j < m)
    BY <2>1, <2>2 DEF OpToRel
  <2>4. m \in 0..n /\ m \in Nat /\ SumTo(f, m) \notin Int
    BY DEF Bad
  <2>5. SumTo(f, m) = IF m = 0 THEN 0 ELSE SumTo(f, m - 1) + f[m - 1]
    BY <2>4, SumStep
  <2>6. m # 0
    BY <2>4, <2>5
  <2>7. m - 1 \in 0..(n - 1) /\ m - 1 \in 0..n /\ m - 1 < m
    BY <2>4, <2>6
  <2>8. SumTo(f, m - 1) \in Int /\ f[m - 1] \in Int
    BY <2>3, <2>7 DEF Bad
  <2>9. QED
    BY <2>4, <2>5, <2>6, <2>8
<1>2. n \in 0..n
  OBVIOUS
<1>3. QED
  BY <1>1, <1>2

\* Between two numbers with one remainder, a whole width apart, there is none.
LEMMA NotBetween ==
    ASSUME NEW w \in Nat \ {0}, NEW r \in 0..(w - 1), NEW q \in Int,
           NEW x \in Int, NEW a \in Int, a = w * q,
           a + r < x, x < a + w + r
    PROVE  x % w # r
<1> DEFINE e == x - a
<1>1. e \in Int /\ r < e /\ e < w + r /\ x = a + e
  OBVIOUS
<1> HIDE DEF e
<1>2. CASE e < w
  <2>1. e \in 0..(w - 1) /\ x = w * q + e
    BY <1>1, <1>2
  <2>2. x % w = e
    BY <2>1, RemainderIs
  <2>3. QED
    BY <1>1, <2>2
<1>3. CASE e >= w
  <2> DEFINE d == e - w
             p == q + 1
  <2>1. d \in 0..(w - 1) /\ d # r /\ p \in Int
    BY <1>1, <1>3
  <2>2. w * p = a + w
    BY <1>1
  <2>3. x = w * p + d
    BY <1>1, <2>2
  <2> HIDE DEF d, p
  <2>4. x % w = d
    BY <2>1, <2>3, RemainderIs
  <2>5. QED
    BY <2>1, <2>4
<1>4. QED
  BY <1>1, <1>2, <1>3

\* The sum of every w-th value is the sum of those values alone.
LEMMA EveryIsSum ==
    ASSUME NEW w \in Nat \ {0}, NEW r \in 0..(w - 1), NEW n \in Nat, NEW c \in Nat,
           NEW g, NEW h,
           \A i \in 0..(n - 1) : g[i] \in Int,
           c # 0 => (c - 1) * w + r < n,
           n <= c * w + r,
           \A v \in 0..(c - 1) : h[v] = g[v * w + r]
    PROVE  Every(w, r, g, n) = SumTo(h, c)
<1> DEFINE f == [i \in 0..(n - 1) |-> IF i % w = r THEN g[i] ELSE 0]
           Covers(m, k) == (k # 0 => (k - 1) * w + r < m) /\ m <= k * w + r
           Bad == {m \in 0..n : \E k \in 0..c : Covers(m, k)
                                   /\ SumTo(f, m) # SumTo(h, k)}
<1>1. \A k \in 0..(n - 1) : f[k] \in Int
  OBVIOUS
<1>2. ASSUME Bad # {} PROVE FALSE
  <2>1. Bad \subseteq Nat
    OBVIOUS
  <2> HIDE DEF Bad
  <2>2. \E m \in Bad : \A j \in Bad : <<j, m>> \notin OpToRel(<, Nat)
    BY <1>2, <2>1, NatLessThanWellFounded, WFMin
  <2>3. PICK m \in Bad : \A j \in Bad : ~(j < m)
    BY <2>1, <2>2 DEF OpToRel
  <2>4. m \in 0..n /\ m \in Nat
    BY DEF Bad
  <2>5. PICK k \in 0..c : Covers(m, k) /\ SumTo(f, m) # SumTo(h, k)
    BY DEF Bad
  <2>6. k \in Nat /\ k * w \in Int /\ (k - 1) * w = k * w - w
    OBVIOUS
  <2>7. m # 0
    <3>1. SumTo(f, 0) = 0 /\ SumTo(h, 0) = 0
      BY SumStep
    <3>2. ASSUME k # 0 PROVE m # 0
      <4> DEFINE x == (k - 1) * w
      <4>1. x + r < m
        BY <2>5, <3>2
      <4>2. x \in Nat
        <5>1. k - 1 \in Nat
          BY <2>6, <3>2
        <5>2. \A y \in Nat : y * w \in Nat
          OBVIOUS
        <5>3. QED
          BY <5>1, <5>2
      <4> HIDE DEF x
      <4>3. QED
        BY <2>4, <4>1, <4>2
    <3>4. QED
      BY <2>5, <3>1, <3>2
  <2> DEFINE i == m - 1
  <2>8. i \in 0..(n - 1) /\ i \in 0..n /\ i < m /\ i \in Int
    BY <2>4, <2>7
  <2>9. SumTo(f, m) = SumTo(f, i) + f[i]
    BY <2>4, <2>7, SumStep
  <2>10. f[i] = IF i % w = r THEN g[i] ELSE 0
    BY <2>8
  <2>11. \A j \in 0..c : Covers(i, j) => SumTo(f, i) = SumTo(h, j)
    BY <2>3, <2>8 DEF Bad
  <2>12. SumTo(f, i) \in Int
    <3>1. i \in Nat /\ \A j \in 0..(i - 1) : f[j] \in Int
      BY <1>1, <2>8
    <3> HIDE DEF f, i
    <3>2. QED
      BY <3>1, SumInt
  <2> DEFINE a == (k - 1) * w
  <2>13. a \in Int /\ k * w = a + w /\ a = w * (k - 1) /\ k - 1 \in Int
    BY <2>6
  <2>14. m <= a + w + r /\ (k # 0 => a + r < m)
    BY <2>5, <2>13
  <2> HIDE DEF f, a
  <2>15. CASE k # 0 /\ i = a + r
    <3> DEFINE q == k - 1
    <3>1. q \in 0..c /\ q \in Int /\ q \in 0..(c - 1) /\ q \in Nat
      BY <2>6, <2>15
    <3>2. i % w = r
      <4>1. i = w * q + r
        BY <2>13, <2>15
      <4> HIDE DEF i, q
      <4>2. QED
        BY <2>8, <3>1, <4>1, RemainderIs
    <3>3. Covers(i, q)
      <4>1. (q - 1) * w = a - w
        BY <2>6, <2>13
      <4>2. q * w = a
        BY DEF a
      <4>3. QED
        BY <2>8, <2>13, <2>15, <4>1, <4>2
    <3>4. SumTo(f, i) = SumTo(h, q)
      BY <2>11, <3>1, <3>3
    <3>5. g[i] = h[q]
      <4>1. h[q] = g[q * w + r]
        BY <3>1
      <4>2. q * w + r = i
        BY <2>15 DEF a
      <4>3. QED
        BY <4>1, <4>2
    <3>6. SumTo(h, k) = SumTo(h, q) + h[q]
      BY <2>6, <2>15, SumStep
    <3> HIDE DEF i, q
    <3>7. QED
      BY <2>5, <2>9, <2>10, <3>2, <3>4, <3>5, <3>6
  <2>16. CASE ~(k # 0 /\ i = a + r)
    <3>1. i % w # r
      <4>1. a + r < i
        <5>1. CASE k = 0
          <6>1. a = -w
            BY <2>6, <5>1 DEF a
          <6>2. QED
            BY <2>8, <6>1
        <5>2. CASE k # 0
          BY <2>4, <2>8, <2>13, <2>14, <2>16, <5>2
        <5>3. QED
          BY <5>1, <5>2
      <4>2. i < a + w + r
        BY <2>4, <2>8, <2>13, <2>14
      <4> HIDE DEF i
      <4> DEFINE q == k - 1
      <4>3. q \in Int /\ a = w * q
        BY <2>13
      <4> HIDE DEF q
      <4>4. QED
        BY <2>8, <2>13, <4>1, <4>2, <4>3, NotBetween
    <3>2. Covers(i, k)
      <4>1. i <= k * w + r
        BY <2>4, <2>8, <2>13, <2>14
      <4>2. k # 0 => (k - 1) * w + r < i
        BY <2>4, <2>8, <2>13, <2>14, <2>16 DEF a
      <4>3. QED
        BY <4>1, <4>2
    <3>3. SumTo(f, i) = SumTo(h, k)
      BY <2>11, <3>2
    <3> HIDE DEF i
    <3>4. QED
      BY <2>5, <2>9, <2>10, <2>12, <3>1, <3>3
  <2>17. QED
    BY <2>15, <2>16
<1>3. Every(w, r, g, n) = SumTo(f, n)
  BY DEF Every
<1>4. Covers(n, c) /\ n \in 0..n /\ c \in 0..c
  OBVIOUS
<1>5. SumTo(f, n) = SumTo(h, c)
  <2> HIDE DEF f, Covers
  <2>1. QED
    BY <1>2, <1>4
<1> HIDE DEF f
<1>6. QED
  BY <1>3, <1>5

\* The powers of Base likewise.
IsPowers(s, n) == s = [k \in 0..n |-> IF k = 0 THEN 1 ELSE Base * s[k - 1]]

LEMMA OnePower ==
    ASSUME NEW m \in Nat, NEW n \in Nat, NEW s, NEW t,
           IsPowers(s, m), IsPowers(t, n), m <= n
    PROVE  s[m] = t[m]
<1> DEFINE Wrong == {k \in 0..m : s[k] # t[k]}
<1>1. ASSUME NEW k \in 0..m
      PROVE  /\ s[k] = IF k = 0 THEN 1 ELSE Base * s[k - 1]
             /\ t[k] = IF k = 0 THEN 1 ELSE Base * t[k - 1]
  <2>1. k \in 0..n
    OBVIOUS
  <2>2. QED
    BY <2>1 DEF IsPowers
<1>2. ASSUME Wrong # {} PROVE FALSE
  <2>1. Wrong \subseteq Nat
    OBVIOUS
  <2> HIDE DEF Wrong
  <2>2. \E k \in Wrong : \A j \in Wrong : <<j, k>> \notin OpToRel(<, Nat)
    BY <1>2, <2>1, NatLessThanWellFounded, WFMin
  <2>3. PICK k \in Wrong : \A j \in Wrong : ~(j < k)
    BY <2>1, <2>2 DEF OpToRel
  <2>4. k \in 0..m /\ s[k] # t[k]
    BY DEF Wrong
  <2>5. k # 0
    BY <1>1, <2>4
  <2>6. k - 1 \in 0..m /\ k - 1 < k
    BY <2>4, <2>5
  <2>7. s[k - 1] = t[k - 1]
    BY <2>3, <2>6 DEF Wrong
  <2>8. QED
    BY <1>1, <2>4, <2>5, <2>7
<1>3. m \in 0..m
  OBVIOUS
<1>4. QED
  BY <1>2, <1>3

LEMMA PowersExist ==
    ASSUME NEW n \in Nat
    PROVE  \E s : IsPowers(s, n)
<1> DEFINE Bad == {m \in 0..n : ~\E s : IsPowers(s, m)}
<1>1. ASSUME Bad # {} PROVE FALSE
  <2>1. Bad \subseteq Nat
    OBVIOUS
  <2> HIDE DEF Bad
  <2>2. \E m \in Bad : \A j \in Bad : <<j, m>> \notin OpToRel(<, Nat)
    BY <1>1, <2>1, NatLessThanWellFounded, WFMin
  <2>3. PICK m \in Bad : \A j \in Bad : ~(j < m)
    BY <2>1, <2>2 DEF OpToRel
  <2>4. m \in 0..n /\ ~\E s : IsPowers(s, m)
    BY DEF Bad
  <2>5. m # 0
    <3> DEFINE one == [k \in 0..0 |-> 1]
    <3>1. one = [k \in 0..0 |-> IF k = 0 THEN 1 ELSE Base * one[k - 1]]
      OBVIOUS
    <3> HIDE DEF one
    <3>2. IsPowers(one, 0)
      BY <3>1 DEF IsPowers
    <3>3. QED
      BY <2>4, <3>2
  <2>6. m - 1 \in 0..n /\ m - 1 < m /\ m \in Nat
    BY <2>4, <2>5
  <2>7. PICK s : IsPowers(s, m - 1)
    BY <2>3, <2>6 DEF Bad
  <2> DEFINE t == [k \in 0..m |-> IF k = m THEN Base * s[m - 1] ELSE s[k]]
  <2>8. ASSUME NEW k \in 0..m
        PROVE  t[k] = IF k = 0 THEN 1 ELSE Base * t[k - 1]
    <3>1. CASE k = m
      <4>1. m - 1 \in 0..m /\ m - 1 # m
        BY <2>5, <2>6
      <4>2. QED
        BY <2>5, <3>1, <4>1
    <3>2. CASE k # m
      <4>1. k \in 0..(m - 1)
        BY <2>6, <3>2
      <4>2. s[k] = IF k = 0 THEN 1 ELSE Base * s[k - 1]
        BY <2>7, <4>1 DEF IsPowers
      <4>3. k # 0 => k - 1 \in 0..m /\ k - 1 # m
        BY <2>6, <4>1
      <4>4. QED
        BY <3>2, <4>2, <4>3
    <3>3. QED
      BY <3>1, <3>2
  <2>9. t = [k \in 0..m |-> t[k]]
    OBVIOUS
  <2> HIDE DEF t
  <2>10. IsPowers(t, m)
    BY <2>8, <2>9 DEF IsPowers
  <2>11. QED
    BY <2>4, <2>10
<1>2. n \in 0..n
  OBVIOUS
<1>3. QED
  BY <1>1, <1>2

LEMMA PowStep ==
    ASSUME NEW n \in Nat
    PROVE  Pow(n) = IF n = 0 THEN 1 ELSE Base * Pow(n - 1)
<1> DEFINE s == CHOOSE x : IsPowers(x, n)
           t == CHOOSE x : IsPowers(x, n - 1)
<1>1. IsPowers(s, n) /\ Pow(n) = s[n]
  BY PowersExist DEF Pow, IsPowers
<1>2. n \in 0..n
  OBVIOUS
<1>3. CASE n = 0
  <2> HIDE DEF s
  <2>1. QED
    BY <1>1, <1>2, <1>3 DEF IsPowers
<1>4. CASE n # 0
  <2>1. n - 1 \in Nat /\ n - 1 <= n
    BY <1>4
  <2>2. IsPowers(t, n - 1) /\ Pow(n - 1) = t[n - 1]
    BY <2>1, PowersExist DEF Pow, IsPowers
  <2> HIDE DEF s, t
  <2>3. t[n - 1] = s[n - 1]
    BY <1>1, <2>1, <2>2, OnePower
  <2>4. s[n] = Base * s[n - 1]
    BY <1>1, <1>2, <1>4 DEF IsPowers
  <2>5. QED
    BY <1>1, <1>4, <2>2, <2>3, <2>4
<1>5. QED
  BY <1>3, <1>4

LEMMA PowNat == ASSUME NEW n \in Nat PROVE Pow(n) \in Nat \ {0}
<1> DEFINE Bad == {m \in 0..n : Pow(m) \notin Nat \ {0}}
<1>1. ASSUME Bad # {} PROVE FALSE
  <2>1. Bad \subseteq Nat
    OBVIOUS
  <2> HIDE DEF Bad
  <2>2. \E m \in Bad : \A j \in Bad : <<j, m>> \notin OpToRel(<, Nat)
    BY <1>1, <2>1, NatLessThanWellFounded, WFMin
  <2>3. PICK m \in Bad : \A j \in Bad : ~(j < m)
    BY <2>1, <2>2 DEF OpToRel
  <2>4. m \in 0..n /\ m \in Nat /\ Pow(m) \notin Nat \ {0}
    BY DEF Bad
  <2>5. Pow(m) = IF m = 0 THEN 1 ELSE Base * Pow(m - 1)
    BY <2>4, PowStep
  <2>6. m # 0
    BY <2>4, <2>5
  <2>7. m - 1 \in 0..n /\ m - 1 < m
    BY <2>4, <2>6
  <2>8. Pow(m - 1) \in Nat \ {0}
    BY <2>3, <2>7 DEF Bad
  <2>9. Base \in Nat \ {0}
    BY ScaleAssumption
  <2>10. \A x, y \in Nat \ {0} : x * y \in Nat \ {0}
    OBVIOUS
  <2>11. Base * Pow(m - 1) \in Nat \ {0}
    BY <2>8, <2>9, <2>10
  <2>12. QED
    BY <2>4, <2>5, <2>6, <2>11
<1>2. n \in 0..n
  OBVIOUS
<1>3. QED
  BY <1>1, <1>2

-----------------------------------------------------------------------------
(* The buffers.                                                            *)

LEMMA QuotientIs ==
    ASSUME NEW x \in Int, NEW w \in Nat \ {0}, NEW q \in Int,
           NEW r \in 0..(w - 1), x = w * q + r
    PROVE  x \div w = q
<1> DEFINE p == x \div w
           s == x % w
<1>1. x = w * p + s /\ p \in Int /\ s \in 0..(w - 1)
  BY DivMod
<1> HIDE DEF p, s
<1>2. r = s
  BY <1>1, OneRemainder
<1>3. w * (p - q) = 0
  <2>1. w * p = w * q
    BY <1>1, <1>2
  <2>2. w * (p - q) = w * p - w * q
    BY <1>1
  <2>3. w * q \in Int
    OBVIOUS
  <2>4. QED
    BY <2>1, <2>2, <2>3
<1>4. CASE p - q >= 1
  <2>1. w * (p - q) >= w
    BY <1>1, <1>4, SMTT(30)
  <2>2. QED
    BY <1>3, <2>1
<1>5. CASE p - q <= -1
  <2>1. w * (p - q) <= -w
    BY <1>1, <1>5, SMTT(30)
  <2>2. QED
    BY <1>3, <2>1
<1>6. p = q
  BY <1>1, <1>4, <1>5
<1>7. QED
  BY <1>6 DEF p

\* Products grow with a factor.
LEMMA Monotone ==
    ASSUME NEW x \in Nat, NEW y \in Nat, NEW w \in Nat, x <= y
    PROVE  x * w <= y * w /\ x * w \in Nat
<1>1. (y - x) * w >= 0
  <2>1. y - x \in Nat
    OBVIOUS
  <2>2. \A z \in Nat : z * w >= 0
    OBVIOUS
  <2>3. QED
    BY <2>1, <2>2
<1>2. (y - x) * w = y * w - x * w
  OBVIOUS
<1>3. x * w \in Nat /\ y * w \in Nat
  OBVIOUS
<1>4. QED
  BY <1>1, <1>2, <1>3

LEMMA Scale ==
    /\ Base \in Nat \ {0} /\ WordBytes \in Nat \ {0} /\ VecWords \in Nat \ {0}
    /\ Page \in Nat \ {0} /\ Page % WordBytes = 0
    /\ Mult \in Nat /\ Offset \in Nat /\ Digit \in Nat
    /\ VecBytes \in Nat \ {0} /\ VecBytes = WordBytes * VecWords
<1>1. /\ Base \in Nat \ {0} /\ WordBytes \in Nat \ {0} /\ VecWords \in Nat \ {0}
      /\ Page \in Nat \ {0} /\ Page % WordBytes = 0
      /\ Mult \in Nat /\ Offset \in Nat /\ Digit \in Nat
  BY ScaleAssumption
<1>2. \A x, y \in Nat \ {0} : x * y \in Nat \ {0}
  OBVIOUS
<1>3. QED
  BY <1>1, <1>2 DEF VecBytes

\* A buffer is whole vectors, a vector is whole words.
LEMMA WholeBuffer ==
    ASSUME NEW n \in Sizes
    PROVE  /\ n \in Nat /\ Touched(n) \in Nat
           /\ Touched(n) * VecBytes = n
           /\ n \div WordBytes = Touched(n) * VecWords
           /\ (n \div WordBytes) * WordBytes = n
           /\ n # 0 => (n - 1) % WordBytes = WordBytes - 1
           /\ n # 0 <=> Touched(n) > 0
<1> DEFINE q == n \div VecBytes
           words == q * VecWords
<1>1. n \in Nat /\ n % VecBytes = 0
  BY ScaleAssumption
<1>2. n = VecBytes * q /\ q \in Int
  <2>1. n = VecBytes * (n \div VecBytes) + (n % VecBytes) /\ n \div VecBytes \in Int
    <3>1. n \in Int /\ VecBytes \in Nat \ {0}
      BY <1>1, Scale
    <3>2. QED
      BY <3>1, DivMod
  <2>2. VecBytes * q \in Int
    BY <2>1, Scale
  <2>3. QED
    BY <1>1, <2>1, <2>2
<1>3. Touched(n) = q
  BY DEF Touched, Vectors
<1> HIDE DEF q
<1>4. q \in Nat
  <2>1. CASE q <= -1
    <3>1. VecBytes * q <= -VecBytes
      BY <1>2, <2>1, Scale, SMTT(30)
    <3>2. QED
      BY <1>1, <1>2, <3>1, Scale
  <2>2. QED
    BY <1>2, <2>1
<1>5. n = WordBytes * words /\ words \in Nat
  <2>1. words \in Nat
    BY <1>4, Scale
  <2>2. VecBytes * q = WordBytes * (q * VecWords)
    BY <1>4, Scale
  <2>3. QED
    BY <1>2, <2>1, <2>2
<1>6. n # 0 <=> q > 0
  <2>1. ASSUME q > 0 PROVE n # 0
    <3>1. VecBytes \in Nat \ {0} /\ q \in Nat \ {0}
      BY <1>4, <2>1, Scale
    <3>2. \A x, y \in Nat \ {0} : x * y # 0
      OBVIOUS
    <3>3. QED
      BY <1>2, <3>1, <3>2
  <2>2. ASSUME q = 0 PROVE n = 0
    BY <1>2, <2>2, Scale
  <2>3. QED
    BY <1>4, <2>1, <2>2
<1> HIDE DEF words
<1>7. n \div WordBytes = words
  <2>1. n = WordBytes * words + 0 /\ 0 \in 0..(WordBytes - 1)
    BY <1>1, <1>5, Scale
  <2>2. QED
    BY <1>1, <1>5, <2>1, Scale, QuotientIs
<1>8. (n - 1) % WordBytes = WordBytes - 1
  <2> DEFINE x == n - 1
             p == words - 1
             r == WordBytes - 1
  <2>1. x \in Int /\ p \in Int /\ r \in 0..(WordBytes - 1)
    BY <1>1, <1>5, Scale
  <2>2. x = WordBytes * p + r
    <3>1. WordBytes * (words - 1) = WordBytes * words - WordBytes
      BY <1>5, Scale
    <3>2. QED
      BY <1>1, <1>5, <3>1, Scale
  <2> HIDE DEF x, p, r
  <2>3. x % WordBytes = r
    BY <2>1, <2>2, Scale, RemainderIs
  <2>4. QED
    BY <2>3 DEF x, r
<1>9. q * VecBytes = n
  BY <1>2, <1>4, Scale
<1>10. words * WordBytes = n
  BY <1>5, Scale
<1>11. QED
  BY <1>1, <1>3, <1>4, <1>6, <1>7, <1>8, <1>9, <1>10 DEF words

LEMMA PatternBytes ==
    ASSUME NEW n \in Nat
    PROVE  /\ Pattern(n) = [i \in 0..(n - 1) |-> Pattern(n)[i]]
           /\ \A i \in 0..(n - 1) : /\ Pattern(n)[i] = (i * Mult + Offset) % Base
                                    /\ Pattern(n)[i] \in Int
<1>1. ASSUME NEW i \in 0..(n - 1) PROVE (i * Mult + Offset) % Base \in Int
  <2>1. i * Mult + Offset \in Int
    BY Scale
  <2>2. QED
    BY <2>1, Scale, DivMod
<1>2. QED
  BY <1>1 DEF Pattern

LEMMA WordAtInt ==
    ASSUME NEW buffer, NEW i,
           \A k \in 0..(WordBytes - 1) : buffer[i * WordBytes + k] \in Int
    PROVE  WordAt(buffer, i) \in Int
<1> DEFINE f == [k \in 0..(WordBytes - 1) |-> buffer[i * WordBytes + k] * Pow(k)]
<1>1. ASSUME NEW k \in 0..(WordBytes - 1) PROVE f[k] \in Int
  <2>1. Pow(k) \in Int /\ buffer[i * WordBytes + k] \in Int
    BY Scale, PowNat
  <2>2. f[k] = buffer[i * WordBytes + k] * Pow(k)
    OBVIOUS
  <2>3. QED
    BY <2>1, <2>2
<1>2. WordAt(buffer, i) = SumTo(f, WordBytes)
  BY DEF WordAt
<1> HIDE DEF f
<1>3. QED
  BY <1>1, <1>2, Scale, SumInt

LEMMA RepunitInt == Repunit \in Int
<1> DEFINE f == [k \in 0..(WordBytes - 1) |-> Pow(k)]
<1>1. \A k \in 0..(WordBytes - 1) : f[k] \in Int
  BY Scale, PowNat
<1>2. Repunit = SumTo(f, WordBytes)
  BY DEF Repunit
<1> HIDE DEF f
<1>3. QED
  BY <1>1, <1>2, Scale, SumInt

\* The vector sums of the pattern are, lane by lane, those of its words.
LEMMA LaneSum ==
    ASSUME NEW n \in Sizes, NEW lane \in 0..(VecWords - 1)
    PROVE  LET words == n \div WordBytes
           IN  SumTo([v \in 0..(Touched(n) - 1) |->
                         WordAt(Pattern(n), v * VecWords + lane)], Touched(n))
               = Every(VecWords, lane,
                       [w \in 0..(words - 1) |-> WordAt(Pattern(n), w)], words)
<1> DEFINE words == n \div WordBytes
           c == Touched(n)
           g == [w \in 0..(words - 1) |-> WordAt(Pattern(n), w)]
           h == [v \in 0..(c - 1) |-> WordAt(Pattern(n), v * VecWords + lane)]
<1>1. /\ n \in Nat /\ c \in Nat /\ words = c * VecWords /\ words * WordBytes = n
      /\ VecWords \in Nat \ {0} /\ WordBytes \in Nat \ {0}
  BY WholeBuffer, Scale
<1>2. words \in Nat
  BY <1>1
<1> HIDE DEF words, c
<1>3. ASSUME NEW i \in 0..(words - 1) PROVE g[i] \in Int
  <2>1. ASSUME NEW k \in 0..(WordBytes - 1)
        PROVE  Pattern(n)[i * WordBytes + k] \in Int
    <3>1. (i + 1) * WordBytes <= words * WordBytes
      BY <1>1, <1>2, Monotone
    <3>2. (i + 1) * WordBytes = i * WordBytes + WordBytes /\ i * WordBytes \in Nat
      BY <1>1, <1>2
    <3>3. i * WordBytes + k \in 0..(n - 1)
      BY <1>1, <3>1, <3>2
    <3>4. QED
      BY <1>1, <3>3, PatternBytes
  <2>2. WordAt(Pattern(n), i) \in Int
    BY <2>1, WordAtInt
  <2>3. QED
    BY <2>2
<1>4. ASSUME c # 0 PROVE (c - 1) * VecWords + lane < words
  <2>1. (c - 1) * VecWords = c * VecWords - VecWords /\ c * VecWords \in Int
    BY <1>1
  <2>2. QED
    BY <1>1, <1>2, <2>1
<1>5. words <= c * VecWords + lane
  BY <1>1, <1>2
<1>6. ASSUME NEW v \in 0..(c - 1) PROVE h[v] = g[v * VecWords + lane]
  <2>1. (v + 1) * VecWords <= c * VecWords
    BY <1>1, Monotone
  <2>2. (v + 1) * VecWords = v * VecWords + VecWords /\ v * VecWords \in Nat
    BY <1>1
  <2>3. v * VecWords + lane \in 0..(words - 1)
    BY <1>1, <1>2, <2>1, <2>2
  <2>4. QED
    BY <2>3
<1> HIDE DEF g, h
<1>7. Every(VecWords, lane, g, words) = SumTo(h, c)
  BY <1>1, <1>2, <1>3, <1>4, <1>5, <1>6, EveryIsSum
<1>8. QED
  BY <1>7 DEF g, h, words, c

\* checksum_bytes reads a byte of every page and the last one.
LEMMA PageSum ==
    ASSUME NEW n \in Nat \ {0}, NEW g, \A i \in 0..(n - 1) : g[i] \in Int
    PROVE  ChecksumBytes(g, n) = Every(Page, 0, g, n) + g[n - 1]
<1> DEFINE d == (n - 1) \div Page
           r == (n - 1) % Page
           c == d + 1
           h == [p \in 0..(c - 1) |-> g[p * Page]]
<1>1. n - 1 = Page * d + r /\ d \in Int /\ r \in 0..(Page - 1) /\ Page \in Nat \ {0}
  <2> DEFINE x == n - 1
  <2>1. x \in Int /\ Page \in Nat \ {0}
    BY Scale
  <2> HIDE DEF x
  <2>2. x = Page * (x \div Page) + (x % Page) /\ x % Page \in 0..(Page - 1)
        /\ x \div Page \in Int
    BY <2>1, DivMod
  <2>3. QED
    BY <2>1, <2>2 DEF x
<1> HIDE DEF r
<1>2. d \in Nat
  <2> HIDE DEF d
  <2>1. CASE d <= -1
    <3>1. Page * d <= -Page
      BY <1>1, <2>1, SMTT(30)
    <3>2. QED
      BY <1>1, <3>1
  <2>2. QED
    BY <1>1, <2>1
<1>3. ChecksumBytes(g, n) = SumTo(h, c) + g[n - 1]
  BY DEF ChecksumBytes
<1> HIDE DEF d
<1>4. c \in Nat /\ Page * d = d * Page /\ c * Page = d * Page + Page
      /\ d * Page \in Nat
  BY <1>1, <1>2
<1>5. c # 0 => (c - 1) * Page + 0 < n
  BY <1>1, <1>2, <1>4
<1>6. n <= c * Page + 0
  BY <1>1, <1>2, <1>4
<1>7. ASSUME NEW v \in 0..(c - 1) PROVE h[v] = g[v * Page + 0]
  <2>1. v * Page + 0 = v * Page
    BY <1>1, <1>4
  <2>2. QED
    BY <2>1
<1> HIDE DEF h, c
<1>8. Every(Page, 0, g, n) = SumTo(h, c)
  <2>1. 0 \in 0..(Page - 1) /\ n \in Nat
    BY <1>1
  <2>2. QED
    BY <1>1, <1>4, <1>5, <1>6, <1>7, <2>1, EveryIsSum
<1>9. QED
  BY <1>3, <1>8

\* Every word holds a byte of it at each place, the same in all words.
LEMMA ByteOfInt ==
    ASSUME NEW word \in Int, NEW i \in Int
    PROVE  ByteOf(word, i) \in Int
<1> DEFINE p == Pow(i % WordBytes)
<1>1. p \in Nat \ {0}
  <2>1. i % WordBytes \in Nat
    BY Scale, DivMod
  <2>2. QED
    BY <2>1, PowNat
<1> HIDE DEF p
<1>2. word \div p \in Int
  BY <1>1, DivMod
<1>3. (word \div p) % Base \in Int
  BY <1>2, Scale, DivMod
<1>4. QED
  BY <1>3 DEF ByteOf, p

\* The byte at the start of a page is the lowest, the last one the highest.
LEMMA LowByte ==
    ASSUME NEW word \in Int, NEW i \in Int, i % Page = 0
    PROVE  ByteOf(word, i) = word % Base
<1> DEFINE q == i \div Page
           e == Page \div WordBytes
<1>1. i = Page * q /\ q \in Int
  <2>1. i = Page * (i \div Page) + (i % Page) /\ i \div Page \in Int
    BY Scale, DivMod
  <2>2. Page * q \in Int
    BY <2>1, Scale
  <2>3. QED
    BY <2>1, <2>2
<1>2. Page = WordBytes * e /\ e \in Int
  <2>1. Page = WordBytes * (Page \div WordBytes) + (Page % WordBytes)
        /\ Page \div WordBytes \in Int
    BY Scale, DivMod
  <2>2. WordBytes * e \in Int
    BY <2>1, Scale
  <2>3. QED
    BY <2>1, <2>2, Scale
<1> HIDE DEF q, e
<1>3. i % WordBytes = 0
  <2> DEFINE p == e * q
  <2>1. i = WordBytes * p /\ p \in Int
    BY <1>1, <1>2, Scale
  <2> HIDE DEF p
  <2>2. i = WordBytes * p + 0 /\ 0 \in 0..(WordBytes - 1)
    BY <2>1, Scale
  <2>3. QED
    BY <2>1, <2>2, Scale, RemainderIs
<1>4. Pow(0) = 1
  BY PowStep
<1>5. word \div 1 = word
  OBVIOUS
<1>6. QED
  BY <1>3, <1>4, <1>5 DEF ByteOf

LEMMA HighByte ==
    ASSUME NEW n \in Sizes \ {0}, NEW word \in 0..(WordValues - 1)
    PROVE  ByteOf(word, n - 1) = word \div Pow(WordBytes - 1)
<1> DEFINE p == Pow(WordBytes - 1)
           d == word \div p
           r == word % p
<1>1. (n - 1) % WordBytes = WordBytes - 1
  BY WholeBuffer
<1>2. p \in Nat \ {0} /\ WordValues = Base * p
  <2>1. WordBytes - 1 \in Nat /\ WordBytes \in Nat /\ WordBytes # 0
    BY Scale
  <2>2. QED
    BY <2>1, PowNat, PowStep DEF WordValues
<1>3. word \in Nat /\ word < Base * p /\ Base \in Nat \ {0}
  <2>1. Base * p \in Int
    BY <1>2, Scale
  <2>2. QED
    BY <1>2, <2>1, Scale
<1> HIDE DEF p
<1>4. word = p * d + r /\ d \in Int /\ r \in 0..(p - 1)
  BY <1>2, <1>3, DivMod
<1> HIDE DEF d, r
<1>5. d \in 0..(Base - 1)
  <2>1. CASE d <= -1
    <3>1. p * d <= -p
      BY <1>2, <1>4, <2>1, SMTT(30)
    <3>2. QED
      BY <1>2, <1>3, <1>4, <3>1
  <2>2. CASE d >= Base
    <3>1. Base * p <= d * p
      <4>1. d \in Nat /\ Base \in Nat /\ p \in Nat
        BY <1>2, <1>3, <1>4, <2>2
      <4>2. QED
        BY <2>2, <4>1, Monotone
    <3>2. d * p = p * d /\ p * d \in Int
      BY <1>2, <1>4
    <3>3. Base * p \in Int
      BY <1>2, <1>3
    <3>4. QED
      BY <1>3, <1>4, <3>1, <3>2, <3>3
  <2>3. QED
    BY <1>3, <1>4, <2>1, <2>2
<1>6. d % Base = d
  <2>1. d = Base * 0 + d /\ d \in Int /\ 0 \in Int
    BY <1>3, <1>5
  <2>2. QED
    BY <1>3, <1>5, <2>1, RemainderIs
<1>7. ByteOf(word, n - 1) = d % Base
  BY <1>1 DEF ByteOf, d, p
<1>8. QED
  BY <1>6, <1>7 DEF d, p

-----------------------------------------------------------------------------
(* The checksums.                                                          *)

LEMMA LanesTrue ==
    ASSUME bytes \in Sizes
    PROVE  Lanes(Pattern(bytes), bytes, repeats) = ExpectedLanes
<1> DEFINE words == bytes \div WordBytes
           c == Touched(bytes)
           left(lane) == SumTo([v \in 0..(c - 1) |->
                                  WordAt(Pattern(bytes), v * VecWords + lane)], c)
           right(lane) == Every(VecWords, lane,
                                [w \in 0..(words - 1) |-> WordAt(Pattern(bytes), w)],
                                words)
<1>1. \A lane \in 0..(VecWords - 1) : left(lane) = right(lane)
  BY LaneSum
<1>2. Lanes(Pattern(bytes), bytes, repeats)
         = [lane \in 0..(VecWords - 1) |-> (repeats * left(lane)) % WordValues]
  BY DEF Lanes
<1>3. ExpectedLanes
         = [lane \in 0..(VecWords - 1) |-> (repeats * right(lane)) % WordValues]
  BY DEF ExpectedLanes
<1> HIDE DEF left, right
<1>4. QED
  BY <1>1, <1>2, <1>3

\* The last word written, as one number and as the loop adds it up.
LEMMA LastWord ==
    ASSUME repeats \in Nat \ {0}
    PROVE  /\ WordInRepeat(repeats) = WrittenWord
           /\ WrittenWord \in 0..(WordValues - 1)
<1> DEFINE u == Repunit
           x == u * (Digit + repeats - 1)
<1>1. u \in Int /\ Digit \in Nat
  BY RepunitInt, Scale
<1>2. Digit * u + (repeats - 1) * u = u * (Digit + repeats - 1)
  <2> HIDE DEF u
  <2>1. QED
    BY <1>1
<1>3. WordInRepeat(repeats) = WrittenWord
  BY <1>2 DEF WordInRepeat, WrittenWord
<1>4. x \in Int /\ WordValues \in Nat \ {0}
  <2> HIDE DEF u
  <2>1. WordValues \in Nat \ {0}
    BY Scale, PowNat DEF WordValues
  <2>2. QED
    BY <1>1, <2>1
<1>5. WrittenWord = x % WordValues
  BY DEF WrittenWord
<1> HIDE DEF x
<1>6. QED
  BY <1>3, <1>4, <1>5, DivMod

LEMMA WriteSum ==
    ASSUME bytes \in Sizes \ {0}, NEW word \in 0..(WordValues - 1), NEW new,
           new = [i \in 0..(bytes - 1) |-> ByteOf(word, i)]
    PROVE  ChecksumBytes(new, bytes)
              = Every(Page, 0, [i \in 0..(bytes - 1) |-> word % Base], bytes)
                + (word \div Pow(WordBytes - 1))
<1> DEFINE low == [i \in 0..(bytes - 1) |-> word % Base]
<1>1. bytes \in Nat \ {0} /\ bytes \in Sizes /\ word \in Int
  <2>1. WordValues \in Nat
    BY Scale, PowNat DEF WordValues
  <2>2. QED
    BY <2>1, WholeBuffer
<1>2. \A i \in 0..(bytes - 1) : new[i] \in Int
  BY <1>1, ByteOfInt
<1>3. ChecksumBytes(new, bytes) = Every(Page, 0, new, bytes) + new[bytes - 1]
  <2> DEFINE n == bytes
  <2>1. n \in Nat \ {0} /\ \A i \in 0..(n - 1) : new[i] \in Int
    BY <1>1, <1>2
  <2> HIDE DEF n
  <2>2. ChecksumBytes(new, n) = Every(Page, 0, new, n) + new[n - 1]
    BY <2>1, PageSum
  <2>3. QED
    BY <2>2 DEF n
<1>4. [i \in 0..(bytes - 1) |-> IF i % Page = 0 THEN new[i] ELSE 0]
         = [i \in 0..(bytes - 1) |-> IF i % Page = 0 THEN low[i] ELSE 0]
  <2>1. ASSUME NEW i \in 0..(bytes - 1), i % Page = 0 PROVE new[i] = low[i]
    BY <1>1, <2>1, LowByte
  <2>2. QED
    BY <2>1
<1>5. Every(Page, 0, new, bytes) = Every(Page, 0, low, bytes)
  <2> HIDE DEF low
  <2>1. QED
    BY <1>4 DEF Every
<1>6. new[bytes - 1] = word \div Pow(WordBytes - 1)
  <2>1. new[bytes - 1] = ByteOf(word, bytes - 1)
    BY <1>1
  <2>2. QED
    BY <2>1, HighByte
<1>7. QED
  BY <1>3, <1>5, <1>6

LEMMA CopySum ==
    ASSUME bytes \in Sizes \ {0}
    PROVE  ChecksumBytes(Pattern(bytes), bytes)
              = Every(Page, 0, Pattern(bytes), bytes)
                + (((bytes - 1) * Mult + Offset) % Base)
<1> DEFINE n == bytes
           g == Pattern(bytes)
<1>1. n \in Nat \ {0} /\ \A i \in 0..(n - 1) : g[i] \in Int
  BY WholeBuffer, PatternBytes
<1>2. g[n - 1] = ((bytes - 1) * Mult + Offset) % Base
  BY <1>1, PatternBytes
<1> HIDE DEF n, g
<1>3. ChecksumBytes(g, n) = Every(Page, 0, g, n) + g[n - 1]
  BY <1>1, PageSum
<1>4. QED
  BY <1>2, <1>3 DEF g, n

LEMMA WholeOverwritten ==
    ASSUME bytes \in Sizes, NEW old, NEW f, DOMAIN old = 0..(bytes - 1)
    PROVE  Overwritten(old, f) = [i \in 0..(bytes - 1) |-> f[i]]
<1>1. Touched(bytes) * VecBytes = bytes /\ bytes \in Nat
  BY WholeBuffer
<1>2. \A i \in 0..(bytes - 1) : i < Touched(bytes) * VecBytes
  BY <1>1
<1>3. QED
  BY <1>2 DEF Overwritten

\* verify_copy tells words of one value from the pattern.
LEMMA UniformIsSeen ==
    ASSUME MemTypeInv, UniformInv, copies = 0, bytes # 0
    PROVE  \E i \in Indices : src[i] # dst[i]
<1>1. /\ bytes \in Sizes \ {0} /\ bytes \in Nat \ {0} /\ src = Pattern(bytes)
      /\ Stride \in Int /\ Probes \in Nat
  BY WholeBuffer, ScaleAssumption DEF MemTypeInv
<1>2. PICK i, j \in Indices :
         i % WordBytes = j % WordBytes /\ Pattern(bytes)[i] # Pattern(bytes)[j]
  BY <1>1, ProbeAssumption DEF Indices
<1>3. Indices \subseteq 0..(bytes - 1)
  <2>1. ASSUME NEW k \in Int PROVE (k * Stride) % bytes \in 0..(bytes - 1)
    <3>1. k * Stride \in Int
      BY <1>1
    <3>2. QED
      BY <1>1, <3>1, DivMod
  <2>2. QED
    BY <2>1 DEF Indices, Probed
<1>4. dst[i] = dst[j]
  BY <1>2, <1>3 DEF UniformInv
<1>5. QED
  BY <1>1, <1>2, <1>4

-----------------------------------------------------------------------------
(* The memory scenarios step by step.                                      *)

\* The initial states satisfy the invariant.
THEOREM MemInitInv == MemInit => MemInv
<1> SUFFICES ASSUME MemInit PROVE MemInv
  OBVIOUS
<1> USE DEF MemInit
<1>1. bytes \in Nat
  BY WholeBuffer
<1>2. dst \in [0..(bytes - 1) -> Int] /\ \A i \in 0..(bytes - 1) : dst[i] = 0
  BY <1>1 DEF Cleared
<1>3. MemTypeInv
  BY <1>2 DEF MemTypeInv
<1>4. UniformInv
  BY <1>2 DEF UniformInv
<1>5. QED
  BY <1>3, <1>4 DEF MemInv, AnswerInv, Answered, CopyVerdictTrue

LEMMA SameExpected ==
    ASSUME UNCHANGED <<at, repeats, bytes>>
    PROVE  Expected' = Expected
BY DEF Expected, ExpectedLanes, WrittenWord

\* Between the calls nothing is claimed of an answer.
LEMMA LoopSteps ==
    ASSUME MemInv, NextScenario \/ RoundEnds
    PROVE  MemInv'
<1> USE DEF MemInv
<1>1. UNCHANGED <<bytes, src, dst, fault, checksum, copies, arrived>>
  BY DEF NextScenario, RoundEnds
<1>2. /\ pc' \in {"loop", "call", "exit"} /\ at' \in Nat \ {0}
      /\ repeats' \in Nat \ {0} /\ (pc' = "call" => at' \in 1..3)
  <2>1. CASE NextScenario
    BY <2>1 DEF NextScenario, MemTypeInv, MemScenarios
  <2>2. CASE RoundEnds
    BY <2>2 DEF RoundEnds, MemTypeInv
  <2>3. QED
    BY <2>1, <2>2
<1>3. MemTypeInv'
  BY <1>1, <1>2 DEF MemTypeInv
<1>4. UniformInv'
  BY <1>1 DEF UniformInv
<1>5. AnswerInv' /\ CopyVerdictTrue'
  BY <1>2 DEF AnswerInv, Answered, CopyVerdictTrue
<1>6. QED
  BY <1>3, <1>4, <1>5

LEMMA RefusedStep ==
    ASSUME MemInv, Refused
    PROVE  MemInv'
<1> USE DEF MemInv
<1>1. /\ pc = "call" /\ pc' = "called" /\ fault' = EBadParm
      /\ UNCHANGED <<bytes, at, src, dst, repeats, copies, arrived>>
  BY DEF Refused
<1>2. MemTypeInv' /\ UniformInv'
  BY <1>1 DEF MemTypeInv, UniformInv
<1>3. AnswerInv' /\ CopyVerdictTrue'
  BY <1>1 DEF AnswerInv, Answered, CopyVerdictTrue
<1>4. QED
  BY <1>2, <1>3

LEMMA ReadStep ==
    ASSUME MemInv, Read
    PROVE  MemInv'
<1> USE DEF MemInv
<1>1. /\ pc = "call" /\ pc' = "called" /\ fault' = EOk
      /\ MemScenarios[at] = "mem-read" /\ bytes > 0
      /\ checksum' = <<Lanes(src, bytes, repeats)>>
      /\ UNCHANGED <<bytes, at, src, dst, repeats, copies, arrived>>
  BY DEF Read, Calls, CanRun
<1>2. MemTypeInv' /\ UniformInv'
  BY <1>1 DEF MemTypeInv, UniformInv
<1>3. Lanes(src, bytes, repeats) = ExpectedLanes
  BY LanesTrue DEF MemTypeInv
<1>4. checksum' = Expected'
  <2>1. Expected = <<ExpectedLanes>>
    BY <1>1 DEF Expected
  <2>2. QED
    BY <1>1, <1>3, <2>1, SameExpected
<1>5. bytes' # 0 /\ MemScenarios[at'] # "mem-copy"
  <2>1. bytes # 0
    BY <1>1
  <2>2. QED
    BY <1>1, <2>1
<1>6. AnswerInv' /\ CopyVerdictTrue'
  BY <1>1, <1>4, <1>5 DEF AnswerInv, Answered, CopyVerdictTrue
<1>7. QED
  BY <1>2, <1>6

LEMMA WriteStep ==
    ASSUME MemInv, Write
    PROVE  MemInv'
<1> USE DEF MemInv
<1> DEFINE word == WordInRepeat(repeats)
           new == Overwritten(dst, [i \in DOMAIN dst |-> ByteOf(word, i)])
<1>1. /\ pc = "call" /\ pc' = "called" /\ fault' = EOk
      /\ MemScenarios[at] = "mem-write" /\ bytes > 0
      /\ checksum' = <<ChecksumBytes(new, bytes)>>
      /\ dst' \in {new, dst} /\ arrived' \in BOOLEAN
      /\ UNCHANGED <<bytes, at, src, repeats, copies>>
  BY DEF Write, Calls, CanRun, Back
<1>2. /\ bytes \in Sizes \ {0} /\ bytes \in Nat /\ DOMAIN dst = 0..(bytes - 1)
      /\ repeats \in Nat \ {0}
  BY <1>1, WholeBuffer DEF MemTypeInv
<1>3. new = [i \in 0..(bytes - 1) |-> ByteOf(word, i)]
  <2> DEFINE f == [i \in DOMAIN dst |-> ByteOf(word, i)]
  <2>1. Overwritten(dst, f) = [i \in 0..(bytes - 1) |-> f[i]]
    BY <1>2, WholeOverwritten
  <2>2. QED
    BY <1>2, <2>1
<1>4. word = WrittenWord /\ word \in 0..(WordValues - 1) /\ word \in Int
  <2>1. WordValues \in Nat
    BY Scale, PowNat DEF WordValues
  <2>2. QED
    BY <1>2, <2>1, LastWord
<1> HIDE DEF word, new
<1>5. new \in [0..(bytes - 1) -> Int]
  BY <1>2, <1>3, <1>4, ByteOfInt
<1>6. \A i, j \in 0..(bytes - 1) : i % WordBytes = j % WordBytes => new[i] = new[j]
  BY <1>3 DEF ByteOf
<1>7. MemTypeInv'
  BY <1>1, <1>5 DEF MemTypeInv
<1>8. UniformInv'
  <2>1. CASE dst' = dst
    BY <1>1, <2>1 DEF UniformInv
  <2>2. CASE dst' = new
    BY <1>1, <1>6, <2>2 DEF UniformInv
  <2>3. QED
    BY <1>1, <2>1, <2>2
<1>9. checksum' = Expected'
  <2>1. Expected
           = <<Every(Page, 0, [i \in 0..(bytes - 1) |-> WrittenWord % Base], bytes)
               + (WrittenWord \div Pow(WordBytes - 1))>>
    BY <1>1 DEF Expected
  <2>2. ChecksumBytes(new, bytes)
           = Every(Page, 0, [i \in 0..(bytes - 1) |-> word % Base], bytes)
             + (word \div Pow(WordBytes - 1))
    BY <1>2, <1>3, <1>4, WriteSum
  <2>3. QED
    BY <1>1, <1>4, <2>1, <2>2, SameExpected
<1>10. bytes' # 0 /\ MemScenarios[at'] # "mem-copy"
  <2>1. bytes # 0
    BY <1>2
  <2>2. QED
    BY <1>1, <2>1
<1>11. AnswerInv' /\ CopyVerdictTrue'
  BY <1>1, <1>9, <1>10 DEF AnswerInv, Answered, CopyVerdictTrue
<1>12. QED
  BY <1>7, <1>8, <1>11

LEMMA CopyStep ==
    ASSUME MemInv, Copy
    PROVE  MemInv'
<1> USE DEF MemInv
<1> DEFINE new == Overwritten(dst, src)
<1>1. /\ pc = "call" /\ pc' = "called" /\ fault' = EOk
      /\ MemScenarios[at] = "mem-copy" /\ bytes > 0
      /\ checksum' = <<Lanes(src, bytes, repeats),
                       ChecksumBytes(new, Vectors(bytes) * VecBytes)>>
      /\ arrived' \in BOOLEAN
      /\ dst' = IF arrived' THEN new ELSE dst
      /\ copies' = copies + 1
      /\ UNCHANGED <<bytes, at, src, repeats>>
  BY DEF Copy, Calls, CanRun, Back
<1>2. /\ bytes \in Sizes \ {0} /\ bytes \in Nat /\ DOMAIN dst = 0..(bytes - 1)
      /\ src = Pattern(bytes) /\ copies \in Nat /\ bytes # 0
  BY <1>1, WholeBuffer DEF MemTypeInv
<1>3. new = src
  <2>1. new = [i \in 0..(bytes - 1) |-> src[i]]
    BY <1>2, WholeOverwritten
  <2>2. QED
    BY <1>2, <2>1, PatternBytes
<1> HIDE DEF new
<1>4. src \in [0..(bytes - 1) -> Int]
  BY <1>2, PatternBytes
<1>5. MemTypeInv'
  BY <1>1, <1>2, <1>3, <1>4 DEF MemTypeInv
<1>6. UniformInv'
  BY <1>1, <1>2 DEF UniformInv
<1>7. checksum' = Expected'
  <2>1. Expected = <<ExpectedLanes,
                     Every(Page, 0, Pattern(bytes), bytes)
                     + (((bytes - 1) * Mult + Offset) % Base)>>
    BY <1>1 DEF Expected
  <2>2. Lanes(src, bytes, repeats) = ExpectedLanes
    BY <1>2, LanesTrue
  <2>3. Vectors(bytes) * VecBytes = bytes
    BY <1>2, WholeBuffer DEF Touched
  <2>4. ChecksumBytes(new, bytes) = Every(Page, 0, Pattern(bytes), bytes)
                                    + (((bytes - 1) * Mult + Offset) % Base)
    BY <1>2, <1>3, CopySum
  <2>5. QED
    BY <1>1, <2>1, <2>2, <2>3, <2>4, SameExpected
<1>8. arrived' => dst' = src'
  BY <1>1, <1>3
<1>9. ~arrived' /\ copies' = 1 => \E i \in Indices' : src'[i] # dst'[i]
  <2>1. ASSUME ~arrived', copies' = 1 PROVE \E i \in Indices' : src'[i] # dst'[i]
    <3>1. copies = 0 /\ dst' = dst /\ src' = src
      BY <1>1, <1>2, <2>1
    <3>2. Indices' = Indices
      BY <1>1 DEF Indices
    <3>3. \E i \in Indices : src[i] # dst[i]
      BY <1>2, <3>1, UniformIsSeen
    <3>4. QED
      BY <3>1, <3>2, <3>3
  <2>2. QED
    BY <2>1
<1>10. AnswerInv' /\ CopyVerdictTrue'
  BY <1>1, <1>2, <1>7, <1>8, <1>9 DEF AnswerInv, Answered, CopyVerdictTrue
<1>11. QED
  BY <1>5, <1>6, <1>10

LEMMA VerifyStep ==
    ASSUME MemInv, Verify
    PROVE  MemInv'
<1> USE DEF MemInv
<1> DEFINE seen == \E i \in Indices : src[i] # dst[i]
<1>1. /\ pc = "called" /\ pc' = "round"
      /\ fault' = IF MemScenarios[at] = "mem-copy" /\ fault = EOk /\ seen
                  THEN EFailed ELSE fault
      /\ UNCHANGED <<bytes, at, src, dst, repeats, checksum, copies, arrived>>
  BY DEF Verify
<1>2. MemTypeInv' /\ UniformInv'
  BY <1>1 DEF MemTypeInv, UniformInv
<1>3. fault' # EBadParm => fault = EOk /\ Answered
  BY <1>1 DEF AnswerInv, Answered, EOk, EBadParm, EFailed
<1>4. Expected' = Expected /\ Indices' = Indices
  BY <1>1, SameExpected DEF Indices
<1>5. Answered' => bytes' # 0 /\ checksum' = Expected'
  BY <1>1, <1>3, <1>4 DEF AnswerInv, Answered
<1>6. Answered /\ MemScenarios[at] = "mem-copy" =>
         /\ arrived => dst = src
         /\ ~arrived /\ copies = 1 => seen
  BY DEF AnswerInv
<1>7. seen' <=> seen
  BY <1>1, <1>4
<1> HIDE DEF seen
<1>8. Answered' /\ MemScenarios[at'] = "mem-copy" =>
         /\ arrived' => dst' = src'
         /\ ~arrived' /\ copies' = 1 => seen'
  BY <1>1, <1>3, <1>6, <1>7 DEF Answered
<1>9. AnswerInv'
  BY <1>1, <1>5, <1>8 DEF AnswerInv, seen
<1>10. CopyVerdictTrue'
  <2>1. ASSUME MemScenarios[at] = "mem-copy", fault' # EBadParm,
               arrived \/ copies = 1
        PROVE  fault' = EFailed <=> ~arrived
    <3>1. fault = EOk /\ Answered
      BY <1>3, <2>1
    <3>2. fault' = EFailed <=> seen
      BY <1>1, <2>1, <3>1 DEF EOk, EFailed
    <3>3. arrived => ~seen
      BY <1>6, <2>1, <3>1 DEF seen
    <3>4. ~arrived => seen
      BY <1>6, <2>1, <3>1
    <3>5. QED
      BY <3>2, <3>3, <3>4
  <2>2. QED
    BY <1>1, <2>1 DEF CopyVerdictTrue
<1>11. QED
  BY <1>2, <1>9, <1>10

\* MemInv is kept by every step.
THEOREM MemNextInv == MemInv /\ [MemNext]_memVars => MemInv'
<1> SUFFICES ASSUME MemInv, [MemNext]_memVars PROVE MemInv'
  OBVIOUS
<1>1. CASE UNCHANGED memVars
  <2>1. UNCHANGED <<bytes, pc, at, src, dst, repeats, fault, checksum, copies,
                    arrived>>
    BY <1>1 DEF memVars
  <2>2. Expected' = Expected /\ Indices' = Indices
    BY <2>1, SameExpected DEF Indices
  <2>3. QED
    BY <2>1, <2>2 DEF MemInv, MemTypeInv, UniformInv, AnswerInv, Answered,
                      CopyVerdictTrue
<1>2. CASE MemNext
  BY <1>2, LoopSteps, RefusedStep, ReadStep, WriteStep, CopyStep, VerifyStep
     DEF MemNext
<1>3. QED
  BY <1>1, <1>2

\* Every reachable state of the memory scenarios satisfies it.
THEOREM MemInvariance == MemSpec => []MemInv
BY MemInitInv, MemNextInv, PTL DEF MemSpec

\* The checksum of a memory row is a function of its scenario, length and
\* repeats, for every buffer of whole vectors and every number of rounds.
THEOREM MemRowsComparable == MemSpec => []ChecksumOfRow
<1>1. MemInv => ChecksumOfRow
  BY DEF MemInv, AnswerInv, ChecksumOfRow
<1>2. QED
  BY <1>1, MemInvariance, PTL

\* verify_copy passes a copy that arrived, and sees that the first one did not,
\* for every length of whole vectors.
THEOREM CopyVerified == MemSpec => []CopyVerdictTrue
<1>1. MemInv => CopyVerdictTrue
  BY DEF MemInv
<1>2. QED
  BY <1>1, MemInvariance, PTL
=============================================================================
