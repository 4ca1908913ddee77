--------------------------- MODULE CalibrateProofs ---------------------------
(***************************************************************************)
(* Proofs about Calibrate for every scenario table, every --iterations and *)
(* --min-ms and all elapsed times: the invariant IInv is inductive, and    *)
(* the safety properties of the run follow from it.                        *)
(***************************************************************************)
EXTENDS Calibrate, WellFoundedInduction, TLAPS

\* The distance of a start value from the limit of int: the largest start value
\* is the one with the smallest distance.
Room(n) == IntMax - n

LEMMA Limits ==
    /\ IntMax \in Nat \ {0}
    /\ Huge \in Nat
BY SMT DEF IntMax, Huge

\* A non-empty set of table entries has a largest start value.
LEMMA LargestExists ==
    ASSUME NEW S, S \subseteq 1..M, S # {}
    PROVE  LargestStart(S) \in 1..IntMax
<1> DEFINE starts == {Starts[i] : i \in S}
           rooms == {Room(n) : n \in starts}
<1> USE Limits
<1>1. starts \subseteq 1..IntMax /\ starts # {}
  BY TableAssumption
<1>2. rooms \subseteq Nat /\ rooms # {}
  BY <1>1 DEF Room
<1>3. \E r \in rooms : \A q \in rooms : <<q, r>> \notin OpToRel(<, Nat)
  <2> HIDE DEF rooms
  <2> QED BY <1>2, NatLessThanWellFounded, WFMin
<1>4. PICK r \in rooms : \A q \in rooms : ~(q < r)
  BY <1>2, <1>3 DEF OpToRel
<1>5. PICK n \in starts : r = Room(n)
  OBVIOUS
<1>6. \A s \in starts : s <= n
  <2> SUFFICES ASSUME NEW s \in starts PROVE s <= n
    OBVIOUS
  <2>1. ~(Room(s) < Room(n))
    BY <1>4, <1>5
  <2>2. s \in Int /\ n \in Int
    BY <1>1
  <2> QED BY <2>1, <2>2 DEF Room
<1>7. LargestStart(S) \in starts
  <2> HIDE DEF starts
  <2> QED BY <1>6 DEF LargestStart, starts
<1>8. QED
  BY <1>1, <1>7

\* What StartOf gives to every loop is a positive int.
LEMMA StartIsInt ==
    ASSUME NEW k, NEW S, S \subseteq 1..M, S # {}, NEW g \in 0..IntMax
    PROVE  StartOf(k, S, g) \in 1..IntMax
<1>1. LargestStart(S) \in 1..IntMax
  BY LargestExists
<1>2. 1 \in 1..IntMax
  BY Limits
<1>3. QED
  BY <1>1, <1>2, Limits DEF StartOf

LEMMA HalfFits ==
    ASSUME NEW n \in Nat, n <= 1073741823
    PROVE  n <= IntMax - n
BY SMT DEF IntMax

\* Below the cap of its loop, a count can be doubled in an int.
LEMMA CapHolds ==
    ASSUME NEW k \in KnownKinds, NEW n \in 1..IntMax, ~AtCap(k, n)
    PROVE  n <= IntMax - n /\ NextCount(n) \in 1..IntMax
<1>1. n <= MaxRepeats \/ n <= MaxComputeIterations
  <2>1. MaxRepeats \in Nat /\ MaxComputeIterations \in Nat
    BY SMT DEF MaxRepeats, MaxComputeIterations
  <2>2. n \in Nat
    BY Limits
  <2> QED BY <2>1, <2>2, SMT DEF AtCap, KnownKinds
<1>2. n \in Nat \ {0}
  BY Limits
<1>3. n <= 1073741823
  BY <1>1, <1>2, SMT DEF MaxRepeats, MaxComputeIterations
<1>4. n <= IntMax - n
  BY <1>2, <1>3, HalfFits
<1>5. NextCount(n) = n + n
  BY <1>2, SMT DEF NextCount
<1>6. QED
  <2> HIDE DEF NextCount
  <2> QED BY <1>2, <1>4, <1>5, Limits

\* The initial states satisfy the inductive invariant.
THEOREM InitInv == Init => IInv
<1> SUFFICES ASSUME Init PROVE IInv
  OBVIOUS
<1> USE Limits, TableAssumption, KindsAssumption, IterationsAssumption
    DEF Init
<1>1. TypeOK
  <2>1. iters \in 1..IntMax
    BY StartIsInt
  <2>2. Starts = Starts /\ enabled \in SUBSET (1..M) /\ next \in 1..(M + 1)
    OBVIOUS
  <2>3. results \in [1..M -> Result] /\ least \in 0..Huge
    BY DEF Result, NoResult
  <2> QED BY <2>1, <2>2, <2>3 DEF TypeOK
<1>2. RoundSoFar
  BY DEF RoundSoFar
<1>3. CountKept
  BY DEF CountKept, StartOf
<1>4. Printed
  BY DEF Printed
<1>5. QED
  BY <1>1, <1>2, <1>3, <1>4 DEF IInv

\* IInv is kept by Skip: an entry that is not measured.
LEMMA SkipStep ==
    ASSUME IInv, Skip PROVE IInv'
<1> USE Limits, TableAssumption, KindsAssumption, TimesAssumption,
    ErrsAssumption
    DEF IInv, Skip
<1>1. TypeOK'
  BY DEF TypeOK
<1>2. RoundSoFar'
  BY DEF RoundSoFar, TypeOK
<1>3. CountKept'
  BY DEF CountKept
<1>4. Printed'
  BY DEF Printed
<1>5. QED
  BY <1>1, <1>2, <1>3, <1>4

\* IInv is kept by MeasureOk: a measurement of this round.
LEMMA MeasureOkStep ==
    ASSUME IInv, MeasureOk PROVE IInv'
<1> USE Limits, TableAssumption, KindsAssumption, TimesAssumption,
    ErrsAssumption
    DEF IInv, MeasureOk
<1>1. TypeOK'
  <2>1. PICK t \in ElapsedTimes :
            /\ results' = [results EXCEPT ![next] =
                              [iters |-> iters, elapsed |-> t]]
            /\ least' = SmallerElapsed(least, t)
    OBVIOUS
  <2>2. next \in 1..M /\ next + 1 \in 1..(M + 1)
    BY DEF TypeOK
  <2>3. t \in 0..Huge
    BY <2>1
  <2>4. results' \in [1..M -> Result]
    <3>1. [iters |-> iters, elapsed |-> t] \in Result
      BY <2>3 DEF TypeOK, Result
    <3>2. results \in [1..M -> Result]
      BY DEF TypeOK
    <3> QED BY <2>1, <3>1, <3>2
  <2>5. least' \in 0..Huge
    BY <2>1, <2>3 DEF TypeOK, SmallerElapsed
  <2> QED BY <2>2, <2>4, <2>5 DEF TypeOK
<1>2. RoundSoFar'
  <2>1. PICK t \in ElapsedTimes :
            /\ results' = [results EXCEPT ![next] =
                              [iters |-> iters, elapsed |-> t]]
            /\ least' = SmallerElapsed(least, t)
    OBVIOUS
  <2>2. t \in Int /\ least \in Int /\ least' <= least /\ least' <= t
    BY <2>1 DEF TypeOK, SmallerElapsed
  <2>3. err' = 0 /\ rows' = [i \in {} |-> NoResult]
    BY DEF RoundSoFar
  <2>4. SUFFICES ASSUME NEW i \in enabled, i < next + 1
                 PROVE  results'[i].iters = iters /\ least' <= results'[i].elapsed
    BY <2>3 DEF RoundSoFar
  <2>5. CASE i = next
    BY <2>1, <2>2, <2>5 DEF TypeOK
  <2>6. CASE i # next
    <3>1. results'[i] = results[i]
      BY <2>1, <2>6
    <3>2. i < next /\ results[i].elapsed \in Int /\ least' \in Int
      BY <2>1, <2>2, <2>4, <2>6 DEF TypeOK, Result, SmallerElapsed
    <3> QED BY <3>1, <3>2, <2>2 DEF RoundSoFar
  <2> QED BY <2>5, <2>6
<1>3. CountKept'
  BY DEF CountKept
<1>4. Printed'
  BY DEF Printed
<1>5. QED
  BY <1>1, <1>2, <1>3, <1>4

\* IInv is kept by MeasureFails: the error ends the loop.
LEMMA MeasureFailsStep ==
    ASSUME IInv, MeasureFails PROVE IInv'
<1> USE Limits, TableAssumption, KindsAssumption, TimesAssumption,
    ErrsAssumption
    DEF IInv, MeasureFails
<1>1. TypeOK'
  BY DEF TypeOK, AfterFailure
<1>2. RoundSoFar'
  BY DEF RoundSoFar, AfterFailure
<1>3. CountKept'
  BY DEF CountKept, AfterFailure
<1>4. Printed'
  <2>1. err' # 0 /\ rows' = [i \in {} |-> NoResult]
    BY DEF RoundSoFar
  <2> QED BY <2>1 DEF Printed
<1>5. QED
  BY <1>1, <1>2, <1>3, <1>4

\* IInv is kept by Decide: the exit condition of the round.
LEMMA DecideStep ==
    ASSUME IInv, Decide PROVE IInv'
<1> USE Limits, TableAssumption, KindsAssumption, TimesAssumption,
    ErrsAssumption
    DEF IInv, Decide
<1>1. TypeOK'
  BY DEF TypeOK
<1>2. RoundSoFar'
  BY DEF RoundSoFar
<1>3. CountKept'
  BY DEF CountKept, Enough, RoundOver, Single
<1>4. Printed'
  BY DEF Printed
<1>5. QED
  BY <1>1, <1>2, <1>3, <1>4

\* IInv is kept by Double: the count can be doubled, for it is below the cap.
LEMMA DoubleStep ==
    ASSUME IInv, Double PROVE IInv'
<1> USE Limits, TableAssumption, KindsAssumption, TimesAssumption,
    ErrsAssumption
    DEF IInv, Double
<1>1. TypeOK'
  <2>1. ~AtCap(kind, iters)
    BY DEF CountKept, Enough, RoundOver
  <2>2. NextCount(iters) \in 1..IntMax
    BY <2>1, CapHolds DEF TypeOK
  <2> QED BY <2>2 DEF TypeOK
<1>2. RoundSoFar'
  BY DEF RoundSoFar, TypeOK
<1>3. CountKept'
  BY DEF CountKept, Enough, Single
<1>4. Printed'
  BY DEF Printed
<1>5. QED
  BY <1>1, <1>2, <1>3, <1>4

\* IInv is kept by PrintRows: the rows of the accepted round.
LEMMA PrintRowsStep ==
    ASSUME IInv, PrintRows PROVE IInv'
<1> USE Limits, TableAssumption, KindsAssumption, TimesAssumption,
    ErrsAssumption
    DEF IInv, PrintRows
<1>1. TypeOK'
  BY DEF TypeOK
<1>2. RoundSoFar'
  BY DEF RoundSoFar
<1>3. CountKept'
  BY DEF CountKept
<1>4. Printed'
  <2>1. err' = 0 /\ Enough'
    BY DEF RoundSoFar, CountKept, Enough, RoundOver, Single
  <2>2. \A i \in enabled : i < next
    BY DEF CountKept, Enough, RoundOver, TypeOK
  <2> QED BY <2>1, <2>2 DEF RoundSoFar, Printed
<1>5. QED
  BY <1>1, <1>2, <1>3, <1>4


\* Every step of the loop keeps the inductive invariant.
THEOREM StepInv == IInv /\ [Step]_vars => IInv'
<1> SUFFICES ASSUME IInv, [Step]_vars PROVE IInv'
  OBVIOUS
<1>1. CASE Skip
  BY <1>1, SkipStep
<1>2. CASE MeasureOk
  BY <1>2, MeasureOkStep
<1>3. CASE MeasureFails
  BY <1>3, MeasureFailsStep
<1>4. CASE Decide
  BY <1>4, DecideStep
<1>5. CASE Double
  BY <1>5, DoubleStep
<1>6. CASE PrintRows
  BY <1>6, PrintRowsStep
<1>7. CASE UNCHANGED vars
  BY <1>7 DEF vars, IInv, TypeOK, RoundSoFar, CountKept, Printed, Enough,
              RoundOver, Single
<1>8. QED
  BY <1>1, <1>2, <1>3, <1>4, <1>5, <1>6, <1>7 DEF Step

\* The inductive invariant holds in every reachable state of the loops.
THEOREM Invariance == Spec => []IInv
BY InitInv, StepInv, PTL DEF Spec

\* Every variable of Calibrate keeps its type, whatever the table holds.
THEOREM TypeCorrect == Spec => []TypeOK
<1>1. IInv => TypeOK
  BY DEF IInv
<1>2. QED
  BY <1>1, Invariance, PTL

\* `iterations *= 2` never leaves the range of an int (cdsp_peak.c:956 and the
\* four other loops), for every start value a table can hold.
THEOREM CountNeverOverflows == Spec => []NoOverflow
<1>1. IInv => NoOverflow
  <2> SUFFICES ASSUME IInv, pc = "double" PROVE iters <= IntMax - iters
    BY DEF NoOverflow
  <2>1. ~AtCap(kind, iters)
    BY DEF IInv, CountKept, Enough, RoundOver
  <2> QED BY <2>1, CapHolds, KindsAssumption DEF IInv, TypeOK
<1>2. QED
  BY <1>1, Invariance, PTL

\* All rows of a call show one round and one iteration count.
THEOREM OneRound == Spec => []RowsOfOneRound
<1>1. IInv => RowsOfOneRound
  BY DEF IInv, Printed, CountKept, RowsOfOneRound
<1>2. QED
  BY <1>1, Invariance, PTL

\* No row is of a measurement shorter than min_ms, but for given counts, for
\* the probes and at the cap.
THEOREM LongEnough == Spec => []RowsLongEnough
<1>1. IInv => RowsLongEnough
  <2> SUFFICES ASSUME IInv, pc = "returned", ~Single, ~AtCap(kind, iters),
                      NEW i \in DOMAIN rows
               PROVE  rows[i].elapsed >= MinMs
    BY DEF RowsLongEnough
  <2>1. err = 0 /\ i \in enabled /\ rows[i] = results[i]
    BY DEF IInv, Printed
  <2>2. least >= MinMs /\ least <= results[i].elapsed
    BY <2>1 DEF IInv, Printed, Enough
  <2>3. least \in Int /\ MinMs \in Int /\ results[i].elapsed \in Int
    <3>1. enabled \subseteq 1..M /\ least \in 0..Huge
          /\ results \in [1..M -> Result]
      BY DEF IInv, TypeOK
    <3>2. results[i] \in Result
      BY <2>1, <3>1
    <3>3. results[i].elapsed \in 0..Huge
      BY <3>2 DEF Result
    <3> QED BY <3>1, <3>3, Limits, TimesAssumption
  <2> QED BY <2>1, <2>2, <2>3
<1>2. QED
  BY <1>1, Invariance, PTL
==============================================================================
