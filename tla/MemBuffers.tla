----------------------------- MODULE MemBuffers -----------------------------
(***************************************************************************)
(* The contents of one worker's source and destination buffers over a run  *)
(* of the memory scenarios: filled by main (src/host/cdsp_peak.c,          *)
(* 1404-1405), then read, written and copied by the benchmarks of          *)
(* src/dsp/cdsp_peak_imp.c for round after round of run_mem, with          *)
(* verify_copy after each copy.  FastRPC carries the destination back to   *)
(* the host; that is external and may go wrong silently.                   *)
(*                                                                         *)
(* Sizes are scaled: a word has WordBytes bytes of base Base (4 of 256 in  *)
(* the code) and a vector VecWords words (32).                             *)
(***************************************************************************)
EXTENDS Integers, Sequences, Functions, AEEStdErr

CONSTANTS
    Sizes,       \* lengths of the buffers, in bytes; multiples of the vector
    Base, WordBytes, VecWords,
    Probes,      \* 4096, the most bytes verify_copy looks at
    Page,        \* 4096, the step of checksum_bytes
    Stride,      \* 2654435761
    Mult, Offset,\* 131 and 17 of fill_source
    Digit,       \* 0x5a, each byte of the first word written
    Transports,  \* what FastRPC does with the destination: delivered, lost
    MaxRepeats   \* bound of the model on the doubling

VecBytes == WordBytes * VecWords
ASSUME ScaleAssumption ==
    /\ {Base, WordBytes, VecWords, Probes, Page, Stride, MaxRepeats}
          \subseteq Nat \ {0}
    /\ {Mult, Offset, Digit} \subseteq Nat /\ Page % WordBytes = 0
    /\ Sizes \subseteq {n \in Nat : n % VecBytes = 0}
    /\ Transports \subseteq {"delivered", "lost"}

MemScenarios == << "mem-read", "mem-write", "mem-copy" >>

VARIABLES
    bytes,     \* the length of both buffers
    wanted,    \* the scenarios --scenario enables
    pc, at,    \* the loop of main over mem_scenarios
    src, dst,  \* the buffers as the host sees them
    repeats,   \* repeats of the current round
    fault,     \* arg->err
    checksum,  \* arg->checksum of the last call
    \* not in the code
    copies,    \* copying calls made so far
    arrived    \* the last destination came back from the DSP
memVars == <<bytes, wanted, pc, at, src, dst, repeats, fault, checksum,
             copies, arrived>>

-----------------------------------------------------------------------------
(* The bytes.                                                              *)

\* The sum of the first n values of f, and Base to the n.
SumTo(f, n) ==
    LET sum[k \in 0..n] == IF k = 0 THEN 0 ELSE sum[k - 1] + f[k - 1]
    IN  sum[n]
Pow(n) ==
    LET pow[k \in 0..n] == IF k = 0 THEN 1 ELSE Base * pow[k - 1]
    IN  pow[n]
WordValues == Pow(WordBytes)

\* fill_source.
Pattern(n) == [i \in 0..(n - 1) |-> (i * Mult + Offset) % Base]

\* Mutant: main fills both buffers alike.
SameAsSource(n) == Pattern(n)
Cleared(n) == [i \in 0..(n - 1) |-> 0]

\* The indices verify_copy compares.  In words of one value it would see that
\* they are not the pattern: as indices 0 and 4 * 2654435761 tell for every
\* length of whole vectors, with 4096 probes.
Probed(n) == {(i * Stride) % n : i \in 0..((IF n < Probes THEN n ELSE Probes) - 1)}
ASSUME ProbeAssumption ==
    \A n \in Sizes \ {0} : \E i, j \in Probed(n) :
        i % WordBytes = j % WordBytes /\ Pattern(n)[i] # Pattern(n)[j]

\* Byte i of a buffer in which every word holds `word`.
ByteOf(word, i) == (word \div Pow(i % WordBytes)) % Base

\* splat_u32(0x5a5a5a5a), and 0x01010101 more in each repeat, mod 2^32: the
\* carry runs from byte to byte.
Repunit == SumTo([k \in 0..(WordBytes - 1) |-> Pow(k)], WordBytes)
WordInRepeat(r) == (Digit * Repunit + (r - 1) * Repunit) % WordValues

WordAt(buffer, i) ==
    SumTo([k \in 0..(WordBytes - 1) |-> buffer[i * WordBytes + k] * Pow(k)],
          WordBytes)

\* `len / sizeof(HVX_Vector)` vectors.
Vectors(len) == len \div VecBytes
\* Mutant: the loop over the vectors stops one short.
AllButOne(len) == Vectors(len) - 1
Touched(len) == Vectors(len)

\* The vector sum of mem_read and mem_copy: every word lane by itself.
Lanes(buffer, len, times) ==
    [lane \in 0..(VecWords - 1) |->
        (times * SumTo([v \in 0..(Touched(len) - 1) |->
                           WordAt(buffer, v * VecWords + lane)],
                       Touched(len))) % WordValues]

\* checksum_bytes: one byte of every page, and the last.
ChecksumBytes(buffer, len) ==
    IF len <= 0 THEN 0
    ELSE LET pages == ((len - 1) \div Page) + 1
         IN  SumTo([p \in 0..(pages - 1) |-> buffer[p * Page]], pages)
             + buffer[len - 1]

-----------------------------------------------------------------------------
MemInit ==
    /\ bytes \in Sizes
    /\ wanted \in SUBSET Range(MemScenarios)
    /\ pc = "loop" /\ at = 1
    /\ src = Pattern(bytes)
    /\ dst = Cleared(bytes)
    /\ repeats = 1
    /\ fault = EOk
    /\ checksum = << >>
    /\ copies = 0 /\ arrived = TRUE

\* The loop of main: the next enabled scenario, or the end.
NextScenario ==
    /\ pc = "loop"
    /\ \/ /\ at > Len(MemScenarios)
          /\ pc' = "exit"
          /\ UNCHANGED <<at, repeats>>
       \/ /\ at <= Len(MemScenarios)
          /\ IF MemScenarios[at] \in wanted
             THEN pc' = "call" /\ repeats' = 1 /\ UNCHANGED at
             ELSE at' = at + 1 /\ UNCHANGED <<pc, repeats>>
    /\ UNCHANGED <<bytes, wanted, src, dst, fault, checksum, copies, arrived>>

Calls(scenario) == pc = "call" /\ MemScenarios[at] = scenario

CanRun == bytes > 0 /\ repeats > 0 /\ Vectors(bytes) > 0

\* A length the benchmark refuses.
Refused ==
    /\ pc = "call"
    /\ ~CanRun
    /\ fault' = EBadParm
    /\ pc' = "called"
    /\ UNCHANGED <<bytes, wanted, at, src, dst, repeats, checksum, copies,
                   arrived>>

\* cdsp_peak_bench_mem_read.
Read ==
    /\ Calls("mem-read") /\ CanRun
    /\ checksum' = <<Lanes(src, bytes, repeats)>>
    /\ fault' = EOk
    /\ pc' = "called"
    /\ UNCHANGED <<bytes, wanted, at, src, dst, repeats, copies, arrived>>

\* The first Touched(bytes) vectors of a buffer hold f, the rest what it held.
Overwritten(old, f) ==
    [i \in DOMAIN old |-> IF i < Touched(bytes) * VecBytes THEN f[i] ELSE old[i]]

\* The destination as the host finds it after the call.
Back(new, how) ==
    /\ dst' = IF how = "delivered" THEN new ELSE dst
    /\ arrived' = (how = "delivered")

\* cdsp_peak_bench_mem_write.
Write ==
    /\ Calls("mem-write") /\ CanRun
    /\ LET last == WordInRepeat(repeats)
           new  == Overwritten(dst, [i \in DOMAIN dst |-> ByteOf(last, i)])
       IN  /\ \E how \in Transports : Back(new, how)
           /\ checksum' = <<ChecksumBytes(new, bytes)>>
    /\ fault' = EOk
    /\ pc' = "called"
    /\ UNCHANGED <<bytes, wanted, at, src, repeats, copies>>

\* cdsp_peak_bench_mem_copy.
Copy ==
    /\ Calls("mem-copy") /\ CanRun
    /\ LET new == Overwritten(dst, src)
       IN  /\ \E how \in Transports : Back(new, how)
           /\ checksum' = <<Lanes(src, bytes, repeats),
                            ChecksumBytes(new, Vectors(bytes) * VecBytes)>>
    /\ fault' = EOk
    /\ copies' = copies + 1
    /\ pc' = "called"
    /\ UNCHANGED <<bytes, wanted, at, src, repeats>>

Indices == Probed(bytes)

\* mem_thread_main after the call: a copy without an error is verified, and a
\* difference is AEE_EFAILED.
Verify ==
    /\ pc = "called"
    /\ fault' = IF /\ MemScenarios[at] = "mem-copy" /\ fault = EOk
                   /\ \E i \in Indices : src[i] # dst[i]
                THEN EFailed ELSE fault
    /\ pc' = "round"
    /\ UNCHANGED <<bytes, wanted, at, src, dst, repeats, checksum, copies,
                   arrived>>

\* run_mem: an error ends the run, a round long enough its scenario; otherwise
\* twice the repeats.
RoundEnds ==
    /\ pc = "round"
    /\ \/ fault # EOk /\ pc' = "exit" /\ UNCHANGED <<at, repeats>>
       \/ fault = EOk /\ pc' = "loop" /\ at' = at + 1 /\ UNCHANGED repeats
       \/ /\ fault = EOk /\ 2 * repeats <= MaxRepeats
          /\ pc' = "call" /\ repeats' = 2 * repeats
          /\ UNCHANGED at
    /\ UNCHANGED <<bytes, wanted, src, dst, fault, checksum, copies, arrived>>

MemNext == NextScenario \/ Refused \/ Read \/ Write \/ Copy \/ Verify \/ RoundEnds

MemSpec == MemInit /\ [][MemNext]_memVars

-----------------------------------------------------------------------------
Answered == pc \in {"called", "round"} /\ fault # EBadParm

\* The checksums a reader expects, from the scenario, the length and the
\* repeats alone: lane sums over the words of the pattern, one byte of each
\* page and the last byte of what is written.
Every(step, from, f, n) ==
    SumTo([i \in 0..(n - 1) |-> IF i % step = from THEN f[i] ELSE 0], n)
ExpectedLanes ==
    LET words == bytes \div WordBytes
    IN  [lane \in 0..(VecWords - 1) |->
            (repeats * Every(VecWords, lane,
                             [w \in 0..(words - 1) |-> WordAt(Pattern(bytes), w)],
                             words)) % WordValues]
WrittenWord == (Repunit * (Digit + repeats - 1)) % WordValues
Expected ==
    CASE MemScenarios[at] = "mem-read"  -> <<ExpectedLanes>>
      [] MemScenarios[at] = "mem-write" ->
            <<Every(Page, 0, [i \in 0..(bytes - 1) |-> WrittenWord % Base], bytes)
              + (WrittenWord \div Pow(WordBytes - 1))>>
      [] MemScenarios[at] = "mem-copy"  ->
            <<ExpectedLanes,
              Every(Page, 0, Pattern(bytes), bytes)
              + (((bytes - 1) * Mult + Offset) % Base)>>

\* The checksum of a memory row is a function of the scenario, the buffer
\* length and the repeats: it depends neither on the scenarios that ran before
\* on the same two buffers nor on the rounds before it, so rows of two runs
\* can be compared (the benchmarks overwrite every byte the checksum reads).
ChecksumOfRow == Answered => checksum = Expected

\* The verdict of verify_copy: a copy whose destination came back passes,
\* whatever an earlier mem-write or a lost copy left in the buffer, and the
\* first copy whose destination was lost ends the run, because the bytes main
\* and mem-write leave there are not the pattern of the source.  (From the
\* second copy on the destination holds the pattern already, and a lost one is
\* not noticed; cdsp_peak.c:1042, 1082.)
CopyVerdictTrue ==
    /\ pc = "round" /\ MemScenarios[at] = "mem-copy" /\ fault # EBadParm
    /\ arrived \/ copies = 1
    => (fault = EFailed <=> ~arrived)

-----------------------------------------------------------------------------
(* The inductive invariant behind them.                                    *)

MemTypeInv ==
    /\ bytes \in Sizes /\ repeats \in Nat \ {0}
    /\ pc \in {"loop", "call", "called", "round", "exit"} /\ at \in Nat \ {0}
    /\ pc \in {"call", "called", "round"} => at \in 1..3
    /\ src = Pattern(bytes) /\ dst \in [0..(bytes - 1) -> Int]
    /\ copies \in Nat /\ arrived \in BOOLEAN

\* Until something is copied there, the destination holds words of one value.
UniformInv ==
    copies = 0 => \A i, j \in 0..(bytes - 1) :
                     i % WordBytes = j % WordBytes => dst[i] = dst[j]

\* What a call that was not refused has left.
AnswerInv ==
    /\ pc = "called" => fault \in {EOk, EBadParm}
    /\ Answered => bytes # 0 /\ checksum = Expected
    /\ Answered /\ MemScenarios[at] = "mem-copy" =>
          /\ arrived => dst = src
          /\ ~arrived /\ copies = 1 => \E i \in Indices : src[i] # dst[i]
MemInv == MemTypeInv /\ UniformInv /\ AnswerInv /\ CopyVerdictTrue
=============================================================================
