----------------------------- MODULE HvxKernels -----------------------------
(***************************************************************************)
(* The tables and kernels of the HVX compute benchmarks: compute_scenarios *)
(* of src/host/cdsp_peak.c and, behind cdsp_peak_bench_compute, the six    *)
(* kernels of src/dsp/cdsp_peak_imp.c with their eight accumulators.       *)
(*                                                                         *)
(* Every vector of the kernels is a splat and every instruction works lane *)
(* by lane, so one lane stands for the vector.  The int8 kernels compute   *)
(* with integers modulo WordMod (2^32).  What the floating-point kernels   *)
(* compute is left out: an accumulator of theirs is the number of times    *)
(* its term went in.                                                       *)
(***************************************************************************)
EXTENDS Integers, Sequences, FiniteSets, Functions
LOCAL INSTANCE FiniteSetsExt

CONSTANT WordMod     \* 2^32 in the code
ASSUME WordAssumption == WordMod \in Nat \ {0, 1}

Slots == 0..7       \* the eight accumulators
VectorBytes == 128  \* sizeof(HVX_Vector)

-----------------------------------------------------------------------------
(* The host's side.                                                        *)

\* KERNEL_* of the host.
\* Mutant: the ids the skel had before the qfloat kernels.
HostKernelOld == [fp32 |-> 0, fp16 |-> 1, int8_fixed |-> 4,
                  int8_add_fixed |-> 5, qf16 |-> 2, qf32 |-> 3]
HostKernel == [fp32 |-> 0, fp16 |-> 1, int8_fixed |-> 2,
               int8_add_fixed |-> 3, qf16 |-> 4, qf32 |-> 5]

Row(kernel, ops) == [kernel |-> kernel, ops |-> ops]

\* compute_scenarios: the kernel and ops_per_iter of each scenario.
ComputeRows ==
    [s \in {"fp32-vmuladd", "fp16-vmpyacc", "qf16-vmpyadd", "qf32-vmpyadd",
            "int8-vrmpyacc", "int8-vrmpy-add"} |->
        CASE s = "fp32-vmuladd"   -> Row("fp32", 8 * 32 * 2)
          [] s = "fp16-vmpyacc"   -> Row("fp16", 8 * 64 * 2)
          [] s = "qf16-vmpyadd"   -> Row("qf16", 8 * 64 * 2)
          [] s = "qf32-vmpyadd"   -> Row("qf32", 8 * 32 * 2)
          [] s = "int8-vrmpyacc"  -> Row("int8_fixed", 8 * 32 * 4 * 2)
          [] s = "int8-vrmpy-add" -> Row("int8_add_fixed", 8 * 32 * 4 * 2)]
Scenarios == DOMAIN ComputeRows
Int8Scenarios == {"int8-vrmpyacc", "int8-vrmpy-add"}

-----------------------------------------------------------------------------
(* The skel's side.                                                        *)

\* The switch of cdsp_peak_bench_compute over CDSP_PEAK_KERNEL_*.
SkelKernels == << "fp32", "fp16", "int8_fixed", "int8_add_fixed", "qf16",
                  "qf32" >>
Dispatch(id) == SkelKernels[id + 1]
Known(id) == id \in 0..(Len(SkelKernels) - 1)
Int8Kernels == {"int8_fixed", "int8_add_fixed"}

\* What a multiply instruction of the kernel does in one vector: elements of
\* so many bytes, each from so many products.
ElementBytes(kernel) == IF kernel \in {"fp16", "qf16"} THEN 2 ELSE 4
Products(kernel) == IF kernel \in Int8Kernels THEN 4 ELSE 1

\* The four bytes of a_k and of b_k, and their dot product.
AByte(k, j) == 4 * k + j
BByte(k) == k + 1
Dot(k) == (AByte(k, 1) + AByte(k, 2) + AByte(k, 3) + AByte(k, 4)) * BByte(k)

\* Accumulator k after one more iteration: vrmpyacc adds to the accumulator,
\* vrmpy-add adds a product of its own.
\* Mutant: the last product is added to the wrong accumulator.
FoldShifted(kernel, acc, k) ==
    CASE kernel = "int8_fixed"     -> (acc[k] + Dot(k)) % WordMod
      [] kernel = "int8_add_fixed" ->
            (acc[k] + (Dot(IF k = 7 THEN 6 ELSE k) % WordMod)) % WordMod
      [] OTHER                     -> acc[k] + 1
Fold(kernel, acc, k) ==
    CASE kernel = "int8_fixed"     -> (acc[k] + Dot(k)) % WordMod
      [] kernel = "int8_add_fixed" -> (acc[k] + (Dot(k) % WordMod)) % WordMod
      [] OTHER                     -> acc[k] + 1

\* checksum_accumulators: the word sum of all eight, and the hashes of five
\* vectors, which stay apart here.
ChecksumAccumulators(acc) ==
    <<MapThenSumSet(LAMBDA k : acc[k], Slots) % WordMod,
      acc[0], acc[3], acc[5], acc[7]>>

\* The loop of a kernel: the accumulators after n iterations, and the
\* multiplications and additions its instructions have performed by then.
Accumulated(kernel, n) ==
    LET acc[i \in 0..n] ==
            IF i = 0 THEN [k \in Slots |-> 0]
            ELSE [k \in Slots |-> Fold(kernel, acc[i - 1], k)]
    IN  acc[n]
Performed(kernel, n) ==
    n * 2 * Cardinality(Slots) * Products(kernel)
      * (VectorBytes \div ElementBytes(kernel))
=============================================================================
