----------------------------- MODULE HmxModes ------------------------------
(***************************************************************************)
(* The tables of src/dsp/cdsp_peak_hmx.c: what each mode of                *)
(* cdsp_peak_bench_hmx_int8 stages in VTCM, how the staging area is laid   *)
(* out, and which bytes the mode's tile function reads and writes.  Sizes  *)
(* are bytes, addresses natural numbers.                                   *)
(***************************************************************************)
EXTENDS Integers, FiniteSets

U8  == 1024      \* HMX_TILE_U8_BYTES
U16 == 2048      \* HMX_TILE_U16_BYTES
U16x2x2 == 8192  \* HMX_TILE_U16_2X2_BYTES
DeepTiles == 32  \* HMX_DEEP_TILES
BiasBytes == 256 \* HMX_BIAS_BYTES
Page == 4096     \* what vtcm_size is rounded up to
Slack == 128     \* what required_vtcm adds for the alignment of the base

ProbeModes == {"PROBE_RESOURCE", "PROBE_CACHED", "PROBE_LOCK"}
FullModes  == {"UB_FULL_X16", "UB_FULL_X32", "UB_FULL_X64",
               "UB_WDEEP_FULL_X64", "INT4_WN2X_FULL_X64"}
UbModes    == {"UB", "CM_UB", "UB_X16", "UB_ADEEP32"}
UhModes    == {"UH", "UH_X16"}
TileModes  == FullModes \cup UbModes \cup UhModes
              \cup {"UH2X2_FULL_X64", "FP16_HF_X64"}
Modes == TileModes \cup ProbeModes
NoMode == "NO_MODE"        \* any number that names none of them

\* written_len: bytes of output the mode produces (and demands room for).
WrittenLen(m) ==
    CASE m \in ProbeModes -> 16
      [] m \in UbModes -> U8
      [] m = "UH2X2_FULL_X64" -> U16x2x2
      [] OTHER -> U16

\* activation_vtcm_len and weight_vtcm_len: bytes staged, and demanded of the
\* caller.
ActivationLen(m) == CASE m = "UB_ADEEP32" -> DeepTiles * U8
                      [] m = "FP16_HF_X64" -> U16
                      [] OTHER -> U8
WeightLen(m) == CASE m = "UB_ADEEP32" -> DeepTiles * U8
                  [] m \in {"UB_WDEEP_FULL_X64", "FP16_HF_X64"} -> U16
                  [] OTHER -> U8

\* Mutant: the cached probe does not clear use_lock.
UseLockButResource(m) == m # "PROBE_RESOURCE"

UseCached(m) == m # "PROBE_RESOURCE"
UseLock(m) == m \notin {"PROBE_RESOURCE", "PROBE_CACHED"}

\* Mutant: the bias block and the alignment are forgotten in the sum.
RequiredWithoutBias(m) ==
    ActivationLen(m) + WeightLen(m) + U8 + WrittenLen(m)

\* required_vtcm.
Required(m) ==
    ActivationLen(m) + WeightLen(m) + U8 + BiasBytes + WrittenLen(m) + Slack

RoundUp(n, k) == ((n + k - 1) \div k) * k

\* vtcm_size asked of the resource manager; align_up_uintptr of the base.
Asked(m) == RoundUp(Required(m), Page)
AlignedBase(base) == RoundUp(base, 128)

\* The architecture (__HMX_ARCH__) below which the tile of mode m is compiled
\* to `return AEE_EUNSUPPORTED`.
MinArch(m) == CASE m = "UH2X2_FULL_X64" -> 69
                [] m = "INT4_WN2X_FULL_X64" -> 73
                [] OTHER -> 0

Region(lo, len) == [lo |-> lo, hi |-> lo + len]

\* The staging area: vtcm_activation, vtcm_weight, vtcm_weight2, vtcm_bias and
\* vtcm_output, one after the other from the aligned base.
Layout(m, base) ==
    LET act  == AlignedBase(base)
        wei  == act + ActivationLen(m)
        wei2 == wei + WeightLen(m)
        bias == wei2 + U8
    IN  [activation |-> Region(act, ActivationLen(m)),
         weight     |-> Region(wei, WeightLen(m)),
         weight2    |-> Region(wei2, U8),
         bias       |-> Region(bias, BiasBytes),
         output     |-> Region(bias + BiasBytes, WrittenLen(m))]

Blocks == {"activation", "weight", "weight2", "bias", "output"}

\* The extent the tile function of a mode reads of a block: the limit operand
\* of its mxmem instructions plus one (the :cm load of CM_UB takes a channel
\* range instead and reads within one tile); mxmem2 loads a whole bias block.
TileReads(m) ==
    [activation |-> CASE m = "UB_ADEEP32" -> DeepTiles * U8
                      [] m = "FP16_HF_X64" -> U16
                      [] OTHER -> U8,
     weight     |-> CASE m = "UB_ADEEP32" -> DeepTiles * U8
                      [] m \in {"UB_WDEEP_FULL_X64", "FP16_HF_X64"} -> U16
                      [] OTHER -> U8,
     weight2    |-> IF m = "CM_UB" THEN U8 ELSE 0,
     bias       |-> IF m \in {"CM_UB", "FP16_HF_X64"} THEN BiasBytes ELSE 0]

\* The output stores of the tile function of a mode, as offsets into the
\* output block: one store, or the `before` and the `after` store.
TileWrites(m) ==
    CASE m \in UbModes -> {Region(0, U8)}
      [] m \in UhModes \cup {"FP16_HF_X64"} -> {Region(0, U16)}
      [] m \in FullModes -> {Region(0, U8), Region(U8, U8)}
      [] m = "UH2X2_FULL_X64" -> {Region(0, U16x2x2 \div 2),
                                  Region(U16x2x2 \div 2, U16x2x2 \div 2)}

\* A set of regions covers exactly the first len bytes, none of them twice.
Tiles(regions, len) ==
    /\ \A r \in regions : 0 <= r.lo /\ r.hi <= len
    /\ \A r, s \in regions : r = s \/ r.hi <= s.lo \/ s.hi <= r.lo
    /\ len = LET size(r) == r.hi - r.lo
                 lens == {size(r) : r \in regions}
             IN  (CHOOSE n \in lens : TRUE) * Cardinality(regions)
=============================================================================
