----------------------------- MODULE Scenarios -----------------------------
(***************************************************************************)
(* The scenario tables of src/host/cdsp_peak.c and what selects from them: *)
(* --scenario and, for the HMX scenarios under "all", the architecture of  *)
(* the skel that was opened.                                               *)
(***************************************************************************)
EXTENDS Integers, Sequences, FiniteSets, HmxModes

\* compute_scenarios: name and iteration_group (0 is ITERATION_GROUP_NONE).
ComputeTable == <<
    [name |-> "fp32-vmuladd",   group |-> 0],
    [name |-> "fp16-vmpyacc",   group |-> 0],
    [name |-> "qf16-vmpyadd",   group |-> 0],
    [name |-> "qf32-vmpyadd",   group |-> 0],
    [name |-> "int8-vrmpyacc",  group |-> 1],
    [name |-> "int8-vrmpy-add", group |-> 1] >>

MemTable == << "mem-read", "mem-write", "mem-copy" >>

HmxRow(name, mode, act, wei, out, arch) ==
    [name |-> name, mode |-> mode, activation |-> act, weight |-> wei,
     output |-> out, minArch |-> arch]

\* hmx_scenarios: name, mode, activation_bytes, weight_bytes, output_bytes and
\* default_min_arch (default_enabled is 1 throughout).
HmxTable == <<
    HmxRow("hmx-resource", "PROBE_RESOURCE", U8, U8, 16, 0),
    HmxRow("hmx-cached", "PROBE_CACHED", U8, U8, 16, 0),
    HmxRow("hmx-lock", "PROBE_LOCK", U8, U8, 16, 0),
    HmxRow("hmx-int8-ub", "UB", U8, U8, U8, 0),
    HmxRow("hmx-int8-cm-ub", "CM_UB", U8, U8, U8, 0),
    HmxRow("hmx-int8-uh", "UH", U8, U8, 2048, 0),
    HmxRow("hmx-int8-ub-x16", "UB_X16", U8, U8, U8, 0),
    HmxRow("hmx-int8-uh-x16", "UH_X16", U8, U8, 2048, 0),
    HmxRow("hmx-int8-ub-full-x16", "UB_FULL_X16", U8, U8, 2048, 0),
    HmxRow("hmx-int8-ub-full-x32", "UB_FULL_X32", U8, U8, 2048, 0),
    HmxRow("hmx-int8-ub-full-x64", "UB_FULL_X64", U8, U8, 2048, 0),
    HmxRow("hmx-int8-uh2x2-full-x64", "UH2X2_FULL_X64", U8, U8, 8192, 69),
    HmxRow("hmx-int8-ub-adeep32", "UB_ADEEP32", DeepTiles * U8,
           DeepTiles * U8, U8, 0),
    HmxRow("hmx-int8-ub-wdeep-full-x64", "UB_WDEEP_FULL_X64", U8, 2 * U8,
           2048, 0),
    HmxRow("hmx-fp16-hf-x64", "FP16_HF_X64", U16, U16, U16, 0),
    HmxRow("hmx-int4-ub-wn2x-full-x64", "INT4_WN2X_FULL_X64", U8, U8, 2048,
           73) >>

ComputeScenarios == {ComputeTable[n].name : n \in DOMAIN ComputeTable}
MemScenarios == {MemTable[n] : n \in DOMAIN MemTable}
HmxScenarios == {HmxTable[n].name : n \in DOMAIN HmxTable}
Names == {"rpc-null"} \cup ComputeScenarios \cup MemScenarios \cup HmxScenarios

All == {"all"}

\* scenario_enabled: the filter is a set of names here, {"all"} for "all".
ScenarioEnabled(filter, name) == filter = All \/ name \in filter

\* hmx_scenario_enabled; arch 0 is "not known yet".
HmxEnabled(filter, row, arch) ==
    IF filter = All THEN arch <= 0 \/ arch >= row.minArch
                    ELSE row.name \in filter

\* any_hmx_scenario_enabled and any_mem_scenario_enabled.
NeedHmx(filter) == \E n \in DOMAIN HmxTable : HmxEnabled(filter, HmxTable[n], 0)
\* Mutant: the loop returns after its first entry.
NeedMemFirst(filter) == ScenarioEnabled(filter, MemTable[1])
NeedMem(filter) == \E n \in DOMAIN MemTable : ScenarioEnabled(filter, MemTable[n])

\* max_enabled_hmx_{activation,weight,output}_bytes: the largest over the
\* enabled rows, field by field.
EnabledHmx(filter, arch) ==
    {HmxTable[n] : n \in {k \in DOMAIN HmxTable :
                            HmxEnabled(filter, HmxTable[k], arch)}}
Largest(S) == IF S = {} THEN 0 ELSE CHOOSE n \in S : \A k \in S : k <= n
HmxBuffers(filter, arch) ==
    LET rows == EnabledHmx(filter, arch)
    IN  [activation |-> Largest({r.activation : r \in rows}),
         weight     |-> Largest({r.weight : r \in rows}),
         output     |-> Largest({r.output : r \in rows})]

\* Every row a run with this filter against a skel of this architecture owes.
Wanted(filter, arch) ==
    {name \in {"rpc-null"} \cup ComputeScenarios \cup MemScenarios :
        ScenarioEnabled(filter, name)}
    \cup {r.name : r \in EnabledHmx(filter, arch)}
=============================================================================
