----------------------------- MODULE PowerVote -----------------------------
(***************************************************************************)
(* cdsp_peak_set_power of src/dsp/cdsp_peak_power.c: the HAP power votes   *)
(* it casts one after the other until one fails, and what it reports.  The *)
(* answers of HAP_power_set are external.                                  *)
(***************************************************************************)
EXTENDS Naturals, Sequences, FiniteSets

\* set_compute_client, set_dcvs_max, set_hvx_power, set_hmx_power and, from
\* v75 on, set_hmx_v2_power: step n casts Votes[n] (CDSP_PEAK_POWER_STEP_*).
Votes == <<"APPTYPE", "DCVS_MAX", "HVX", "HMX", "HMX_V2">>
Steps(arch) == IF arch >= 75 THEN 5 ELSE 4

\* What a call reports when the votes before step `failing` succeed and that
\* one fails (0: none does): the mask, as a set, the failed step and its error.
PowerReport(failing, arch, error) ==
    IF failing = 0
    THEN [applied |-> {Votes[n] : n \in 1..Steps(arch)}, step |-> 0,
          error |-> 0]
    ELSE [applied |-> {Votes[n] : n \in 1..(failing - 1)}, step |-> failing,
          error |-> error]
=============================================================================
