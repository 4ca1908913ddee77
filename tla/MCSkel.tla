------------------------------- MODULE MCSkel -------------------------------
(***************************************************************************)
(* Values for the constants of Skel: two handles, a counter that wraps     *)
(* while benchmarks run, overheads that differ from open to open; every    *)
(* scenario, the int8 ones with a word that the larger dot products wrap   *)
(* in the first iteration and the others later, and a refused count.       *)
(***************************************************************************)
EXTENDS Skel

MCReadCosts == {0, 2}
MCJobs == [scenario : Int8Scenarios, iterations : {1, 3}]
          \union [scenario : Scenarios \ Int8Scenarios, iterations : {2}]
          \union {[scenario |-> "fp32-vmuladd", iterations |-> 0]}
=============================================================================
