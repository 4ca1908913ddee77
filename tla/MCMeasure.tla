----------------------------- MODULE MCMeasure -----------------------------
(***************************************************************************)
(* Values for the constants of Measure: small error, cycle and checksum    *)
(* sets.  Two cycle counts make the slowest worker visible, two errors the *)
(* lowest-numbered failing one.                                            *)
(***************************************************************************)
EXTENDS Measure

CONSTANTS e1, e2

MCErrors == {e1, e2}
MCCycles == {5, 9}
MCChecksums == {7}
MCAllKinds == KnownKinds
=============================================================================
