------------------------------ MODULE AEEStdErr ------------------------------
(***************************************************************************)
(* The codes of AEEStdErr.h, a header of the Hexagon SDK, that the skel    *)
(* (src/dsp/cdsp_peak_imp.c, src/dsp/cdsp_peak_hmx.c) and verify_copy      *)
(* return.                                                                 *)
(***************************************************************************)
EXTENDS Integers

EOk == 0              \* AEE_SUCCESS
EFailed == 1          \* AEE_EFAILED
ENoMemory == 2        \* AEE_ENOMEMORY
EBadParm == 14        \* AEE_EBADPARM
EUnsupported == 20    \* AEE_EUNSUPPORTED
=============================================================================
