---------------------------- MODULE MCMemBuffers ----------------------------
(***************************************************************************)
(* Values for the constants of MemBuffers: lengths of 0 to 4 vectors, more *)
(* and fewer bytes than verify_copy probes, several pages, and repeats     *)
(* enough for the written word to carry from byte to byte and to wrap.     *)
(***************************************************************************)
EXTENDS MemBuffers

MCSizes == {0, 4, 8, 12, 16}
MCTransports == {"delivered", "lost"}
=============================================================================
