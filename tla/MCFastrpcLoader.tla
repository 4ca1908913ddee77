--------------------------- MODULE MCFastrpcLoader ---------------------------
(***************************************************************************)
(* Values for the constants of FastrpcLoader: two workers; complete DLLs   *)
(* with and without rpcmem_alloc2, and one that lacks rpcmem_free.         *)
(***************************************************************************)
EXTENDS FastrpcLoader

MCDlls == {RequiredSet, RequiredSet \union {Optional},
           RequiredSet \ {"rpcmem_free"}}
=============================================================================
