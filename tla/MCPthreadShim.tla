---------------------------- MODULE MCPthreadShim ----------------------------
(***************************************************************************)
(* Values for the constants of PthreadShim: three workers, fewer addresses *)
(* than workers, and an errno that is not set.                             *)
(***************************************************************************)
EXTENDS PthreadShim

MCErrnos == {0, 13}
=============================================================================
