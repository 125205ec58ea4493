--------------------------- MODULE MCProcessPool ---------------------------
(***************************************************************************)
(* Small instances of ProcessPool for TLC.                                 *)
(***************************************************************************)
EXTENDS ProcessPool
=============================================================================
