------------------------- MODULE MCListTimerServer -------------------------
(***************************************************************************)
(* A small instance of ListTimerServer for TLC.                            *)
(***************************************************************************)
EXTENDS ListTimerServer

CONSTANTS t1, t2
=============================================================================
