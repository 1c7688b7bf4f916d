--------------------------- MODULE MCReadHandlers ---------------------------
(***************************************************************************)
(* Instances of ReadHandlers for TLC.                                      *)
(***************************************************************************)
EXTENDS ReadHandlers

MCRequests == {"r1", "r2", "r3"}
=============================================================================
