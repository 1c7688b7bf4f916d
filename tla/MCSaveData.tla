----------------------------- MODULE MCSaveData -----------------------------
(***************************************************************************)
(* Instances of SaveData for TLC.                                          *)
(***************************************************************************)
EXTENDS SaveData
=============================================================================
