---------------------------- MODULE MCApiServer -----------------------------
(***************************************************************************)
(* Instances of ApiServer for TLC.                                         *)
(***************************************************************************)
EXTENDS ApiServer

MCPeerNames == {"p1", "p2", "p3"}
MCOrgNames == {"org1", "org2"}
MCHostOf == [p1 |-> "h1", p2 |-> "h2", p3 |-> "h3"]
=============================================================================
