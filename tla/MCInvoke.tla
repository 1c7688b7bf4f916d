------------------------------ MODULE MCInvoke ------------------------------
(***************************************************************************)
(* Instances of Invoke for TLC.                                            *)
(***************************************************************************)
EXTENDS Invoke

\* rule "and" selects a peer of every organisation, rule "or" one peer, and a
\* policy without peers none at all (GetSendPeerName, sdk.go).
AllSelections == SUBSET Peers
=============================================================================
