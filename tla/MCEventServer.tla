--------------------------- MODULE MCEventServer ---------------------------
(***************************************************************************)
(* Instances of EventServer for TLC.                                       *)
(***************************************************************************)
EXTENDS EventServer

\* What the factor system itself commits: configuration, transactions without an
\* event, saved factors.  Other chaincodes of the channel add transactions that
\* cannot be decoded or lack a part, and events without a message.
SharedBlocks ==
    {<<"config", "silent", "saved">>, <<"saved", "garbled", "saved">>, <<"hollow", "saved">>,
     <<"saved", "broken">>}
=============================================================================
