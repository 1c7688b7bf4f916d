------------------------------- MODULE Invoke -------------------------------
(***************************************************************************)
(* FabricClient.Invoke of the vendored gohfc client, as the API server     *)
(* uses it: every HTTP request runs in a goroutine of its own, and each    *)
(* Invoke starts one Endorse goroutine per selected peer.  All of them     *)
(* share, without a lock, one Peer object per peer (conn, client) and the  *)
(* Orderer object (con, client), which are filled in lazily.               *)
(*                                                                         *)
(* A call is one transaction: newTransactionId draws a fresh 24 byte nonce *)
(* for each.  One orderer is configured (client_sdk.yaml).  Replies are    *)
(* abstracted to what createTransaction tells apart: a transport error, a  *)
(* status other than 200, or the payload of a good simulation.             *)
(***************************************************************************)
EXTENDS Naturals, Sequences, FiniteSets

CONSTANTS
    Calls,          \* the Invoke calls of the run
    Peers,          \* the peers of the client configuration
    Selections,     \* the peer name sets GetSendPeerName may return
    Payloads        \* the simulation results a peer may sign

Err == "transport error"
Bad == "status not 200"
None == "no reply"
Replies == Payloads \cup {Err, Bad}

ASSUME InvokeAssumption ==
    /\ IsFiniteSet(Peers)
    /\ Selections \subseteq SUBSET Peers
    /\ Payloads \cap {Err, Bad, None} = {}

VARIABLES
    proc,           \* the API server process
    conn, client,   \* Peer.conn # nil, Peer.client # nil
    ocon, oclient,  \* Orderer.con # nil, Orderer.client # nil
    call,           \* where each Invoke call is
    targets,        \* execPeers of each call
    got,            \* the loop counter of sendToPeers
    gor,            \* the Endorse goroutine of each call and peer
    reply,          \* what that goroutine sent, or will send, on the channel
    wire,           \* envelopes on a stream to the orderer
    sent,           \* history: envelopes ever written to a stream
    log,            \* history: the orderer's order of transactions
    ack             \* the response of the orderer on the stream of a call

peerVars == <<conn, client>>
ordererVars == <<ocon, oclient>>
endorseVars == <<targets, got, gor, reply>>
netVars == <<wire, sent, log, ack>>
vars == <<proc, peerVars, ordererVars, call, endorseVars, netVars>>

\* An Invoke call that has not returned, in the order of its steps.
Active == {"endorsing", "assembled", "dialing", "assigning", "opening", "sent"}
\* "rejected": an error before the envelope is sent; "unconfirmed": an error
\* after it; "panicked": the request goroutine died and gin's Recovery replied
\* 500; "lost": the process died.
Returned == {"success", "rejected", "unconfirmed", "panicked", "lost"}

GorStates == {"none", "starting", "dialing", "assigning", "calling", "replying", "done"}

Ordered == {log[n] : n \in 1..Len(log)}

TypeOK ==
    /\ proc \in {"running", "panicked", "killed"}
    /\ conn \in [Peers -> BOOLEAN]
    /\ client \in [Peers -> BOOLEAN]
    /\ ocon \in BOOLEAN
    /\ oclient \in BOOLEAN
    /\ call \in [Calls -> Active \cup Returned \cup {"idle"}]
    /\ targets \in [Calls -> SUBSET Peers]
    /\ got \in [Calls -> 0..Cardinality(Peers)]
    /\ gor \in [Calls -> [Peers -> GorStates]]
    /\ reply \in [Calls -> [Peers -> Replies \cup {None}]]
    /\ wire \in SUBSET Calls
    /\ sent \in SUBSET Calls
    /\ log \in Seq(Calls)
    /\ ack \in [Calls -> {"none", "SUCCESS", "refused"}]

Init ==
    /\ proc = "running"
    /\ conn = [p \in Peers |-> FALSE]
    /\ client = [p \in Peers |-> FALSE]
    /\ ocon = FALSE
    /\ oclient = FALSE
    /\ call = [i \in Calls |-> "idle"]
    /\ targets = [i \in Calls |-> {}]
    /\ got = [i \in Calls |-> 0]
    /\ gor = [i \in Calls |-> [p \in Peers |-> "none"]]
    /\ reply = [i \in Calls |-> [p \in Peers |-> None]]
    /\ wire = {}
    /\ sent = {}
    /\ log = <<>>
    /\ ack = [i \in Calls |-> "none"]

-----------------------------------------------------------------------------
(* The request goroutine up to the endorsement requests.                   *)

\* sdk.Invoke refuses an empty selection; otherwise the proposal is built and
\* signed and sendToPeers starts its goroutines.
Begin(i) ==
    /\ proc = "running"
    /\ call[i] = "idle"
    /\ \E names \in Selections :
        IF names = {}
        THEN /\ call' = [call EXCEPT ![i] = "rejected"]
             /\ UNCHANGED endorseVars
        ELSE /\ call' = [call EXCEPT ![i] = "endorsing"]
             /\ targets' = [targets EXCEPT ![i] = names]
             /\ gor' = [gor EXCEPT ![i] = [p \in Peers |->
                            IF p \in names THEN "starting" ELSE "none"]]
             /\ UNCHANGED <<got, reply>>
    /\ UNCHANGED <<proc, peerVars, ordererVars, netVars>>

-----------------------------------------------------------------------------
(* Peer.Endorse, one goroutine per call and peer.                          *)

Step(i, p, from, to) ==
    /\ gor[i][p] = from
    /\ gor' = [gor EXCEPT ![i][p] = to]

\* if p.conn == nil
CheckConn(i, p) ==
    /\ Step(i, p, "starting", IF conn[p] THEN "calling" ELSE "dialing")
    /\ UNCHANGED <<proc, peerVars, ordererVars, call, targets, got, reply, netVars>>

\* grpc.Dial blocks (WithBlock, no deadline) until the peer can be reached;
\* then p.conn is set, and p.client still is not.
Dial(i, p) ==
    /\ Step(i, p, "dialing", "assigning")
    /\ conn' = [conn EXCEPT ![p] = TRUE]
    /\ UNCHANGED <<proc, client, ordererVars, call, targets, got, reply, netVars>>

\* An error of grpc.Dial becomes the reply.
DialFails(i, p) ==
    /\ Step(i, p, "dialing", "replying")
    /\ reply' = [reply EXCEPT ![i][p] = Err]
    /\ UNCHANGED <<proc, peerVars, ordererVars, call, targets, got, netVars>>

\* Fault: the goroutine goes on without storing the client.
SetClientForgotten(i, p) ==
    /\ Step(i, p, "assigning", "calling")
    /\ UNCHANGED <<proc, peerVars, ordererVars, call, targets, got, reply, netVars>>

SetClient(i, p) ==
    /\ Step(i, p, "assigning", "calling")
    /\ client' = [client EXCEPT ![p] = TRUE]
    /\ UNCHANGED <<proc, conn, ordererVars, call, targets, got, reply, netVars>>

\* Fault: an error of the RPC ends the goroutine without a reply.
ProcessProposalSilent(i, p) ==
    /\ client[p]
    /\ \E r \in Replies :
        /\ Step(i, p, "calling", IF r = Err THEN "done" ELSE "replying")
        /\ reply' = [reply EXCEPT ![i][p] = r]
    /\ UNCHANGED <<proc, peerVars, ordererVars, call, targets, got, netVars>>

ProcessProposal(i, p) ==
    /\ client[p]
    /\ Step(i, p, "calling", "replying")
    /\ \E r \in Replies : reply' = [reply EXCEPT ![i][p] = r]
    /\ UNCHANGED <<proc, peerVars, ordererVars, call, targets, got, netVars>>

\* resp <- ...: the channel is unbuffered, so the send and the receive of
\* sendToPeers are one step.
Collect(i, p) ==
    /\ call[i] = "endorsing"
    /\ got[i] < Cardinality(targets[i])
    /\ Step(i, p, "replying", "done")
    /\ got' = [got EXCEPT ![i] = @ + 1]
    /\ UNCHANGED <<proc, peerVars, ordererVars, call, targets, reply, netVars>>

-----------------------------------------------------------------------------
(* The request goroutine after the endorsement requests.                   *)

\* Fault: the payloads are not compared.
MatchingStatus(i, ps) ==
    /\ ps # {}
    /\ \A p \in ps : reply[i][p] \in Payloads

\* The responses createTransaction accepts: every one of them is status 200,
\* and all carry the same payload.
Matching(i, ps) ==
    /\ ps # {}
    /\ \E e \in Payloads : \A p \in ps : reply[i][p] = e

\* Fault: the loop stops one reply early.
AssembleEarly(i) ==
    /\ call[i] = "endorsing"
    /\ got[i] + 1 >= Cardinality(targets[i])
    /\ call' = [call EXCEPT ![i] =
                    IF Matching(i, {p \in targets[i] : gor[i][p] = "done"})
                    THEN "assembled" ELSE "rejected"]
    /\ UNCHANGED <<proc, peerVars, ordererVars, endorseVars, netVars>>

\* The loop of sendToPeers has its l replies and closes the channel.
Assemble(i) ==
    /\ call[i] = "endorsing"
    /\ got[i] = Cardinality(targets[i])
    /\ call' = [call EXCEPT ![i] =
                    IF Matching(i, {p \in targets[i] : gor[i][p] = "done"})
                    THEN "assembled" ELSE "rejected"]
    /\ UNCHANGED <<proc, peerVars, ordererVars, endorseVars, netVars>>

\* if o.con == nil
CheckOrderer(i) ==
    /\ call[i] = "assembled"
    /\ call' = [call EXCEPT ![i] = IF ocon THEN "opening" ELSE "dialing"]
    /\ UNCHANGED <<proc, peerVars, ordererVars, endorseVars, netVars>>

DialOrderer(i) ==
    /\ call[i] = "dialing"
    /\ \/ /\ call' = [call EXCEPT ![i] = "assigning"]
          /\ ocon' = TRUE
       \/ /\ call' = [call EXCEPT ![i] = "rejected"]
          /\ UNCHANGED ocon
    /\ UNCHANGED <<proc, peerVars, oclient, endorseVars, netVars>>

SetOrdererClient(i) ==
    /\ call[i] = "assigning"
    /\ call' = [call EXCEPT ![i] = "opening"]
    /\ oclient' = TRUE
    /\ UNCHANGED <<proc, peerVars, ocon, endorseVars, netVars>>

\* o.client.Broadcast and bcc.Send.  A nil client panics in the request
\* goroutine, which gin recovers from; the error of Send is not looked at.
OpenStream(i) ==
    /\ call[i] = "opening"
    /\ \/ /\ ~oclient
          /\ call' = [call EXCEPT ![i] = "panicked"]
          /\ UNCHANGED <<wire, sent>>
       \/ /\ oclient
          /\ call' = [call EXCEPT ![i] = "rejected"]
          /\ UNCHANGED <<wire, sent>>
       \/ /\ oclient
          /\ call' = [call EXCEPT ![i] = "sent"]
          /\ wire' = wire \cup {i}
          /\ sent' = sent \cup {i}
    /\ UNCHANGED <<proc, peerVars, ordererVars, endorseVars, log, ack>>

\* Fault: the status of the response is not looked at.
ReceiveUnchecked(i) ==
    /\ call[i] = "sent"
    /\ \/ /\ ack[i] # "none"
          /\ call' = [call EXCEPT ![i] = "success"]
       \/ call' = [call EXCEPT ![i] = "unconfirmed"]
    /\ UNCHANGED <<proc, peerVars, ordererVars, endorseVars, netVars>>

\* Fault: the status of the response becomes the outcome, whatever it is.
ReceiveRaw(i) ==
    /\ call[i] = "sent"
    /\ \/ /\ ack[i] # "none"
          /\ call' = [call EXCEPT ![i] = ack[i]]
       \/ call' = [call EXCEPT ![i] = "unconfirmed"]
    /\ UNCHANGED <<proc, peerVars, ordererVars, endorseVars, netVars>>

\* Fault: the envelope is sent again when the stream breaks.
ReceiveRetry(i) ==
    /\ call[i] = "sent"
    /\ \/ /\ ack[i] = "SUCCESS"
          /\ call' = [call EXCEPT ![i] = "success"]
          /\ UNCHANGED wire
       \/ /\ wire' = wire \cup {i}
          /\ Len(log) < 3
          /\ UNCHANGED call
    /\ UNCHANGED <<proc, peerVars, ordererVars, endorseVars, sent, log, ack>>

\* bcc.Recv: the response of the orderer, or an error of the stream, which may
\* come before or after the orderer took the envelope.
Receive(i) ==
    /\ call[i] = "sent"
    /\ \/ /\ ack[i] = "SUCCESS"
          /\ call' = [call EXCEPT ![i] = "success"]
       \/ call' = [call EXCEPT ![i] = "unconfirmed"]
    /\ UNCHANGED <<proc, peerVars, ordererVars, endorseVars, netVars>>

-----------------------------------------------------------------------------
(* The ordering service, and the life of the process.                      *)

\* The orderer orders an envelope of a stream, refuses it, or never sees it.
Orderer(i) ==
    /\ i \in wire
    /\ wire' = wire \ {i}
    /\ \/ /\ log' = Append(log, i)
          /\ ack' = [ack EXCEPT ![i] = "SUCCESS"]
       \/ /\ ack' = [ack EXCEPT ![i] = "refused"]
          /\ UNCHANGED log
       \/ UNCHANGED <<log, ack>>
    /\ UNCHANGED <<proc, peerVars, ordererVars, call, endorseVars, sent>>

\* Everything in memory is gone; the callers see their connections close.
Die(how) ==
    /\ proc = "running"
    /\ proc' = how
    /\ conn' = [p \in Peers |-> FALSE]
    /\ client' = [p \in Peers |-> FALSE]
    /\ ocon' = FALSE
    /\ oclient' = FALSE
    /\ call' = [i \in Calls |-> IF call[i] \in Active THEN "lost" ELSE call[i]]
    /\ gor' = [i \in Calls |-> [p \in Peers |->
                IF gor[i][p] \in {"none", "done"} THEN gor[i][p] ELSE "none"]]
    /\ UNCHANGED <<targets, got, reply, netVars>>

\* p.client.ProcessProposal on a nil client: the goroutine is not one of
\* gin's, nobody recovers, and the whole process exits.
EndorsePanic(i, p) ==
    /\ gor[i][p] = "calling"
    /\ ~client[p]
    /\ Die("panicked")

Kill == Die("killed")

\* restart: always, in makeImage/apiserver/docker-compose.yaml.
Restart ==
    /\ proc # "running"
    /\ proc' = "running"
    /\ UNCHANGED <<peerVars, ordererVars, call, endorseVars, netVars>>

-----------------------------------------------------------------------------

EndorseStep(i, p) ==
    \/ CheckConn(i, p) \/ Dial(i, p) \/ DialFails(i, p) \/ SetClient(i, p)
    \/ ProcessProposal(i, p) \/ Collect(i, p) \/ EndorsePanic(i, p)

CallStep(i) ==
    \/ Assemble(i) \/ CheckOrderer(i) \/ DialOrderer(i) \/ SetOrdererClient(i)
    \/ OpenStream(i) \/ Receive(i)

Next ==
    \/ \E i \in Calls : Begin(i) \/ CallStep(i) \/ Orderer(i)
    \/ \E i \in Calls, p \in Peers : EndorseStep(i, p)
    \/ Kill
    \/ Restart

Spec == Init /\ [][Next]_vars

\* The Go scheduler runs every goroutine; docker restarts the process; peers
\* and orderers can be dialled sooner or later and answer an open call (the
\* keepalive parameters of the connections break a call to a dead one).
Fairness ==
    /\ \A i \in Calls : WF_vars(CallStep(i))
    /\ \A i \in Calls, p \in Peers : WF_vars(EndorseStep(i, p))
    /\ WF_vars(Restart)

FairSpec == Spec /\ Fairness
-----------------------------------------------------------------------------
(* Properties.                                                             *)

\* A transaction is ordered only if every peer it was sent to simulated it with
\* status 200 and all results were equal: "if simulation fails ... transaction
\* will NOT be send to orderer" (comment above Invoke, client.go).
OnlyEndorsedIsOrdered ==
    \A i \in Ordered :
        /\ targets[i] # {}
        /\ \E e \in Payloads : \A p \in targets[i] : reply[i][p] = e

\* A caller that Invoke told "success" holds the id of an ordered transaction,
\* whatever happened to the connections, the stream or other calls.
SuccessIsOrdered ==
    \A i \in Calls : call[i] = "success" => i \in Ordered

\* No transaction is ordered twice.
OrderedOnce ==
    \A m, n \in 1..Len(log) : log[m] = log[n] => m = n

\* When sendToPeers has closed its channel no goroutine is left that would send
\* on it (such a send would panic and end the process).
NoSenderAfterClose ==
    \A i \in Calls : call[i] # "endorsing" =>
        \A p \in Peers : gor[i][p] \in {"none", "done"}

\* A Peer or Orderer with a connection and no client exists only while the
\* goroutine that dialled is between its two assignments: the window in which
\* others fail on a nil client closes by itself.
HalfOpenIsTransient ==
    /\ \A p \in Peers : conn[p] /\ ~client[p] =>
            \E i \in Calls : gor[i][p] = "assigning"
    /\ ocon /\ ~oclient => \E i \in Calls : call[i] = "assigning"

\* Every call that begins returns to its caller or is cut off by the end of the
\* process.
CallsReturn ==
    \A i \in Calls : call[i] = "endorsing" ~> call[i] \in Returned

\* The comment above sendToPeers: `p.Endorse()` guarantee that there will be
\* response, so no endorsement goroutine ends the process instead.
EndorseResponds == proc # "panicked"

\* Invoke implements InvokeSpec: the abstract status of a call forgets how far
\* it got and why it failed.
Abstract == INSTANCE InvokeSpec WITH
    status <- [i \in Calls |->
                IF call[i] = "idle" THEN "idle"
                ELSE IF call[i] \in Active THEN "pending"
                ELSE IF call[i] = "success" THEN "success" ELSE "failed"],
    submitted <- sent

ImplementsInvokeSpec == Abstract!Spec
=============================================================================
