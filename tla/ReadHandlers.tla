---------------------------- MODULE ReadHandlers ----------------------------
(***************************************************************************)
(* The handlers of the API server that read: DslQuery, which asks CouchDB  *)
(* through the clients of CouchClients; BlockQuery and BlockQueryEx, which *)
(* ask the chaincode for the transactions of a business number; and        *)
(* KeepaliveQuery.  A panic of a handler is answered by gin's Recovery.    *)
(*                                                                         *)
(* A peer's answer to a query has two payloads: what the chaincode         *)
(* returned, in Response.Response, and the serialised proposal response    *)
(* around it, in Response, which is empty when the chaincode failed.  The  *)
(* SDK of the API server reads the second.                                 *)
(***************************************************************************)
EXTENDS CouchClients, Sequences

CONSTANT Peers          \* the peers a query may be sent to

ASSUME PeersAssumption == Nil \notin Peers

VARIABLES
    connected,      \* the peers whose conn is set, in this process
    dials,          \* the peer a request waits for in grpc.Dial, or Nil
    handler,        \* which handler serves the request, or "idle", "replied"
    response,       \* the status the HTTP client saw
    answer,         \* history: what the chaincode returned
    late            \* history: requests that came when the list was installed

connVars == <<connected, dials>>
handlerVars == <<handler, response, answer, late>>
vars == <<couchVars, connVars, handlerVars>>

BlockHandlers == {"BlockQuery", "BlockQueryEx"}
PeerHandlers == BlockHandlers \cup {"KeepaliveQuery"}
Statuses == {"none", "200", "204", "400", "500", "601", "602", "closed"}
Answers == {"none", "Reached", "error"}

TypeOK ==
    /\ CouchTypeOK
    /\ handler \in [Requests ->
        {"idle", "DslQuery", "replied"} \cup PeerHandlers]
    /\ response \in [Requests -> Statuses]
    /\ answer \in [Requests -> Answers]
    /\ late \in SUBSET Requests
    /\ \A r \in Requests : response[r] = "none" <=> handler[r] # "replied"
    /\ connected \in SUBSET Peers
    /\ dials \in [Requests -> Peers \cup {Nil}]
    /\ \A r \in Requests : dials[r] # Nil => handler[r] \in PeerHandlers

Init ==
    /\ CouchInit
    /\ handler = [r \in Requests |-> "idle"]
    /\ response = [r \in Requests |-> "none"]
    /\ answer = [r \in Requests |-> "none"]
    /\ late = {}
    /\ connected = {}
    /\ dials = [r \in Requests |-> Nil]

\* The list is there, both its words.
Installed == pointer # Nil /\ length = NumNodes

Reply(r, status) ==
    /\ handler' = [handler EXCEPT ![r] = "replied"]
    /\ response' = [response EXCEPT ![r] = status]
-----------------------------------------------------------------------------
(* DslQuery                                                                *)

\* The body is read, or fails; a page of more than 1000 is refused before the
\* clients are asked for.
DslQuery(r) ==
    /\ handler[r] = "idle"
    /\ \/ /\ Call(r)
          /\ handler' = [handler EXCEPT ![r] = "DslQuery"]
          /\ late' = IF Installed THEN late \cup {r} ELSE late
          /\ UNCHANGED response
       \/ /\ \E status \in {"204", "400"} : Reply(r, status)
          /\ UNCHANGED <<couchVars, late>>
    /\ UNCHANGED <<connVars, answer>>

GetClients(r) ==
    /\ handler[r] = "DslQuery"
    /\ GetDBClients(r)
    /\ UNCHANGED <<connVars, handlerVars>>

\* clients[r.Intn(len(clients))] panics on a list that looks empty.
NoClient(r) ==
    /\ handler[r] = "DslQuery" /\ pc[r] = "have"
    /\ clients[r][2] = 0
    /\ Reply(r, "500")
    /\ UNCHANGED <<couchVars, connVars, answer, late>>

\* One of the clients runs the query and the records become factors, or the
\* query or a record fails.
QueryDocuments(r) ==
    /\ handler[r] = "DslQuery" /\ pc[r] = "have"
    /\ clients[r][2] > 0
    /\ \E status \in {"200", "400"} : Reply(r, status)
    /\ UNCHANGED <<couchVars, connVars, answer, late>>

\* Fault: the return after the answer is missing.
ClientsFailedGoesOn(r) ==
    /\ handler[r] = "DslQuery" /\ pc[r] = "error"
    /\ response' = [response EXCEPT ![r] = "400"]
    /\ UNCHANGED <<couchVars, connVars, handler, answer, late>>

ClientsFailed(r) ==
    /\ handler[r] = "DslQuery" /\ pc[r] = "error"
    /\ Reply(r, "400")
    /\ UNCHANGED <<couchVars, connVars, answer, late>>
-----------------------------------------------------------------------------
(* The queries to a peer                                                   *)

\* Endorse: a peer without a connection is dialled first.
AskPeer(r) ==
    /\ handler[r] = "idle"
    /\ \E h \in PeerHandlers : handler' = [handler EXCEPT ![r] = h]
    /\ \E p \in Peers :
        dials' = [dials EXCEPT ![r] = IF p \in connected THEN Nil ELSE p]
    /\ UNCHANGED <<couchVars, connected, response, answer, late>>

\* No peer is configured: index 0 of no names panics.  The names or the
\* configuration of the channel are wrong: Query returns an error.
NotAsked(r) ==
    /\ handler[r] = "idle"
    /\ \E status \in {"500", "400", "601"} : Reply(r, status)
    /\ UNCHANGED <<couchVars, connVars, answer, late>>

\* grpc.Dial blocks (WithBlock, no deadline) until the peer can be reached.
Dial(r) ==
    /\ dials[r] # Nil
    /\ connected' = connected \cup {dials[r]}
    /\ dials' = [dials EXCEPT ![r] = Nil]
    /\ UNCHANGED <<couchVars, handlerVars>>

\* It fails at once only for the options it was given; without a response the SDK
\* panics.
DialFails(r) ==
    /\ dials[r] # Nil
    /\ dials' = [dials EXCEPT ![r] = Nil]
    /\ Reply(r, "500")
    /\ UNCHANGED <<couchVars, connected, answer, late>>

\* The query is on a connection.
Asked(r) == handler[r] \in PeerHandlers /\ dials[r] = Nil

\* The query fails, as it does when the connection has broken: there is no
\* response, and the SDK panics.
PeerFails(r) ==
    /\ Asked(r)
    /\ Reply(r, "500")
    /\ UNCHANGED <<couchVars, connVars, answer, late>>

\* Invoke of the chaincode wants two arguments: KeepaliveQuery comes with two and
\* reads back what Init stored, DslQuery comes with one.
Dispatch(h) ==
    IF h \in BlockHandlers THEN {"error"} ELSE {"Reached", "error"}

\* ProposalResponse.Payload: neither JSON nor any answer of the chaincode.
Envelope(a) == IF a = "error" THEN "empty" ELSE "envelope"

\* BlockQuery and BlockQueryEx: the envelope is not JSON, the list of
\* transactions has the wrong type, and nothing is fetched.
BlockQuery(r) ==
    /\ Asked(r) /\ handler[r] \in BlockHandlers
    /\ \E a \in Dispatch(handler[r]) : answer' = [answer EXCEPT ![r] = a]
    /\ Reply(r, "400")
    /\ UNCHANGED <<couchVars, connVars, late>>

\* PeerKeepalive, and OrderKeepalive if the peer is taken to be alive.
KeepaliveQuery(r) ==
    /\ Asked(r) /\ handler[r] = "KeepaliveQuery"
    /\ \E a \in Dispatch(handler[r]), orderer \in BOOLEAN :
        /\ answer' = [answer EXCEPT ![r] = a]
        /\ Reply(r, IF Envelope(a) # "Reached" THEN "601"
                    ELSE IF orderer THEN "200" ELSE "602")
    /\ UNCHANGED <<couchVars, connVars, late>>
-----------------------------------------------------------------------------

\* The process ends, with its requests, and is started again.
Restart ==
    /\ Forget
    /\ connected' = {}
    /\ dials' = [r \in Requests |-> Nil]
    /\ handler' = [r \in Requests |-> IF handler[r] = "idle" THEN "idle" ELSE "replied"]
    /\ response' = [r \in Requests |->
            IF handler[r] \in {"idle", "replied"} THEN response[r] ELSE "closed"]
    /\ UNCHANGED <<answer, late>>

HandlerStep(r) ==
    \/ GetClients(r) \/ NoClient(r) \/ QueryDocuments(r) \/ ClientsFailed(r)
    \/ PeerFails(r) \/ BlockQuery(r) \/ KeepaliveQuery(r)

Next ==
    \/ \E r \in Requests :
            \/ DslQuery(r) \/ AskPeer(r) \/ NotAsked(r)
            \/ Dial(r) \/ DialFails(r)
            \/ HandlerStep(r)
    \/ Restart

Spec == Init /\ [][Next]_vars

\* A handler runs on; the creation of a client and a query to CouchDB end
\* (request_timeout), a query on a connection ends (its keepalive breaks one whose
\* peer is gone), a free lock is given to who waits.  Nothing says that grpc.Dial
\* ends.
Fairness == \A r \in Requests : WF_vars(HandlerStep(r))

FairSpec == Spec /\ Fairness
-----------------------------------------------------------------------------
(* Properties                                                              *)

Holders == {r \in Requests : clients[r][1] # Nil}

\* The double check of GetDBClients: all requests of one process that were given
\* clients were given the same list, though they tested it without the lock and
\* several waited to create it.
OneList == \A q, r \in Holders : clients[q][1] = clients[r][1]

\* A request never gets a part of a list: it has a client for every node of the
\* configuration, or the list looks empty to it.
NeverHalfBuilt == \A r \in Requests : clients[r][2] \in {0, NumNodes}

\* Once the list is installed it stays: a request that came later finds it
\* complete, whatever creations failed before and whoever still waits for the
\* lock.  Only requests that came before can panic on a list without length.
LateFindsList ==
    \A r \in late :
        /\ pc[r] = "have" => clients[r][2] = NumNodes
        /\ pc[r] # "error"

\* Every request is answered, or cut off by the end of the process, unless it
\* waits for a peer that this process had not reached when the request came: a
\* failed creation leaves the lock to the next that waits.
RequestsAnswered ==
    \A r \in Requests :
        handler[r] # "idle" /\ dials[r] = Nil ~> handler[r] = "replied"

\* The log line of KeepaliveQuery, "peer cann't be reached.", goes with 601: a
\* client that is told so talks of a peer that did not answer "Reached".
UnreachedIsUnreached ==
    \A r \in Requests : response[r] = "601" => answer[r] # "Reached"
=============================================================================
