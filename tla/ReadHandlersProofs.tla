------------------------- MODULE ReadHandlersProofs -------------------------
(***************************************************************************)
(* Proofs about ReadHandlers and the list of CouchClients, for any number  *)
(* of requests and of CouchDB nodes.                                       *)
(***************************************************************************)
EXTENDS ReadHandlers, TLAPS

\* The request holds the lock in the middle of the double check.
Holding == {"retest", "create", "fail", "install"}

\* The lock is held where it is needed; a creation runs on an empty list; the
\* words that are stored are those of the request that stores them; when nobody
\* stores, both are there or none; what was read is the list there is.
CouchInv ==
    /\ \A r \in Requests : pc[r] \in Holding => holder = r
    /\ \A r \in Requests : pc[r] \in {"create", "fail"} => pointer = Nil /\ length = 0
    /\ \A r \in Requests : pc[r] = "install" =>
            /\ unstored # {} /\ NumNodes > 0
            /\ pointer = IF "pointer" \in unstored THEN Nil ELSE r
            /\ length = IF "length" \in unstored THEN 0 ELSE NumNodes
    /\ (\A r \in Requests : pc[r] # "install") =>
            \/ pointer = Nil /\ length = 0
            \/ pointer # Nil /\ length = NumNodes
    /\ \A r \in Requests : clients[r][1] \in {Nil, pointer}
    /\ \A r \in Requests : clients[r][2] \in {0, NumNodes}

\* A request that came when the list was there is on the short way through the
\* double check, and the list is still there.
LateInv ==
    /\ \A r \in late : handler[r] # "idle"
    /\ \A r \in late : pc[r] # "idle" =>
            /\ Installed
            /\ pc[r] \in {"test", "read", "have"}
            /\ pc[r] = "have" => clients[r][2] = NumNodes

HandlersInv == TypeOK /\ CouchInv /\ LateInv

USE DEF GoTo, Unlock, Words

LEMMA CouchType ==
    ASSUME CouchTypeOK, NEW r \in Requests, GetDBClients(r)
    PROVE  CouchTypeOK'
<1> USE CouchAssumption DEF CouchTypeOK
<1>1. CASE Test(r)
    BY <1>1 DEF Test
<1>2. CASE Lock(r)
    BY <1>2 DEF Lock
<1>3. CASE Retest(r)
    BY <1>3 DEF Retest
<1>4. CASE CreateClient(r)
    BY <1>4 DEF CreateClient
<1>5. CASE Created(r)
    BY <1>5 DEF Created
<1>6. CASE Install(r)
    BY <1>6 DEF Install
<1>7. CASE Fail(r)
    BY <1>7 DEF Fail
<1>8. CASE Read(r)
    BY <1>8 DEF Read
<1> QED
    BY <1>1, <1>2, <1>3, <1>4, <1>5, <1>6, <1>7, <1>8 DEF GetDBClients

LEMMA CouchStep ==
    ASSUME CouchTypeOK, CouchInv, NEW r \in Requests, GetDBClients(r)
    PROVE  CouchInv'
<1> USE CouchAssumption DEF CouchTypeOK, CouchInv, Holding
<1>1. CASE Test(r)
    BY <1>1 DEF Test
<1>2. CASE Lock(r)
    BY <1>2 DEF Lock
<1>3. CASE Retest(r)
    BY <1>3 DEF Retest
<1>4. CASE CreateClient(r)
    BY <1>4 DEF CreateClient
<1>5. CASE Created(r)
    BY <1>5 DEF Created
<1>6. CASE Install(r)
  <2>1. PICK w \in unstored :
            /\ unstored' = unstored \ {w}
            /\ pointer' = IF w = "pointer" THEN r ELSE pointer
            /\ length' = IF w = "length" THEN NumNodes ELSE length
            /\ pc' = [pc EXCEPT ![r] = IF unstored = {w} THEN "read" ELSE "install"]
      BY <1>6 DEF Install
  <2>2. /\ pc[r] = "install" /\ holder = r
        /\ UNCHANGED <<holder, made, clients>>
      BY <1>6 DEF Install
  <2>3. \A q \in Requests : q # r => pc[q] \notin Holding /\ pc'[q] = pc[q]
      BY <2>1, <2>2
  <2>4. \A q \in Requests : clients[q][1] \in {Nil, pointer'}
      BY <2>1, <2>2
  <2>5. CASE unstored = {w}
      BY <2>1, <2>2, <2>3, <2>4, <2>5
  <2>6. CASE unstored # {w}
      BY <2>1, <2>2, <2>3, <2>4, <2>6
  <2> QED
      BY <2>5, <2>6
<1>7. CASE Fail(r)
    BY <1>7 DEF Fail
<1>8. CASE Read(r)
  <2>1. length \in {0, NumNodes}
      OBVIOUS
  <2>2. clients' = [clients EXCEPT ![r] = <<pointer, length>>]
      BY <1>8 DEF Read
  <2>3. \A q \in Requests : clients'[q][1] \in {Nil, pointer} /\ clients'[q][2] \in {0, NumNodes}
      BY <2>1, <2>2
  <2> QED
      BY <1>8, <2>3 DEF Read
<1> QED
    BY <1>1, <1>2, <1>3, <1>4, <1>5, <1>6, <1>7, <1>8 DEF GetDBClients

\* An installed list stays.
LEMMA InstalledStays ==
    ASSUME CouchTypeOK, CouchInv, Installed, NEW r \in Requests, GetDBClients(r)
    PROVE  Installed'
<1> USE CouchAssumption DEF CouchTypeOK, CouchInv, Installed
<1>1. ~Install(r)
    BY DEF Install
<1>2. ~Fail(r)
    BY DEF Fail
<1> QED
    BY <1>1, <1>2 DEF GetDBClients, Test, Lock, Retest, CreateClient, Created, Read

LEMMA LateStep ==
    ASSUME HandlersInv, NEW r \in Requests, GetClients(r)
    PROVE  LateInv'
<1> USE DEF HandlersInv, TypeOK
<1>1. GetDBClients(r) /\ UNCHANGED handlerVars
    BY DEF GetClients
<1>2. late' = late /\ handler' = handler
    BY <1>1 DEF handlerVars
<1>3. ASSUME NEW q \in late, pc'[q] # "idle"
      PROVE  /\ Installed'
             /\ pc'[q] \in {"test", "read", "have"}
             /\ pc'[q] = "have" => clients'[q][2] = NumNodes
  <2>1. CASE q = r
    <3>1. pc[r] # "idle" /\ pc[r] # "have"
        BY <1>1 DEF GetDBClients, Test, Lock, Retest, CreateClient, Created, Install, Fail, Read
    <3>2. Installed /\ pc[r] \in {"test", "read"}
        BY <2>1, <3>1 DEF LateInv
    <3>3. Test(r) \/ Read(r)
        BY <1>1, <3>2 DEF GetDBClients, Lock, Retest, CreateClient, Created, Install, Fail
    <3> QED
        BY <2>1, <3>2, <3>3 DEF Test, Read, Installed, CouchTypeOK
  <2>2. CASE q # r
    <3>1. pc'[q] = pc[q] /\ clients'[q] = clients[q]
        BY <1>1, <2>2
        DEF GetDBClients, Test, Lock, Retest, CreateClient, Created, Install, Fail, Read, CouchTypeOK
    <3>2. Installed'
        BY <1>1, <1>3, <3>1, InstalledStays DEF LateInv
    <3> QED
        BY <1>3, <3>1, <3>2 DEF LateInv
  <2> QED
      BY <2>1, <2>2
<1> QED
    BY <1>2, <1>3 DEF LateInv

\* A request that is answered outside GetDBClients, and dials no more, leaves the
\* list alone.
LEMMA Replied ==
    ASSUME HandlersInv, NEW r \in Requests, NEW s \in Statuses \ {"none"}, Reply(r, s),
           handler[r] # "replied", handler[r] = "idle" => r \notin late,
           UNCHANGED <<couchVars, late>>, answer' \in [Requests -> Answers],
           connected' \in SUBSET Peers, dials' = [dials EXCEPT ![r] = Nil]
    PROVE  HandlersInv'
<1> USE DEF HandlersInv, Reply
<1>1. CouchTypeOK' /\ CouchInv'
    BY DEF couchVars, CouchTypeOK, CouchInv, Holding, TypeOK
<1>2. TypeOK'
  <2>1. \A q \in Requests : response'[q] = "none" <=> handler'[q] # "replied"
      BY DEF TypeOK
  <2>2. /\ handler' \in [Requests -> {"idle", "DslQuery", "replied"} \cup PeerHandlers]
        /\ response' \in [Requests -> Statuses]
        /\ late' \in SUBSET Requests
      BY DEF TypeOK
  <2>3. /\ dials' \in [Requests -> Peers \cup {Nil}]
        /\ \A q \in Requests : dials'[q] # Nil => handler'[q] \in PeerHandlers
      BY DEF TypeOK
  <2> QED
      BY <1>1, <2>1, <2>2, <2>3 DEF TypeOK
<1>3. LateInv'
    BY DEF LateInv, couchVars, Installed, TypeOK
<1> QED
    BY <1>1, <1>2, <1>3

\* A request that does not dial changes nothing by not dialling.
LEMMA NotDialling ==
    ASSUME TypeOK, NEW r \in Requests, dials[r] = Nil
    PROVE  dials = [dials EXCEPT ![r] = Nil]
BY DEF TypeOK

\* The steps of a handler outside GetDBClients answer.
LEMMA ReplyStep ==
    ASSUME HandlersInv, NEW r \in Requests,
           NoClient(r) \/ QueryDocuments(r) \/ ClientsFailed(r) \/ PeerFails(r)
               \/ BlockQuery(r) \/ KeepaliveQuery(r)
    PROVE  HandlersInv'
<1> USE DEF BlockHandlers, PeerHandlers, Statuses, Answers
<1>1. UNCHANGED <<couchVars, connVars, late>>
    BY DEF NoClient, QueryDocuments, ClientsFailed, PeerFails, BlockQuery, KeepaliveQuery
<1>2. /\ handler[r] # "replied" /\ handler[r] # "idle" /\ dials[r] = Nil
      /\ \E s \in Statuses \ {"none"} : Reply(r, s)
  <2>1. CASE NoClient(r) \/ QueryDocuments(r) \/ ClientsFailed(r)
      BY <2>1 DEF NoClient, QueryDocuments, ClientsFailed, HandlersInv, TypeOK
  <2>2. CASE PeerFails(r)
      BY <2>2 DEF PeerFails, Asked
  <2>3. CASE BlockQuery(r) \/ KeepaliveQuery(r)
      BY <2>3 DEF BlockQuery, KeepaliveQuery, Asked
  <2> QED
      BY <2>1, <2>2, <2>3
<1>3. answer' \in [Requests -> Answers]
    BY DEF NoClient, QueryDocuments, ClientsFailed, PeerFails, BlockQuery, KeepaliveQuery,
           Dispatch, HandlersInv, TypeOK
<1>4. dials' = [dials EXCEPT ![r] = Nil] /\ connected' \in SUBSET Peers
    BY <1>1, <1>2, NotDialling DEF connVars, HandlersInv, TypeOK
<1> QED
    BY <1>1, <1>2, <1>3, <1>4, Replied

LEMMA NotAskedStep ==
    ASSUME HandlersInv, NEW r \in Requests, NotAsked(r) \/ DialFails(r)
    PROVE  HandlersInv'
<1> USE DEF BlockHandlers, PeerHandlers, Statuses
<1>1. UNCHANGED <<couchVars, connected, late, answer>>
    BY DEF NotAsked, DialFails, connVars
<1>2. \E s \in Statuses \ {"none"} : Reply(r, s)
    BY DEF NotAsked, DialFails
<1>3. dials' = [dials EXCEPT ![r] = Nil]
  <2>1. CASE NotAsked(r)
      BY <2>1, NotDialling DEF NotAsked, connVars, HandlersInv, TypeOK
  <2>2. CASE DialFails(r)
      BY <2>2 DEF DialFails
  <2> QED
      BY <2>1, <2>2
<1>4. handler[r] # "replied" /\ (handler[r] = "idle" => r \notin late)
    BY DEF NotAsked, DialFails, HandlersInv, LateInv, TypeOK
<1> QED
    BY <1>1, <1>2, <1>3, <1>4, Replied DEF HandlersInv, TypeOK

LEMMA DialStep ==
    ASSUME HandlersInv, NEW r \in Requests, Dial(r)
    PROVE  HandlersInv'
<1> USE DEF HandlersInv, Dial, handlerVars
<1>1. CouchTypeOK' /\ CouchInv'
    BY DEF couchVars, CouchTypeOK, CouchInv, Holding, TypeOK
<1>2. TypeOK'
    BY <1>1 DEF TypeOK
<1>3. LateInv'
    BY DEF LateInv, couchVars, Installed
<1> QED
    BY <1>1, <1>2, <1>3

LEMMA DslQueryStep ==
    ASSUME HandlersInv, NEW r \in Requests, DslQuery(r)
    PROVE  HandlersInv'
<1> USE DEF HandlersInv, BlockHandlers, PeerHandlers, Statuses
<1>1. CASE Call(r) /\ handler' = [handler EXCEPT ![r] = "DslQuery"]
           /\ late' = (IF Installed THEN late \cup {r} ELSE late) /\ UNCHANGED response
  <2>1. /\ pc' = [pc EXCEPT ![r] = "test"]
        /\ UNCHANGED <<pointer, length, holder, made, unstored, clients, response, answer>>
        /\ UNCHANGED <<connected, dials>>
        /\ handler[r] = "idle"
      BY <1>1 DEF Call, DslQuery, connVars
  <2>2. CouchTypeOK' /\ CouchInv'
    <3>1. CouchTypeOK'
        BY <2>1 DEF CouchTypeOK, TypeOK
    <3>2. pc[r] = "idle" /\ \A q \in Requests : q # r => pc'[q] = pc[q]
        BY <1>1 DEF Call, CouchTypeOK, TypeOK
    <3>3. pc'[r] = "test"
        BY <2>1 DEF CouchTypeOK, TypeOK
    <3> QED
        BY <2>1, <3>1, <3>2, <3>3 DEF CouchInv, Holding
  <2>3. TypeOK'
    <3>1. late' \in SUBSET Requests
        BY <1>1 DEF TypeOK
    <3>2. \A q \in Requests : response'[q] = "none" <=> handler'[q] # "replied"
        BY <1>1, <2>1 DEF TypeOK
    <3>3. handler' \in [Requests -> {"idle", "DslQuery", "replied"} \cup PeerHandlers]
        BY <1>1 DEF TypeOK
    <3>4. \A q \in Requests : dials[q] # Nil => handler'[q] \in PeerHandlers
        BY <1>1, <2>1 DEF TypeOK
    <3> QED
        BY <2>1, <2>2, <3>1, <3>2, <3>3, <3>4 DEF TypeOK
  <2>4. LateInv'
      BY <1>1, <2>1 DEF LateInv, Installed, TypeOK, CouchTypeOK
  <2> QED
      BY <2>2, <2>3, <2>4
<1>2. CASE (\E s \in {"204", "400"} : Reply(r, s)) /\ UNCHANGED <<couchVars, late>>
  <2>1. UNCHANGED <<connected, dials, answer>> /\ handler[r] = "idle" /\ r \notin late
      BY DEF DslQuery, connVars, LateInv
  <2>2. dials' = [dials EXCEPT ![r] = Nil]
      BY <2>1, NotDialling DEF TypeOK
  <2>3. /\ handler[r] # "replied" /\ (handler[r] = "idle" => r \notin late)
        /\ answer' \in [Requests -> Answers] /\ connected' \in SUBSET Peers
      BY <2>1 DEF TypeOK
  <2> QED
      BY <1>2, <2>2, <2>3, Replied
<1> QED
    BY <1>1, <1>2 DEF DslQuery

LEMMA AskPeerStep ==
    ASSUME HandlersInv, NEW r \in Requests, AskPeer(r)
    PROVE  HandlersInv'
<1> USE DEF HandlersInv, AskPeer, BlockHandlers, PeerHandlers
<1>1. PICK h \in PeerHandlers : handler' = [handler EXCEPT ![r] = h]
    OBVIOUS
<1>2. PICK p \in Peers \cup {Nil} : dials' = [dials EXCEPT ![r] = p]
    OBVIOUS
<1>3. CouchTypeOK' /\ CouchInv'
    BY DEF couchVars, CouchTypeOK, CouchInv, Holding, TypeOK
<1>4. TypeOK'
    BY <1>1, <1>2, <1>3 DEF TypeOK
<1>5. LateInv'
    BY <1>1 DEF LateInv, couchVars, Installed, TypeOK
<1> QED
    BY <1>3, <1>4, <1>5

LEMMA RestartStep ==
    ASSUME HandlersInv, Restart
    PROVE  HandlersInv'
<1> USE CouchAssumption DEF HandlersInv, Restart, Forget, Statuses
<1>1. CouchTypeOK'
    BY DEF CouchTypeOK, NoClients
<1>2. CouchInv'
    BY DEF CouchInv, NoClients, Holding
<1>3. TypeOK'
    BY <1>1 DEF TypeOK
<1>4. LateInv'
    BY DEF LateInv, TypeOK
<1> QED
    BY <1>2, <1>3, <1>4

\* Types, CouchInv and LateInv hold in every reachable state.
THEOREM Inductive == Spec => []HandlersInv
<1>1. Init => HandlersInv
    BY CouchAssumption
    DEF Init, CouchInit, HandlersInv, TypeOK, CouchTypeOK, CouchInv, LateInv, NoClients,
        Holding, Statuses, Answers, BlockHandlers, PeerHandlers
<1>2. HandlersInv /\ [Next]_vars => HandlersInv'
  <2> SUFFICES ASSUME HandlersInv, [Next]_vars PROVE HandlersInv'
      OBVIOUS
  <2>1. ASSUME NEW r \in Requests, DslQuery(r) PROVE HandlersInv'
      BY <2>1, DslQueryStep
  <2>2. ASSUME NEW r \in Requests, AskPeer(r) PROVE HandlersInv'
      BY <2>2, AskPeerStep
  <2>3. ASSUME NEW r \in Requests, GetClients(r) PROVE HandlersInv'
    <3>1. GetDBClients(r) /\ UNCHANGED <<connVars, handlerVars>>
        BY <2>3 DEF GetClients
    <3>2. CouchTypeOK' /\ CouchInv'
        BY <3>1, CouchType, CouchStep DEF HandlersInv, TypeOK
    <3>3. TypeOK'
        BY <3>1, <3>2 DEF connVars, handlerVars, HandlersInv, TypeOK
    <3> QED
        BY <2>3, <3>2, <3>3, LateStep DEF HandlersInv
  <2>4. ASSUME NEW r \in Requests,
               NoClient(r) \/ QueryDocuments(r) \/ ClientsFailed(r) \/ PeerFails(r)
                   \/ BlockQuery(r) \/ KeepaliveQuery(r)
        PROVE  HandlersInv'
      BY <2>4, ReplyStep
  <2>7. ASSUME NEW r \in Requests, NotAsked(r) \/ DialFails(r) PROVE HandlersInv'
      BY <2>7, NotAskedStep
  <2>8. ASSUME NEW r \in Requests, Dial(r) PROVE HandlersInv'
      BY <2>8, DialStep
  <2>5. CASE Restart
      BY <2>5, RestartStep
  <2>6. CASE UNCHANGED vars
      BY <2>6 DEF vars, couchVars, connVars, handlerVars, HandlersInv, TypeOK, CouchTypeOK, CouchInv,
                  LateInv, Installed, Holding
  <2> QED
      BY <2>1, <2>2, <2>3, <2>4, <2>5, <2>6, <2>7, <2>8 DEF Next, HandlerStep
<1> QED
    BY <1>1, <1>2, PTL DEF Spec

\* Every reachable state of ReadHandlers is well typed.
THEOREM Typing == Spec => []TypeOK
<1>1. HandlersInv => TypeOK
    BY DEF HandlersInv
<1> QED
    BY <1>1, Inductive, PTL

\* All requests of a process share one list of clients.
THEOREM OneListTheorem == Spec => []OneList
<1>1. HandlersInv => OneList
    BY DEF HandlersInv, CouchInv, OneList, Holders
<1> QED
    BY <1>1, Inductive, PTL

\* No request has a part of a list.
THEOREM HalfBuiltTheorem == Spec => []NeverHalfBuilt
<1>1. HandlersInv => NeverHalfBuilt
    BY DEF HandlersInv, CouchInv, NeverHalfBuilt
<1> QED
    BY <1>1, Inductive, PTL

\* A request that comes when the list is installed finds it complete.
THEOREM LateTheorem == Spec => []LateFindsList
<1>1. HandlersInv => LateFindsList
    BY DEF HandlersInv, LateInv, LateFindsList
<1> QED
    BY <1>1, Inductive, PTL
=============================================================================
