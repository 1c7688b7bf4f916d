---------------------------- MODULE CouchClients ----------------------------
(***************************************************************************)
(* GetDBClients: the list of CouchDB clients that all requests of the API  *)
(* server share.  The first request that finds none creates it under a     *)
(* lock; the first test and the final read of the list take no lock.       *)
(*                                                                         *)
(* A Go slice is stored word by word and in no promised order, so a reader *)
(* without the lock may see the pointer of a list and not yet its length.  *)
(***************************************************************************)
EXTENDS Naturals

CONSTANTS
    Requests,       \* the requests that ask for the clients
    NumNodes,       \* entries of the section couchdb of the configuration
    Nil

ASSUME CouchAssumption ==
    /\ NumNodes \in Nat
    /\ Nil \notin Requests

VARIABLES
    pointer,        \* couchDBClients: the list, named by the request that made it
    length,         \* its length word
    holder,         \* the request that holds the lock m
    pc,             \* where each request is in GetDBClients
    made,           \* clients in the local list of innerCouchDBClients
    unstored,       \* words the lock holder has not stored yet
    clients         \* what GetDBClients returned: <<pointer, length>>

couchVars == <<pointer, length, holder, pc, made, unstored, clients>>

Words == {"pointer", "length"}
NoClients == <<Nil, 0>>

CouchTypeOK ==
    /\ pointer \in Requests \cup {Nil}
    /\ length \in 0..NumNodes
    /\ holder \in Requests \cup {Nil}
    /\ pc \in [Requests -> {"idle", "test", "lock", "retest", "create", "fail",
                            "install", "read", "have", "error"}]
    /\ made \in [Requests -> 0..NumNodes]
    /\ unstored \in SUBSET Words
    /\ clients \in [Requests -> (Requests \cup {Nil}) \X (0..NumNodes)]

CouchInit ==
    /\ pointer = Nil
    /\ length = 0
    /\ holder = Nil
    /\ pc = [r \in Requests |-> "idle"]
    /\ made = [r \in Requests |-> 0]
    /\ unstored = {}
    /\ clients = [r \in Requests |-> NoClients]

GoTo(r, where) == pc' = [pc EXCEPT ![r] = where]
-----------------------------------------------------------------------------

Call(r) ==
    /\ pc[r] = "idle"
    /\ GoTo(r, "test")
    /\ UNCHANGED <<pointer, length, holder, made, unstored, clients>>

\* couchDBClients == nil looks at the pointer, without the lock.
Test(r) ==
    /\ pc[r] = "test"
    /\ GoTo(r, IF pointer = Nil THEN "lock" ELSE "read")
    /\ UNCHANGED <<pointer, length, holder, made, unstored, clients>>

Lock(r) ==
    /\ pc[r] = "lock"
    /\ holder = Nil
    /\ holder' = r
    /\ GoTo(r, "retest")
    /\ UNCHANGED <<pointer, length, made, unstored, clients>>

\* Fault: the test is not repeated under the lock.
RetestSkipped(r) ==
    /\ pc[r] = "retest"
    /\ GoTo(r, "create")
    /\ made' = [made EXCEPT ![r] = 0]
    /\ UNCHANGED <<pointer, length, holder, unstored, clients>>

Retest(r) ==
    /\ pc[r] = "retest"
    /\ GoTo(r, IF pointer = Nil THEN "create" ELSE "read")
    /\ made' = [made EXCEPT ![r] = 0]
    /\ UNCHANGED <<pointer, length, holder, unstored, clients>>

\* Fault: a client is appended to the shared list at once.
CreateClientShared(r) ==
    /\ pc[r] = "create"
    /\ \/ /\ made[r] < NumNodes
          /\ made' = [made EXCEPT ![r] = @ + 1]
          /\ pointer' = r
          /\ length' = made[r] + 1
          /\ GoTo(r, IF made[r] + 1 = NumNodes THEN "read" ELSE "create")
       \/ GoTo(r, "fail") /\ UNCHANGED <<made, pointer, length>>
    /\ UNCHANGED <<holder, unstored, clients>>

\* innerCouchDBClients: read the configuration, then one client per node; each
\* creation asks the node, with retries and a timeout, and may fail.
CreateClient(r) ==
    /\ pc[r] = "create"
    /\ \/ /\ made[r] < NumNodes
          /\ made' = [made EXCEPT ![r] = @ + 1]
          /\ UNCHANGED pc
       \/ GoTo(r, "fail") /\ UNCHANGED made
    /\ UNCHANGED <<pointer, length, holder, unstored, clients>>

\* The list is complete; with no node in the configuration it is nil.
Created(r) ==
    /\ pc[r] = "create"
    /\ made[r] = NumNodes
    /\ GoTo(r, IF NumNodes = 0 THEN "read" ELSE "install")
    /\ unstored' = IF NumNodes = 0 THEN {} ELSE Words
    /\ UNCHANGED <<pointer, length, holder, made, clients>>

\* couchDBClients = the local list, one word.
Install(r) ==
    /\ pc[r] = "install"
    /\ \E w \in unstored :
        /\ unstored' = unstored \ {w}
        /\ pointer' = IF w = "pointer" THEN r ELSE pointer
        /\ length' = IF w = "length" THEN NumNodes ELSE length
        /\ GoTo(r, IF unstored = {w} THEN "read" ELSE "install")
    /\ UNCHANGED <<holder, made, clients>>

\* The deferred Unlock of a request that has the lock.
Unlock(r) == holder' = IF holder = r THEN Nil ELSE holder

\* Fault: the error return leaves the lock taken.
FailLocked(r) ==
    /\ pc[r] = "fail"
    /\ pointer' = Nil
    /\ length' = 0
    /\ GoTo(r, "error")
    /\ UNCHANGED <<holder, made, unstored, clients>>

\* The nil list of a failed creation is stored too, and the error returned.
Fail(r) ==
    /\ pc[r] = "fail"
    /\ pointer' = Nil
    /\ length' = 0
    /\ Unlock(r)
    /\ GoTo(r, "error")
    /\ UNCHANGED <<made, unstored, clients>>

\* return couchDBClients, with the lock or without it.
Read(r) ==
    /\ pc[r] = "read"
    /\ clients' = [clients EXCEPT ![r] = <<pointer, length>>]
    /\ Unlock(r)
    /\ GoTo(r, "have")
    /\ UNCHANGED <<pointer, length, made, unstored>>

GetDBClients(r) ==
    \/ Test(r) \/ Lock(r) \/ Retest(r)
    \/ CreateClient(r) \/ Created(r) \/ Install(r)
    \/ Fail(r) \/ Read(r)

\* The memory of the process is gone.
Forget ==
    /\ pointer' = Nil
    /\ length' = 0
    /\ holder' = Nil
    /\ pc' = [r \in Requests |-> "idle"]
    /\ made' = [r \in Requests |-> 0]
    /\ unstored' = {}
    /\ clients' = [r \in Requests |-> NoClients]
=============================================================================
