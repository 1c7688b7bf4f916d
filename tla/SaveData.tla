------------------------------ MODULE SaveData ------------------------------
(***************************************************************************)
(* POST /factor/saveData: the handler SaveData of the API server on top of *)
(* InvokeSpec (which Invoke implements), and the ledger the transactions   *)
(* end up in.  A request carries a batch of factors; the handler invokes   *)
(* the chaincode once per factor, in order, and stops at the first error.  *)
(*                                                                         *)
(* The k-th factor of request r is the transaction <<r, k>>.               *)
(***************************************************************************)
EXTENDS Naturals, Sequences

CONSTANTS
    Requests,       \* the HTTP requests of the run
    MaxBatch,       \* bound: factors in one request
    Keys,           \* what GetRandomString(6) may return
    NoKey           \* a factor the handler has not reached

ASSUME SaveDataAssumption ==
    /\ MaxBatch \in Nat
    /\ NoKey \notin Keys

Factors == Requests \X (1..MaxBatch)

VARIABLES
    handler,        \* where the handler of each request is
    size,           \* len(request)
    next,           \* the factor of the loop
    txIds,          \* the ids collected for the response
    response,       \* what the HTTP client saw
    fabricTxId,     \* the FabricTxId drawn for each factor, its ledger key
    status, submitted, log,     \* the state of InvokeSpec
    committed,      \* how many transactions of log the peers have committed
    ledger          \* the factor stored under each key

handlerVars == <<handler, size, next, txIds, response, fabricTxId>>
invokeVars == <<status, submitted, log>>
ledgerVars == <<committed, ledger>>
vars == <<handlerVars, invokeVars, ledgerVars>>

Invocation == INSTANCE InvokeSpec WITH Calls <- Factors

Ordered == Invocation!OrderedIn(log)

\* The ledger has nothing under the key.
Missing == <<>>

TypeOK ==
    /\ handler \in [Requests -> {"idle", "looping", "invoking", "replied"}]
    /\ size \in [Requests -> 0..MaxBatch]
    /\ next \in [Requests -> 1..(MaxBatch + 1)]
    /\ txIds \in [Requests -> Seq(Factors)]
    /\ response \in [Requests -> {"none", "ok", "error", "closed"}]
    /\ fabricTxId \in [Factors -> Keys \cup {NoKey}]
    /\ status \in [Factors -> Invocation!Statuses]
    /\ submitted \in SUBSET Factors
    /\ log \in Seq(Factors)
    /\ committed \in 0..Len(log)
    /\ ledger \in [Keys -> Factors \cup {Missing}]

Init ==
    /\ handler = [r \in Requests |-> "idle"]
    /\ size = [r \in Requests |-> 0]
    /\ next = [r \in Requests |-> 1]
    /\ txIds = [r \in Requests |-> <<>>]
    /\ response = [r \in Requests |-> "none"]
    /\ fabricTxId = [f \in Factors |-> NoKey]
    /\ Invocation!SpecInit
    /\ committed = 0
    /\ ledger = [k \in Keys |-> Missing]

-----------------------------------------------------------------------------
(* The handler                                                             *)

Reply(r, what) ==
    /\ handler' = [handler EXCEPT ![r] = "replied"]
    /\ response' = [response EXCEPT ![r] = what]

\* The body is read and parsed, or it is not an array of factors.
Receive(r) ==
    /\ handler[r] = "idle"
    /\ \/ /\ handler' = [handler EXCEPT ![r] = "looping"]
          /\ \E n \in 0..MaxBatch : size' = [size EXCEPT ![r] = n]
          /\ UNCHANGED response
       \/ /\ Reply(r, "error")
          /\ UNCHANGED size
    /\ UNCHANGED <<next, txIds, fabricTxId, invokeVars, ledgerVars>>

\* One factor: draw its FabricTxId, format the message (encryption may fail),
\* call Invoke.
StartFactor(r) ==
    /\ handler[r] = "looping"
    /\ next[r] <= size[r]
    /\ \E k \in Keys : fabricTxId' = [fabricTxId EXCEPT ![<<r, next[r]>>] = k]
    /\ \/ /\ Invocation!SpecBegin(<<r, next[r]>>)
          /\ handler' = [handler EXCEPT ![r] = "invoking"]
          /\ UNCHANGED response
       \/ /\ Reply(r, "error")
          /\ UNCHANGED invokeVars
    /\ UNCHANGED <<size, next, txIds, ledgerVars>>

\* Fault: a failed factor is skipped and the loop goes on.
InvokeReturnedSkip(r) ==
    /\ handler[r] = "invoking"
    /\ \/ /\ status[<<r, next[r]>>] = "success"
          /\ txIds' = [txIds EXCEPT ![r] = Append(@, <<r, next[r]>>)]
          /\ next' = [next EXCEPT ![r] = @ + 1]
          /\ handler' = [handler EXCEPT ![r] = "looping"]
          /\ UNCHANGED response
       \/ /\ status[<<r, next[r]>>] = "failed"
          /\ next' = [next EXCEPT ![r] = @ + 1]
          /\ handler' = [handler EXCEPT ![r] = "looping"]
          /\ UNCHANGED <<txIds, response>>
    /\ UNCHANGED <<size, fabricTxId, invokeVars, ledgerVars>>

\* Fault: a failed factor takes the loop a step back.
InvokeReturnedBack(r) ==
    /\ handler[r] = "invoking"
    /\ \/ /\ status[<<r, next[r]>>] = "success"
          /\ txIds' = [txIds EXCEPT ![r] = Append(@, <<r, next[r]>>)]
          /\ next' = [next EXCEPT ![r] = @ + 1]
       \/ /\ status[<<r, next[r]>>] = "failed"
          /\ next' = [next EXCEPT ![r] = @ - 1]
          /\ UNCHANGED txIds
    /\ handler' = [handler EXCEPT ![r] = "looping"]
    /\ UNCHANGED <<response, size, fabricTxId, invokeVars, ledgerVars>>

\* Fault: an error of Invoke is not answered.
InvokeReturnedSilent(r) ==
    /\ handler[r] = "invoking"
    /\ status[<<r, next[r]>>] = "success"
    /\ txIds' = [txIds EXCEPT ![r] = Append(@, <<r, next[r]>>)]
    /\ next' = [next EXCEPT ![r] = @ + 1]
    /\ handler' = [handler EXCEPT ![r] = "looping"]
    /\ UNCHANGED response
    /\ UNCHANGED <<size, fabricTxId, invokeVars, ledgerVars>>

InvokeReturned(r) ==
    /\ handler[r] = "invoking"
    /\ \/ /\ status[<<r, next[r]>>] = "success"
          /\ txIds' = [txIds EXCEPT ![r] = Append(@, <<r, next[r]>>)]
          /\ next' = [next EXCEPT ![r] = @ + 1]
          /\ handler' = [handler EXCEPT ![r] = "looping"]
          /\ UNCHANGED response
       \/ /\ status[<<r, next[r]>>] = "failed"
          /\ Reply(r, "error")
          /\ UNCHANGED <<txIds, next>>
    /\ UNCHANGED <<size, fabricTxId, invokeVars, ledgerVars>>

\* Fault: the loop ends one factor early.
FinishEarly(r) ==
    /\ handler[r] = "looping"
    /\ next[r] >= size[r]
    /\ Reply(r, "ok")
    /\ UNCHANGED <<size, next, txIds, fabricTxId, invokeVars, ledgerVars>>

Finish(r) ==
    /\ handler[r] = "looping"
    /\ next[r] > size[r]
    /\ Reply(r, "ok")
    /\ UNCHANGED <<size, next, txIds, fabricTxId, invokeVars, ledgerVars>>

\* The process dies with all its handlers; no request is resumed.
Crash ==
    /\ Invocation!SpecFail({f \in Factors : status[f] = "pending"})
    /\ handler' = [r \in Requests |->
            IF handler[r] \in {"looping", "invoking"} THEN "replied" ELSE handler[r]]
    /\ response' = [r \in Requests |->
            IF handler[r] \in {"looping", "invoking"} THEN "closed" ELSE response[r]]
    /\ UNCHANGED <<size, next, txIds, fabricTxId, ledgerVars>>

-----------------------------------------------------------------------------
(* The invocation of one factor, and the peers                             *)

\* The envelope of a pending call goes out; the orderer orders it, if it ever
\* does, before or after the call returned.
InvokeProgress(f) ==
    /\ Invocation!SpecSubmit(f) \/ Invocation!SpecOrder(f)
    /\ UNCHANGED <<handlerVars, ledgerVars>>

InvokeReturn(f) ==
    /\ status[f] = "pending"
    /\ Invocation!SpecSucceed(f) \/ Invocation!SpecFail({f})
    /\ UNCHANGED <<handlerVars, ledgerVars>>

\* The peers commit the next transaction: it writes the factor under its key
\* (PutState in the chaincode, which does not look at what is there), or it is
\* found invalid and writes nothing.  The key was sealed in the signed envelope
\* when the factor was begun: fabricTxId[f], drawn once and before that, is it.
Commit ==
    /\ committed < Len(log)
    /\ committed' = committed + 1
    /\ LET f == log[committed + 1] IN
        ledger' \in {ledger, [ledger EXCEPT ![fabricTxId[f]] = f]}
    /\ UNCHANGED <<handlerVars, invokeVars>>

HandlerStep(r) == Receive(r) \/ StartFactor(r) \/ InvokeReturned(r) \/ Finish(r)

Next ==
    \/ \E r \in Requests : HandlerStep(r)
    \/ \E f \in Factors : InvokeProgress(f) \/ InvokeReturn(f)
    \/ Crash
    \/ Commit

Spec == Init /\ [][Next]_vars

\* A handler runs to its end, and Invoke returns: CallsReturn of Invoke.
Fairness ==
    /\ \A r \in Requests : WF_vars(HandlerStep(r))
    /\ \A f \in Factors : WF_vars(InvokeReturn(f))

FairSpec == Spec /\ Fairness
-----------------------------------------------------------------------------
(* Properties                                                              *)

\* The positions of a request's transactions in the order.
Positions(r) == {n \in 1..Len(log) : log[n][1] = r}

\* The transactions of one request are ordered in the order of the batch, and
\* none is left out before another: the log holds a prefix of every batch, also
\* when an answer was lost or a transaction is ordered after the reply.
PrefixOrdered ==
    \A r \in Requests, k \in 1..MaxBatch, n \in 1..Len(log) :
        log[n] = <<r, k>> =>
            \A j \in 1..(k - 1) : \E m \in 1..(n - 1) : log[m] = <<r, j>>

\* Status 200 is returned only when every factor of the batch is ordered, and
\* the ids of the response are those of its transactions, in batch order.
OkMeansAllOrdered ==
    \A r \in Requests : response[r] = "ok" =>
        /\ txIds[r] = [k \in 1..size[r] |-> <<r, k>>]
        /\ \A k \in 1..size[r] : <<r, k>> \in Ordered

\* When a request fails, the factors stored without the client learning their
\* ids are those it had collected and at most the one that failed.
AtMostOneUnconfirmed ==
    \A f \in submitted : f[2] <= Len(txIds[f[1]]) + 1

\* FabricTxId is documented as a uuid (define/factor.go): no two factors share
\* one, so that no commit puts a factor in the place of another.
EntriesKept == [][\A k \in Keys : ledger[k] # Missing => ledger'[k] = ledger[k]]_vars

\* Every request is answered or cut off.
RequestsAnswered ==
    \A r \in Requests : handler[r] = "looping" ~> handler[r] = "replied"
=============================================================================
