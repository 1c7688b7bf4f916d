----------------------------- MODULE InvokeSpec -----------------------------
(***************************************************************************)
(* What FabricClient.Invoke promises to its caller, without saying how.    *)
(*                                                                         *)
(* A call is one transaction.  It may be submitted to the ordering service *)
(* at most once, the service may order a submitted transaction at most     *)
(* once, and a caller that is told "success" holds the id of a transaction *)
(* that is in the order.  Nothing else is promised: a failed call may have *)
(* been ordered, or may still be ordered after the failure was reported,   *)
(* which is what the comment above Invoke leaves to "the SDK user".        *)
(***************************************************************************)
EXTENDS Naturals, Sequences

CONSTANT Calls      \* the transactions; newTransactionId makes ids unique

VARIABLES
    status,         \* what the caller of each transaction has seen
    submitted,      \* the transactions handed to the ordering service
    log             \* the transactions in the order the service chose

specVars == <<status, submitted, log>>

Statuses == {"idle", "pending", "success", "failed"}

\* The transactions that have been ordered.
OrderedIn(l) == {l[n] : n \in 1..Len(l)}

SpecInit ==
    /\ status = [i \in Calls |-> "idle"]
    /\ submitted = {}
    /\ log = <<>>

SpecBegin(i) ==
    /\ status[i] = "idle"
    /\ status' = [status EXCEPT ![i] = "pending"]
    /\ UNCHANGED <<submitted, log>>

SpecSubmit(i) ==
    /\ status[i] = "pending"
    /\ i \notin submitted
    /\ submitted' = submitted \cup {i}
    /\ UNCHANGED <<status, log>>

SpecOrder(i) ==
    /\ i \in submitted \ OrderedIn(log)
    /\ log' = Append(log, i)
    /\ UNCHANGED <<status, submitted>>

SpecSucceed(i) ==
    /\ status[i] = "pending"
    /\ i \in OrderedIn(log)
    /\ status' = [status EXCEPT ![i] = "success"]
    /\ UNCHANGED <<submitted, log>>

\* One call fails, or all pending calls fail together when the process dies.
\* An idle call can fail at once: its arguments are refused.
SpecFail(I) ==
    /\ \A i \in I : status[i] \in {"idle", "pending"}
    /\ status' = [i \in Calls |-> IF i \in I THEN "failed" ELSE status[i]]
    /\ UNCHANGED <<submitted, log>>

SpecNext ==
    \/ \E i \in Calls : SpecBegin(i) \/ SpecSubmit(i) \/ SpecOrder(i) \/ SpecSucceed(i)
    \/ \E I \in SUBSET Calls : SpecFail(I)

Spec == SpecInit /\ [][SpecNext]_specVars
=============================================================================
