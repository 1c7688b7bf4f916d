--------------------------- MODULE SaveDataProofs ---------------------------
(***************************************************************************)
(* Proofs about SaveData, for any number of requests and factors: what is  *)
(* ordered of a batch, and what the response says of it.                   *)
(***************************************************************************)
EXTENDS SaveData, SequenceTheorems, TLAPS

\* The loop of a handler: it collects one id per factor, and only a handler that
\* is past the last factor answers "ok".
LoopOf(r) ==
    /\ next[r] <= size[r] + 1
    /\ handler[r] = "idle" => next[r] = 1
    /\ handler[r] = "invoking" => next[r] <= size[r]
    /\ response[r] = "ok" => handler[r] = "replied" /\ next[r] > size[r]
    /\ txIds[r] = [k \in 1..(next[r] - 1) |-> <<r, k>>]

LoopInv == \A r \in Requests : LoopOf(r)

\* The factors before next were invoked with success, those after it were not
\* invoked, and only a handler that waits has a pending one.
CallOf(r, k) ==
    /\ k < next[r] => status[<<r, k>>] = "success"
    /\ k > next[r] => status[<<r, k>>] = "idle"
    /\ k = next[r] /\ handler[r] \in {"idle", "looping"} => status[<<r, k>>] = "idle"
    /\ status[<<r, k>>] = "pending" => handler[r] = "invoking"

CallsInv == \A r \in Requests, k \in 1..MaxBatch : CallOf(r, k)

\* What InvokeSpec keeps: a success is ordered, and what is ordered was begun.
OrderInv ==
    /\ \A f \in Factors : status[f] = "success" => f \in Ordered
    /\ Ordered \subseteq submitted
    /\ \A f \in submitted : status[f] # "idle"

SaveInv ==
    /\ TypeOK
    /\ LoopInv
    /\ CallsInv
    /\ OrderInv
    /\ PrefixOrdered

LEMMA FactorType ==
    /\ \A r \in Requests, k \in 1..MaxBatch : <<r, k>> \in Factors
    /\ \A f \in Factors :
        /\ f[1] \in Requests /\ f[2] \in 1..MaxBatch
        /\ f = <<f[1], f[2]>>
BY DEF Factors

\* The log of the ordering service as a sequence.
LEMMA LogType ==
    ASSUME TypeOK
    PROVE  /\ Len(log) \in Nat
           /\ \A n \in 1..Len(log) : log[n] \in Factors /\ log[n] \in Ordered
           /\ \A f \in Ordered : \E n \in 1..Len(log) : log[n] = f
           /\ Ordered \subseteq Factors
BY LenProperties, ElementOfSeq DEF TypeOK, Ordered, Invocation!OrderedIn

LEMMA PrefixKept ==
    ASSUME PrefixOrdered, log' = log
    PROVE  PrefixOrdered'
<1> SUFFICES ASSUME NEW r \in Requests, NEW k \in 1..MaxBatch, NEW n \in 1..Len(log'),
                    log'[n] = <<r, k>>, NEW j \in 1..(k - 1)
             PROVE  \E m \in 1..(n - 1) : log'[m] = <<r, j>>
    BY Zenon DEF PrefixOrdered
<1>1. n \in 1..Len(log) /\ log[n] = <<r, k>>
    OBVIOUS
<1>2. PICK m \in 1..(n - 1) : log[m] = <<r, j>>
    BY <1>1, Zenon DEF PrefixOrdered
<1> QED
    BY <1>2

LEMMA HandlersKept ==
    ASSUME LoopInv, CallsInv, UNCHANGED handlerVars, status' = status
    PROVE  LoopInv' /\ CallsInv'
<1> USE DEF handlerVars
<1>1. ASSUME NEW r \in Requests PROVE LoopOf(r)'
    BY DEF LoopInv, LoopOf
<1>2. ASSUME NEW r \in Requests, NEW k \in 1..MaxBatch PROVE CallOf(r, k)'
    BY DEF CallsInv, CallOf
<1> QED
    BY <1>1, <1>2 DEF LoopInv, CallsInv

LEMMA OrderKept ==
    ASSUME OrderInv, UNCHANGED invokeVars
    PROVE  OrderInv'
BY DEF OrderInv, invokeVars, Ordered, Invocation!OrderedIn

\* A handler that starts its loop, or is through with it, waits for no call.
LEMMA CallsKept ==
    ASSUME TypeOK, CallsInv, NEW r \in Requests, NEW h \in {"looping", "replied"},
           handler' = [handler EXCEPT ![r] = h], UNCHANGED <<next, status>>,
           h = "looping" => handler[r] = "idle",
           \A k \in 1..MaxBatch : status[<<r, k>>] # "pending"
    PROVE  CallsInv'
<1>1. next' = next /\ status' = status
    OBVIOUS
<1>2. \A q \in Requests : handler'[q] = IF q = r THEN h ELSE handler[q]
    BY DEF TypeOK
<1>3. \A q \in Requests : handler'[q] = "looping" => handler[q] \in {"idle", "looping"}
    BY <1>2
<1>4. \A q \in Requests : handler'[q] = "idle" => handler[q] = "idle"
    BY <1>2
<1>5. ASSUME NEW q \in Requests, NEW j \in 1..MaxBatch, status[<<q, j>>] = "pending"
      PROVE  handler'[q] = "invoking"
    BY <1>2, <1>5 DEF CallsInv, CallOf
<1>6. ASSUME NEW q \in Requests, NEW j \in 1..MaxBatch
      PROVE  /\ j < next[q] => status[<<q, j>>] = "success"
             /\ j > next[q] => status[<<q, j>>] = "idle"
             /\ j = next[q] /\ handler[q] \in {"idle", "looping"} => status[<<q, j>>] = "idle"
    BY DEF CallsInv, CallOf
<1>7. ASSUME NEW q \in Requests, NEW j \in 1..MaxBatch,
             j = next[q], handler'[q] \in {"idle", "looping"}
      PROVE  status[<<q, j>>] = "idle"
    BY <1>3, <1>4, <1>6, <1>7
<1> HIDE DEF CallsInv, CallOf
<1> QED
    BY ONLY <1>1, <1>5, <1>6, <1>7 DEF CallsInv, CallOf

LEMMA ReceiveStep ==
    ASSUME SaveInv, NEW r \in Requests, Receive(r)
    PROVE  SaveInv'
<1> USE SaveDataAssumption DEF SaveInv, Receive, Reply, invokeVars, ledgerVars
<1>1. TypeOK'
  <2>1. /\ handler' \in [Requests -> {"idle", "looping", "invoking", "replied"}]
        /\ response' \in [Requests -> {"none", "ok", "error", "closed"}]
      BY DEF TypeOK
  <2>2. size' \in [Requests -> 0..MaxBatch]
      BY DEF TypeOK
  <2>3. UNCHANGED <<next, txIds, fabricTxId, invokeVars, ledgerVars>>
      OBVIOUS
  <2> QED
      BY ONLY TypeOK, <2>1, <2>2, <2>3 DEF TypeOK, invokeVars, ledgerVars
<1>2. LoopInv'
  <2>1. next[r] = 1 /\ response[r] # "ok"
      BY DEF LoopInv, LoopOf
  <2>2. size'[r] \in Nat /\ handler'[r] \in {"looping", "replied"} /\ response'[r] # "ok"
      BY <2>1 DEF TypeOK
  <2>3. /\ UNCHANGED <<next, txIds>>
        /\ \A q \in Requests \ {r} : /\ size'[q] = size[q] /\ handler'[q] = handler[q]
                                     /\ response'[q] = response[q]
      BY DEF TypeOK
  <2> QED
      BY ONLY LoopInv, <2>1, <2>2, <2>3 DEF LoopInv, LoopOf
<1>3. CallsInv'
  <2>1. \A k \in 1..MaxBatch : status[<<r, k>>] # "pending"
      BY DEF CallsInv, CallOf
  <2>2. PICK h \in {"looping", "replied"} : handler' = [handler EXCEPT ![r] = h]
      OBVIOUS
  <2>3. handler[r] = "idle" /\ UNCHANGED <<next, status>>
      OBVIOUS
  <2> QED
      BY <2>1, <2>2, <2>3, CallsKept
<1> QED
    BY <1>1, <1>2, <1>3, OrderKept, PrefixKept

LEMMA FinishStep ==
    ASSUME SaveInv, NEW r \in Requests, Finish(r)
    PROVE  SaveInv'
<1> USE SaveDataAssumption DEF SaveInv, Finish, Reply, invokeVars, ledgerVars
<1>1. TypeOK'
    BY DEF TypeOK
<1>2. LoopInv'
  <2>1. handler'[r] = "replied" /\ next[r] > size[r]
      BY DEF TypeOK
  <2>2. /\ UNCHANGED <<next, txIds, size>>
        /\ \A q \in Requests \ {r} : handler'[q] = handler[q] /\ response'[q] = response[q]
      BY DEF TypeOK
  <2> QED
      BY ONLY LoopInv, <2>1, <2>2 DEF LoopInv, LoopOf
<1>3. CallsInv'
  <2>1. \A k \in 1..MaxBatch : status[<<r, k>>] # "pending"
      BY DEF CallsInv, CallOf
  <2>2. handler' = [handler EXCEPT ![r] = "replied"] /\ UNCHANGED <<next, status>>
      OBVIOUS
  <2> QED
      BY <2>1, <2>2, CallsKept
<1> QED
    BY <1>1, <1>2, <1>3, OrderKept, PrefixKept

LEMMA StartFactorStep ==
    ASSUME SaveInv, NEW r \in Requests, StartFactor(r)
    PROVE  SaveInv'
<1> DEFINE f == <<r, next[r]>>
<1> USE SaveDataAssumption DEF SaveInv, ledgerVars
<1>1. next[r] \in 1..MaxBatch /\ f \in Factors
    BY FactorType DEF StartFactor, TypeOK
<1>2. handler[r] = "looping" /\ status[f] = "idle"
    BY <1>1 DEF StartFactor, CallsInv, CallOf
<1>3. PICK k \in Keys : fabricTxId' = [fabricTxId EXCEPT ![f] = k]
    BY DEF StartFactor
<1>4. UNCHANGED <<size, next, txIds, log, submitted, ledgerVars>>
    BY DEF StartFactor, Invocation!SpecBegin, invokeVars
<1>5. PrefixOrdered'
    BY <1>4, PrefixKept
<1>6. CASE /\ status' = [status EXCEPT ![f] = "pending"]
           /\ handler' = [handler EXCEPT ![r] = "invoking"] /\ UNCHANGED response
  <2>1. TypeOK'
      BY <1>1, <1>3, <1>4, <1>6 DEF TypeOK, Invocation!Statuses
  <2>2. LoopInv'
      BY <1>2, <1>4, <1>6 DEF LoopInv, LoopOf, TypeOK, StartFactor
  <2>3. CallsInv'
    <3> SUFFICES ASSUME NEW q \in Requests, NEW j \in 1..MaxBatch
                 PROVE  CallOf(q, j)'
        BY DEF CallsInv
    <3>1. CASE q = r /\ j = next[r]
        BY <1>1, <1>4, <1>6, <3>1 DEF TypeOK, CallOf
    <3>2. CASE ~(q = r /\ j = next[r])
      <4>1. status'[<<q, j>>] = status[<<q, j>>]
          BY <1>6, <3>2, FactorType DEF TypeOK
      <4>2. handler'[q] = IF q = r THEN "invoking" ELSE handler[q]
          BY <1>6 DEF TypeOK
      <4> QED
          BY <1>4, <4>1, <4>2 DEF CallsInv, CallOf
    <3> QED
        BY <3>1, <3>2
  <2>4. OrderInv'
      BY <1>1, <1>2, <1>4, <1>6 DEF OrderInv, TypeOK, Ordered, Invocation!OrderedIn
  <2> QED
      BY <1>5, <2>1, <2>2, <2>3, <2>4
<1>7. CASE Reply(r, "error") /\ UNCHANGED invokeVars
  <2>1. TypeOK'
      BY <1>1, <1>3, <1>4, <1>7 DEF TypeOK, Reply, invokeVars
  <2>2. LoopInv'
      BY <1>2, <1>4, <1>7 DEF LoopInv, LoopOf, TypeOK, Reply
  <2>3. CallsInv'
    <3>1. \A j \in 1..MaxBatch : status[<<r, j>>] # "pending"
        BY <1>2 DEF CallsInv, CallOf
    <3>2. handler' = [handler EXCEPT ![r] = "replied"] /\ UNCHANGED <<next, status>>
        BY <1>4, <1>7 DEF Reply, invokeVars
    <3> QED
        BY <3>1, <3>2, CallsKept
  <2>4. OrderInv'
      BY <1>7, OrderKept
  <2> QED
      BY <1>5, <2>1, <2>2, <2>3, <2>4
<1> QED
    BY <1>6, <1>7 DEF StartFactor, Invocation!SpecBegin

LEMMA OneMoreId ==
    ASSUME NEW r, NEW n \in Nat
    PROVE  Append([k \in 1..n |-> <<r, k>>], <<r, n + 1>>) = [k \in 1..(n + 1) |-> <<r, k>>]
<1> DEFINE s == [k \in 1..n |-> <<r, k>>]
           t == [k \in 1..(n + 1) |-> <<r, k>>]
           S == {<<r, k>> : k \in 1..(n + 1)}
<1>1. s \in Seq(S) /\ t \in Seq(S) /\ Len(s) = n /\ Len(t) = n + 1
    OBVIOUS
<1>2. /\ Append(s, <<r, n + 1>>) \in Seq(S)
      /\ Len(Append(s, <<r, n + 1>>)) = n + 1
      /\ \A k \in 1..n : Append(s, <<r, n + 1>>)[k] = s[k]
      /\ Append(s, <<r, n + 1>>)[n + 1] = <<r, n + 1>>
    BY <1>1, AppendProperties
<1>3. \A k \in 1..(n + 1) : Append(s, <<r, n + 1>>)[k] = t[k]
  <2>1. \A k \in 1..(n + 1) : k \in 1..n \/ k = n + 1
      OBVIOUS
  <2> QED
      BY <1>2, <2>1
<1> HIDE DEF s, t, S
<1>4. Append(s, <<r, n + 1>>) = t
    BY <1>1, <1>2, <1>3, SeqEqual
<1> QED
    BY <1>4 DEF s, t

LEMMA InvokeReturnedStep ==
    ASSUME SaveInv, NEW r \in Requests, InvokeReturned(r)
    PROVE  SaveInv'
<1> DEFINE f == <<r, next[r]>>
<1> USE SaveDataAssumption DEF SaveInv
<1>1. next[r] \in 1..MaxBatch /\ next[r] <= size[r] /\ f \in Factors /\ handler[r] = "invoking"
    BY FactorType DEF InvokeReturned, TypeOK, LoopInv, LoopOf
<1>2. UNCHANGED <<size, fabricTxId, invokeVars, ledgerVars>>
    BY DEF InvokeReturned
<1>3. PrefixOrdered' /\ OrderInv'
    BY <1>2, OrderKept, PrefixKept DEF invokeVars
<1>4. CASE /\ status[f] = "success"
           /\ txIds' = [txIds EXCEPT ![r] = Append(@, f)]
           /\ next' = [next EXCEPT ![r] = @ + 1]
           /\ handler' = [handler EXCEPT ![r] = "looping"]
           /\ UNCHANGED response
  <2>1. TypeOK'
      BY <1>1, <1>2, <1>4, AppendProperties DEF TypeOK, invokeVars, ledgerVars
  <2>2. next'[r] = next[r] + 1 /\ \A q \in Requests \ {r} : next'[q] = next[q]
      BY <1>4 DEF TypeOK
  <2>3. LoopInv'
    <3>1. txIds'[r] = [k \in 1..next[r] |-> <<r, k>>]
      <4> DEFINE n == next[r] - 1
      <4>1. txIds[r] = [k \in 1..n |-> <<r, k>>] /\ n \in Nat /\ next[r] = n + 1
          BY <1>1 DEF LoopInv, LoopOf
      <4>2. txIds'[r] = Append(txIds[r], <<r, n + 1>>)
          BY <1>4, <4>1 DEF TypeOK
      <4> HIDE DEF n
      <4>3. txIds'[r] = [k \in 1..(n + 1) |-> <<r, k>>]
        <5>1. Append([k \in 1..n |-> <<r, k>>], <<r, n + 1>>) = [k \in 1..(n + 1) |-> <<r, k>>]
            BY <4>1, OneMoreId
        <5> QED
            BY <4>1, <4>2, <5>1, Zenon
      <4> QED
          BY <4>1, <4>3
    <3>2. ASSUME NEW q \in Requests
          PROVE  LoopOf(q)'
      <4>1. CASE q = r
        <5>1. next'[r] - 1 = next[r] /\ next[r] \in Int
            BY <1>1, <2>2
        <5>2. handler'[r] = "looping" /\ response[r] # "ok"
            BY <1>1, <1>4 DEF LoopInv, LoopOf, TypeOK
        <5>3. next'[r] <= size[r] + 1
            BY <1>1, <2>2 DEF TypeOK
        <5>4. txIds'[r] = [k \in 1..(next'[r] - 1) |-> <<r, k>>]
            BY <3>1, <5>1, Zenon
        <5> QED
            BY <1>2, <1>4, <4>1, <5>2, <5>3, <5>4, Zenon DEF LoopOf
      <4>2. CASE q # r
          BY <1>2, <1>4, <2>2, <4>2 DEF LoopInv, LoopOf, TypeOK
      <4> QED
          BY <4>1, <4>2
    <3> QED
        BY <1>2, <1>4, <3>2 DEF LoopInv, LoopOf
  <2>4. CallsInv'
    <3> SUFFICES ASSUME NEW q \in Requests, NEW j \in 1..MaxBatch
                 PROVE  CallOf(q, j)'
        BY DEF CallsInv
    <3>1. CASE q = r
      <4>1. next[r] \in Int
          BY <1>1
      <4> QED
          BY <1>1, <1>2, <1>4, <2>2, <3>1, <4>1 DEF CallsInv, CallOf, invokeVars
    <3>2. CASE q # r
        BY <1>2, <1>4, <2>2, <3>2 DEF CallsInv, CallOf, TypeOK, invokeVars
    <3> QED
        BY <3>1, <3>2
  <2> QED
      BY <1>3, <2>1, <2>3, <2>4
<1>5. CASE status[f] = "failed" /\ Reply(r, "error") /\ UNCHANGED <<txIds, next>>
  <2>1. TypeOK'
      BY <1>1, <1>2, <1>5 DEF TypeOK, Reply, invokeVars, ledgerVars
  <2>2. LoopInv'
      BY <1>1, <1>2, <1>5 DEF LoopInv, LoopOf, TypeOK, Reply
  <2>3. CallsInv'
    <3>1. \A k \in 1..MaxBatch : status[<<r, k>>] # "pending"
      <4>1. \A k \in 1..MaxBatch : k # next[r] => status[<<r, k>>] # "pending"
          BY <1>1 DEF CallsInv, CallOf
      <4> QED
          BY <1>5, <4>1
    <3>2. handler' = [handler EXCEPT ![r] = "replied"] /\ UNCHANGED <<next, status>>
        BY <1>2, <1>5 DEF Reply, invokeVars
    <3> QED
        BY <3>1, <3>2, CallsKept
  <2> QED
      BY <1>3, <2>1, <2>2, <2>3
<1> QED
    BY <1>4, <1>5 DEF InvokeReturned

LEMMA CrashStep ==
    ASSUME SaveInv, Crash
    PROVE  SaveInv'
<1> USE SaveDataAssumption DEF SaveInv
<1>1. /\ status' = [f \in Factors |-> IF status[f] = "pending" THEN "failed" ELSE status[f]]
      /\ UNCHANGED <<submitted, log, size, next, txIds, fabricTxId, ledgerVars>>
    BY DEF Crash, Invocation!SpecFail
<1>2. /\ handler' = [r \in Requests |->
             IF handler[r] \in {"looping", "invoking"} THEN "replied" ELSE handler[r]]
      /\ response' = [r \in Requests |->
             IF handler[r] \in {"looping", "invoking"} THEN "closed" ELSE response[r]]
    BY DEF Crash
<1>3. TypeOK'
    BY <1>1, <1>2 DEF TypeOK, ledgerVars, Invocation!Statuses
<1>4. LoopInv'
    BY <1>1, <1>2 DEF LoopInv, LoopOf, TypeOK
<1>5. CallsInv'
  <2> SUFFICES ASSUME NEW q \in Requests, NEW j \in 1..MaxBatch
               PROVE  CallOf(q, j)'
      BY DEF CallsInv
  <2>1. status'[<<q, j>>] =
            IF status[<<q, j>>] = "pending" THEN "failed" ELSE status[<<q, j>>]
      BY <1>1, FactorType
  <2> QED
      BY <1>1, <1>2, <2>1 DEF CallsInv, CallOf
<1>6. OrderInv'
    BY <1>1 DEF OrderInv, TypeOK, Ordered, Invocation!OrderedIn
<1> QED
    BY <1>1, <1>3, <1>4, <1>5, <1>6, PrefixKept

LEMMA SubmitStep ==
    ASSUME SaveInv, NEW f \in Factors, Invocation!SpecSubmit(f),
           UNCHANGED <<handlerVars, ledgerVars>>
    PROVE  SaveInv'
<1> USE DEF SaveInv, Invocation!SpecSubmit, handlerVars, ledgerVars
<1>1. TypeOK'
    BY DEF TypeOK
<1>2. LoopInv' /\ CallsInv'
    BY HandlersKept
<1>3. OrderInv'
  <2>1. Ordered' = Ordered
      BY DEF Ordered, Invocation!OrderedIn
  <2>2. status[f] # "idle"
      OBVIOUS
  <2> QED
      BY <2>1, <2>2 DEF OrderInv
<1> QED
    BY <1>1, <1>2, <1>3, PrefixKept

LEMMA OrderStep ==
    ASSUME SaveInv, NEW f \in Factors, Invocation!SpecOrder(f),
           UNCHANGED <<handlerVars, ledgerVars>>
    PROVE  SaveInv'
<1> USE DEF SaveInv, handlerVars, ledgerVars
<1>1. /\ f \in submitted /\ log' = Append(log, f)
      /\ UNCHANGED <<status, submitted>>
    BY DEF Invocation!SpecOrder
<1>2. /\ log' \in Seq(Factors) /\ Len(log') = Len(log) + 1 /\ Len(log) \in Nat
      /\ \A n \in 1..Len(log) : log'[n] = log[n]
      /\ log'[Len(log) + 1] = f
    BY <1>1, AppendProperties, LenProperties DEF TypeOK
<1>3. TypeOK'
    BY <1>1, <1>2 DEF TypeOK
<1>4. LoopInv' /\ CallsInv'
    BY <1>1, HandlersKept
<1>5. OrderInv'
  <2>1. Ordered \subseteq Ordered'
      BY <1>2 DEF Ordered, Invocation!OrderedIn
  <2>2. Ordered' \subseteq Ordered \cup {f}
      BY <1>2 DEF Ordered, Invocation!OrderedIn
  <2> QED
      BY <1>1, <2>1, <2>2 DEF OrderInv
<1>6. PrefixOrdered'
  <2> SUFFICES ASSUME NEW r \in Requests, NEW k \in 1..MaxBatch, NEW n \in 1..Len(log'),
                      log'[n] = <<r, k>>, NEW j \in 1..(k - 1)
               PROVE  \E m \in 1..(n - 1) : log'[m] = <<r, j>>
      BY DEF PrefixOrdered
  <2>1. CASE n \in 1..Len(log)
    <3>1. PICK m \in 1..(n - 1) : log[m] = <<r, j>>
        BY <1>2, <2>1 DEF PrefixOrdered
    <3>2. m \in 1..Len(log)
        BY <1>2, <2>1
    <3> QED
        BY <1>2, <3>1, <3>2
  <2>2. CASE n = Len(log) + 1
    <3>1. f = <<r, k>> /\ status[<<r, k>>] # "idle"
        BY <1>1, <1>2, <2>2 DEF OrderInv
    <3>2. j \in 1..MaxBatch /\ j < k /\ k <= next[r] /\ next[r] \in Nat
        BY <3>1, SaveDataAssumption DEF CallsInv, CallOf, TypeOK
    <3>3. status[<<r, j>>] = "success" /\ <<r, j>> \in Factors
        BY <3>2, FactorType DEF CallsInv, CallOf
    <3>4. PICK m \in 1..Len(log) : log[m] = <<r, j>>
        BY <3>3, LogType DEF OrderInv
    <3> QED
        BY <1>2, <2>2, <3>4
  <2>3. n \in 1..Len(log) \/ n = Len(log) + 1
      BY <1>2
  <2> QED
      BY <2>1, <2>2, <2>3
<1> QED
    BY <1>3, <1>4, <1>5, <1>6

LEMMA ReturnStep ==
    ASSUME SaveInv, NEW f \in Factors, InvokeReturn(f)
    PROVE  SaveInv'
<1> USE DEF SaveInv, handlerVars, ledgerVars
<1>1. /\ status[f] = "pending"
      /\ UNCHANGED <<submitted, log, handlerVars, ledgerVars>>
    BY DEF InvokeReturn, Invocation!SpecSucceed, Invocation!SpecFail
<1>2. PICK s \in {"success", "failed"} :
        status' = [status EXCEPT ![f] = s] /\ (s = "success" => f \in Ordered)
    BY DEF InvokeReturn, Invocation!SpecSucceed, Invocation!SpecFail, TypeOK, Ordered
<1>3. TypeOK'
    BY <1>1, <1>2 DEF TypeOK, Invocation!Statuses
<1>4. LoopInv'
    BY <1>1 DEF LoopInv, LoopOf
<1>5. CallsInv'
  <2> SUFFICES ASSUME NEW q \in Requests, NEW j \in 1..MaxBatch
               PROVE  CallOf(q, j)'
      BY DEF CallsInv
  <2>1. CASE <<q, j>> = f
    <3>1. j = next[q] /\ handler[q] = "invoking"
        BY <1>1, <2>1 DEF CallsInv, CallOf, TypeOK
    <3>2. status'[<<q, j>>] \in {"success", "failed"}
        BY <1>2, <2>1 DEF TypeOK
    <3>3. next[q] \in Nat
        BY SaveDataAssumption DEF TypeOK
    <3> QED
        BY <1>1, <3>1, <3>2, <3>3 DEF CallOf
  <2>2. CASE <<q, j>> # f
    <3>1. status'[<<q, j>>] = status[<<q, j>>]
        BY <1>2, <2>2, FactorType DEF TypeOK
    <3> QED
        BY <1>1, <3>1 DEF CallsInv, CallOf
  <2> QED
      BY <2>1, <2>2
<1>6. OrderInv'
    BY <1>1, <1>2 DEF OrderInv, TypeOK, Ordered, Invocation!OrderedIn
<1> QED
    BY <1>1, <1>3, <1>4, <1>5, <1>6, PrefixKept

LEMMA CommitStep ==
    ASSUME SaveInv, Commit
    PROVE  SaveInv'
<1> DEFINE f == log[committed + 1]
<1> USE DEF SaveInv, Commit, handlerVars, invokeVars
<1>1. committed \in Nat /\ committed + 1 \in 1..Len(log) /\ f \in Factors
  <2>1. committed \in Nat /\ committed + 1 \in 1..Len(log)
      BY LogType DEF TypeOK
  <2> QED
      BY <2>1, LogType
<1>2. TypeOK'
  <2>1. committed' \in 0..Len(log) /\ UNCHANGED <<handlerVars, invokeVars>>
      BY <1>1, LogType
  <2>2. ledger' \in [Keys -> Factors \cup {Missing}]
    <3> HIDE DEF f
    <3> QED
        BY <1>1 DEF TypeOK, f
  <2> QED
      BY <2>1, <2>2 DEF TypeOK
<1>3. LoopInv' /\ CallsInv' /\ PrefixOrdered'
  <2>1. UNCHANGED handlerVars /\ status' = status /\ log' = log
      OBVIOUS
  <2> QED
      BY <2>1, HandlersKept, PrefixKept
<1> QED
    BY <1>2, <1>3, OrderKept
-----------------------------------------------------------------------------

LEMMA InitInv == Init => SaveInv
<1> SUFFICES ASSUME Init PROVE SaveInv
    OBVIOUS
<1> USE SaveDataAssumption DEF Init, Invocation!SpecInit
<1>1. TypeOK
    BY DEF TypeOK, Invocation!Statuses
<1>2. LoopInv
  <2>1. ASSUME NEW r \in Requests PROVE txIds[r] = [k \in 1..(next[r] - 1) |-> <<r, k>>]
    <3>1. txIds[r] = <<>> /\ 1..(next[r] - 1) = {}
        OBVIOUS
    <3> QED
        BY <3>1
  <2>2. \A r \in Requests :
            next[r] = 1 /\ size[r] = 0 /\ handler[r] = "idle" /\ response[r] = "none"
      OBVIOUS
  <2>3. ASSUME NEW r \in Requests
        PROVE  /\ next[r] <= size[r] + 1
               /\ handler[r] # "invoking" /\ response[r] # "ok"
    <3>1. next[r] = 1 /\ size[r] = 0 /\ handler[r] = "idle" /\ response[r] = "none"
        BY <2>2
    <3> QED
        BY ONLY <3>1
  <2> QED
      BY ONLY <2>1, <2>2, <2>3 DEF LoopInv, LoopOf
<1>3. CallsInv
  <2>1. \A r \in Requests, k \in 1..MaxBatch : status[<<r, k>>] = "idle" /\ next[r] = 1
      BY FactorType
  <2>2. \A k \in 1..MaxBatch : ~(k < 1)
      BY SaveDataAssumption
  <2> QED
      BY ONLY <2>1, <2>2 DEF CallsInv, CallOf
<1>4. OrderInv /\ PrefixOrdered
    BY DEF OrderInv, Ordered, Invocation!OrderedIn, PrefixOrdered
<1> QED
    BY <1>1, <1>2, <1>3, <1>4 DEF SaveInv

LEMMA NextInv == SaveInv /\ [Next]_vars => SaveInv'
<1> SUFFICES ASSUME SaveInv, [Next]_vars PROVE SaveInv'
    OBVIOUS
<1>1. ASSUME NEW r \in Requests, HandlerStep(r) PROVE SaveInv'
    BY <1>1, ReceiveStep, StartFactorStep, InvokeReturnedStep, FinishStep DEF HandlerStep
<1>2. ASSUME NEW f \in Factors, InvokeProgress(f) \/ InvokeReturn(f) PROVE SaveInv'
    BY <1>2, SubmitStep, OrderStep, ReturnStep DEF InvokeProgress
<1>3. CASE UNCHANGED vars
  <2> USE <1>3 DEF vars, handlerVars, invokeVars, ledgerVars, SaveInv
  <2>1. TypeOK'
      BY DEF TypeOK
  <2> QED
      BY <2>1, HandlersKept, OrderKept, PrefixKept
<1> QED
    BY <1>1, <1>2, <1>3, CrashStep, CommitStep DEF Next

\* The loops, the calls and the order fit together in every reachable state.
THEOREM Inductive == Spec => []SaveInv
BY InitInv, NextInv, PTL DEF Spec

\* Handlers, transactions, log and ledger are well typed.
THEOREM Typing == Spec => []TypeOK
<1>1. SaveInv => TypeOK
    BY DEF SaveInv
<1> QED
    BY <1>1, Inductive, PTL

\* The log holds a prefix of every batch, in its order.
THEOREM PrefixTheorem == Spec => []PrefixOrdered
<1>1. SaveInv => PrefixOrdered
    BY DEF SaveInv
<1> QED
    BY <1>1, Inductive, PTL

\* Status 200 says that every factor is ordered and names their transactions.
THEOREM OkTheorem == Spec => []OkMeansAllOrdered
<1>1. ASSUME SaveInv, NEW r \in Requests, response[r] = "ok"
      PROVE  /\ txIds[r] = [k \in 1..size[r] |-> <<r, k>>]
             /\ \A k \in 1..size[r] : <<r, k>> \in Ordered
  <2>1. next[r] \in Nat /\ size[r] \in 0..MaxBatch /\ next[r] - 1 = size[r]
      BY <1>1, SaveDataAssumption DEF SaveInv, TypeOK, LoopInv, LoopOf
  <2>2. txIds[r] = [k \in 1..size[r] |-> <<r, k>>]
      BY <1>1, <2>1 DEF SaveInv, LoopInv, LoopOf
  <2>3. \A k \in 1..size[r] : k \in 1..MaxBatch /\ k < next[r]
      BY <2>1, SaveDataAssumption
  <2>4. \A k \in 1..size[r] : <<r, k>> \in Factors /\ status[<<r, k>>] = "success"
      BY <1>1, <2>3, FactorType DEF SaveInv, CallsInv, CallOf
  <2> QED
      BY <1>1, <2>2, <2>4 DEF SaveInv, OrderInv
<1>2. SaveInv => OkMeansAllOrdered
    BY <1>1 DEF OkMeansAllOrdered
<1> QED
    BY <1>2, Inductive, PTL

\* At most one factor of a failed request is stored without its id collected.
THEOREM UnconfirmedTheorem == Spec => []AtMostOneUnconfirmed
<1>1. ASSUME SaveInv, NEW f \in submitted PROVE f[2] <= Len(txIds[f[1]]) + 1
  <2> DEFINE r == f[1]
  <2>1. f \in Factors /\ r \in Requests /\ f[2] \in 1..MaxBatch /\ f = <<r, f[2]>>
      BY <1>1, FactorType DEF SaveInv, TypeOK
  <2>2. status[<<r, f[2]>>] # "idle"
      BY <1>1, <2>1 DEF SaveInv, OrderInv
  <2>3. next[r] \in 1..(MaxBatch + 1)
      BY <1>1, <2>1 DEF SaveInv, TypeOK
  <2>4. f[2] <= next[r]
      BY <1>1, <2>1, <2>2, <2>3, SaveDataAssumption DEF SaveInv, CallsInv, CallOf
  <2>5. txIds[r] = [k \in 1..(next[r] - 1) |-> <<r, k>>]
      BY <1>1, <2>1 DEF SaveInv, LoopInv, LoopOf
  <2>6. Len(txIds[r]) = next[r] - 1
      BY <2>3, <2>5, SaveDataAssumption
  <2> QED
      BY <2>1, <2>3, <2>4, <2>6, SaveDataAssumption
<1>2. SaveInv => AtMostOneUnconfirmed
    BY <1>1 DEF AtMostOneUnconfirmed
<1> QED
    BY <1>2, Inductive, PTL

\* The handlers, their crashes and the ledger use the calls only as InvokeSpec
\* allows, so an implementation of InvokeSpec can stand below them.
THEOREM CallerTheorem == Spec => Invocation!Spec
<1>1. Init => Invocation!SpecInit
    BY DEF Init
<1>2. ASSUME UNCHANGED invokeVars PROVE UNCHANGED Invocation!specVars
    BY <1>2 DEF invokeVars, Invocation!specVars
<1>3. ASSUME TypeOK, NEW r \in Requests, HandlerStep(r)
      PROVE  [Invocation!SpecNext]_(Invocation!specVars)
  <2>1. CASE StartFactor(r)
    <3>1. <<r, next[r]>> \in Factors
      <4>1. next[r] \in Nat /\ next[r] >= 1 /\ size[r] \in Nat /\ size[r] <= MaxBatch
          BY <1>3, SaveDataAssumption DEF TypeOK
      <4> QED
          BY <2>1, <4>1, SaveDataAssumption, FactorType DEF StartFactor
    <3> QED
        BY <1>2, <2>1, <3>1 DEF StartFactor, Invocation!SpecNext
  <2>2. CASE Receive(r) \/ InvokeReturned(r) \/ Finish(r)
      BY <1>2, <2>2 DEF Receive, InvokeReturned, Finish
  <2> QED
      BY <1>3, <2>1, <2>2 DEF HandlerStep
<1>4. ASSUME NEW f \in Factors, InvokeProgress(f) \/ InvokeReturn(f)
      PROVE  Invocation!SpecNext
  <2>1. {f} \in SUBSET Factors
      OBVIOUS
  <2> QED
      BY <1>4, <2>1 DEF InvokeProgress, InvokeReturn, Invocation!SpecNext
<1>5. ASSUME Crash PROVE Invocation!SpecNext
  <2>1. {f \in Factors : status[f] = "pending"} \in SUBSET Factors
      OBVIOUS
  <2> QED
      BY <1>5, <2>1 DEF Crash, Invocation!SpecNext
<1>6. ASSUME Commit PROVE UNCHANGED Invocation!specVars
    BY <1>2, <1>6 DEF Commit
<1>7. ASSUME UNCHANGED vars PROVE UNCHANGED Invocation!specVars
    BY <1>2, <1>7 DEF vars
<1>8. TypeOK /\ [Next]_vars => [Invocation!SpecNext]_(Invocation!specVars)
    BY <1>3, <1>4, <1>5, <1>6, <1>7 DEF Next
<1> QED
    BY <1>1, <1>8, Typing, PTL DEF Spec, Invocation!Spec
=============================================================================
