---------------------------- MODULE InvokeProofs ----------------------------
(***************************************************************************)
(* Proofs about Invoke, for any number of calls and peers:                 *)
(*   Typing         Spec => []TypeOK                                       *)
(*   Safety         the safety invariants, from an inductive invariant     *)
(*   Refinement     Spec => ImplementsInvokeSpec                           *)
(***************************************************************************)
EXTENDS Invoke, FiniteSetTheorems, SequenceTheorems, TLAPS


-----------------------------------------------------------------------------
(* The inductive invariant                                                 *)

Done(i) == {p \in Peers : gor[i][p] = "done"}

\* While sendToPeers collects, its counter is the number of goroutines that
\* have delivered, and goroutines exist for the selected peers only.
CountInv ==
    \A i \in Calls :
        /\ call[i] = "idle" => got[i] = 0
        /\ call[i] = "endorsing" =>
            /\ got[i] = Cardinality(Done(i))
            /\ targets[i] # {}
            /\ \A p \in Peers : gor[i][p] # "none" <=> p \in targets[i]

Agreed(i) ==
    /\ targets[i] # {}
    /\ \E e \in Payloads : \A p \in targets[i] : reply[i][p] = e

\* Behind createTransaction, and for ever after, the replies agree.
AgreeInv ==
    \A i \in Calls :
        \/ call[i] \in {"assembled", "dialing", "assigning", "opening", "sent"}
        \/ i \in sent
        => Agreed(i)

\* An envelope is on the wire or in the order, not both; only calls that sent
\* one have one; the orderer confirms what it ordered.
NetInv ==
    /\ wire \subseteq sent
    /\ Ordered \subseteq sent
    /\ wire \cap Ordered = {}
    /\ \A i \in sent : call[i] \in {"sent", "success", "unconfirmed", "lost"}
    /\ \A i \in Calls : ack[i] = "SUCCESS" => i \in Ordered

IInv ==
    /\ TypeOK
    /\ CountInv
    /\ NoSenderAfterClose
    /\ AgreeInv
    /\ NetInv
    /\ SuccessIsOrdered
    /\ OrderedOnce

-----------------------------------------------------------------------------
(* Type correctness                                                        *)

\* A selection of peers is finite and no larger than the set of peers.
LEMMA SubsetCard ==
    ASSUME NEW S \in SUBSET Peers
    PROVE  /\ IsFiniteSet(S)
           /\ Cardinality(S) \in Nat
           /\ Cardinality(S) <= Cardinality(Peers)
           /\ Cardinality(Peers) \in Nat
    BY FS_Subset, FS_CardinalityType, InvokeAssumption

\* Every step keeps the type invariant.
LEMMA TypeStep == TypeOK /\ [Next]_vars => TypeOK'
<1> SUFFICES ASSUME TypeOK, [Next]_vars PROVE TypeOK'
    OBVIOUS
<1> USE DEF TypeOK, Active, Returned, GorStates
<1>1. ASSUME NEW i \in Calls, Begin(i) PROVE TypeOK'
  <2>1. PICK names \in Selections : Begin(i)!3!(names)
      BY <1>1 DEF Begin
  <2>2. names \in SUBSET Peers
      BY InvokeAssumption
  <2>3. UNCHANGED <<proc, conn, client, ocon, oclient, wire, sent, log, ack>>
      BY <1>1 DEF Begin, peerVars, ordererVars, netVars
  <2>4. CASE names = {}
      BY <2>1, <2>3, <2>4 DEF endorseVars
  <2>5. CASE names # {}
    <3> DEFINE start == [p \in Peers |-> IF p \in names THEN "starting" ELSE "none"]
    <3>1. /\ call' = [call EXCEPT ![i] = "endorsing"]
          /\ targets' = [targets EXCEPT ![i] = names]
          /\ gor' = [gor EXCEPT ![i] = start]
          /\ UNCHANGED <<got, reply>>
        BY <2>1, <2>5
    <3>2. start \in [Peers -> GorStates]
        OBVIOUS
    <3> HIDE DEF start
    <3>3. /\ gor' \in [Calls -> [Peers -> GorStates]]
          /\ targets' \in [Calls -> SUBSET Peers]
          /\ call' \in [Calls -> Active \cup Returned \cup {"idle"}]
        BY <2>2, <3>1, <3>2
    <3> QED
        BY <2>3, <3>1, <3>3
  <2> QED
      BY <2>4, <2>5
<1>2. ASSUME NEW i \in Calls, CallStep(i) PROVE TypeOK'
  <2>1. CASE Assemble(i)
      BY <2>1 DEF Assemble, peerVars, ordererVars, endorseVars, netVars
  <2>2. CASE CheckOrderer(i)
      BY <2>2 DEF CheckOrderer, peerVars, ordererVars, endorseVars, netVars
  <2>3. CASE DialOrderer(i)
      BY <2>3 DEF DialOrderer, peerVars, ordererVars, endorseVars, netVars
  <2>4. CASE SetOrdererClient(i)
      BY <2>4 DEF SetOrdererClient, peerVars, ordererVars, endorseVars, netVars
  <2>5. CASE OpenStream(i)
      BY <2>5 DEF OpenStream, peerVars, ordererVars, endorseVars, netVars
  <2>6. CASE Receive(i)
      BY <2>6 DEF Receive, peerVars, ordererVars, endorseVars, netVars
  <2> QED
      BY <1>2, <2>1, <2>2, <2>3, <2>4, <2>5, <2>6 DEF CallStep
<1>3. ASSUME NEW i \in Calls, Orderer(i) PROVE TypeOK'
  <2>1. UNCHANGED <<proc, conn, client, ocon, oclient, call, targets, got, gor, reply, sent>>
      BY <1>3 DEF Orderer, peerVars, ordererVars, endorseVars
  <2>2. wire' \in SUBSET Calls
      BY <1>3 DEF Orderer
  <2>3. log' \in Seq(Calls)
    <3>1. log' = Append(log, i) \/ log' = log
        BY <1>3 DEF Orderer
    <3>2. log \in Seq(Calls)
        OBVIOUS
    <3> HIDE DEF TypeOK
    <3> QED
        BY <3>1, <3>2
  <2>4. ack' \in [Calls -> {"none", "SUCCESS", "refused"}]
      BY <1>3 DEF Orderer
  <2> QED
      BY <2>1, <2>2, <2>3, <2>4
<1>4. ASSUME NEW how \in {"panicked", "killed"}, Die(how) PROVE TypeOK'
    BY <1>4 DEF Die, endorseVars, netVars
<1>5. ASSUME NEW i \in Calls, NEW p \in Peers, EndorseStep(i, p) PROVE TypeOK'
  <2>1. CASE CheckConn(i, p)
      BY <2>1 DEF CheckConn, Step, peerVars, ordererVars, netVars
  <2>2. CASE Dial(i, p)
      BY <2>2 DEF Dial, Step, ordererVars, netVars
  <2>3. CASE SetClient(i, p)
      BY <2>3 DEF SetClient, Step, ordererVars, netVars
  <2>4. CASE ProcessProposal(i, p)
      BY <2>4 DEF ProcessProposal, Step, peerVars, ordererVars, netVars
  <2>5. CASE Collect(i, p)
    <3>1. /\ Cardinality(targets[i]) \in Nat
          /\ Cardinality(targets[i]) <= Cardinality(Peers)
          /\ Cardinality(Peers) \in Nat
        BY SubsetCard
    <3>2. got[i] + 1 \in 0..Cardinality(Peers)
        BY <2>5, <3>1 DEF Collect
    <3> QED
        BY <2>5, <3>2 DEF Collect, Step, peerVars, ordererVars, netVars
  <2>6. CASE EndorsePanic(i, p)
      BY <2>6, <1>4 DEF EndorsePanic
  <2>7. CASE DialFails(i, p)
      BY <2>7 DEF DialFails, Step, Replies, peerVars, ordererVars, netVars
  <2> QED
      BY <1>5, <2>1, <2>2, <2>3, <2>4, <2>5, <2>6, <2>7 DEF EndorseStep
<1>6. CASE Kill
    BY <1>6, <1>4 DEF Kill
<1>7. CASE Restart
    BY <1>7 DEF Restart, peerVars, ordererVars, endorseVars, netVars
<1>8. CASE UNCHANGED vars
    BY <1>8 DEF vars, peerVars, ordererVars, endorseVars, netVars
<1> QED
    BY <1>1, <1>2, <1>3, <1>5, <1>6, <1>7, <1>8 DEF Next

LEMMA TypeInit == Init => TypeOK
<1>1. 0 \in 0..Cardinality(Peers)
    BY SubsetCard
<1>2. <<>> \in Seq(Calls)
    OBVIOUS
<1> SUFFICES ASSUME Init PROVE TypeOK
    OBVIOUS
<1> USE DEF Init, Active, Returned, GorStates
<1>3. /\ proc \in {"running", "panicked", "killed"}
      /\ conn \in [Peers -> BOOLEAN]
      /\ client \in [Peers -> BOOLEAN]
      /\ ocon \in BOOLEAN
      /\ oclient \in BOOLEAN
    OBVIOUS
<1>4. /\ call \in [Calls -> Active \cup Returned \cup {"idle"}]
      /\ targets \in [Calls -> SUBSET Peers]
      /\ got \in [Calls -> 0..Cardinality(Peers)]
    BY <1>1
<1>5. /\ gor \in [Calls -> [Peers -> GorStates]]
      /\ reply \in [Calls -> [Peers -> Replies \cup {None}]]
    OBVIOUS
<1>6. /\ wire \in SUBSET Calls
      /\ sent \in SUBSET Calls
      /\ log \in Seq(Calls)
      /\ ack \in [Calls -> {"none", "SUCCESS", "refused"}]
    BY <1>2
<1> QED
    BY <1>3, <1>4, <1>5, <1>6 DEF TypeOK

\* Every variable of Invoke keeps its type in every behaviour, for any number
\* of calls and peers; in particular sendToPeers never counts more replies than
\* there are peers.
THEOREM Typing == Spec => []TypeOK
<1> QED
    BY TypeInit, TypeStep, PTL DEF Spec

-----------------------------------------------------------------------------
(* Safety                                                                  *)

\* When as many goroutines have delivered as were started, all have.
LEMMA AllDone ==
    ASSUME IInv, NEW i \in Calls, call[i] = "endorsing",
           got[i] = Cardinality(targets[i])
    PROVE  Done(i) = targets[i]
<1>1. Done(i) \subseteq targets[i]
    BY DEF IInv, CountInv, Done
<1>2. targets[i] \in SUBSET Peers
    BY DEF IInv, TypeOK
<1>3. Cardinality(Done(i)) = Cardinality(targets[i])
    BY DEF IInv, CountInv
<1> QED
    BY <1>1, <1>2, <1>3, SubsetCard, FS_Subset

\* One more goroutine has delivered.
LEMMA OneMoreDone ==
    ASSUME TypeOK, NEW i \in Calls, NEW p \in Peers,
           gor[i][p] = "replying", gor' = [gor EXCEPT ![i][p] = "done"]
    PROVE  Cardinality(Done(i)') = Cardinality(Done(i)) + 1
<1>1. Done(i)' = Done(i) \cup {p}
    BY DEF Done, TypeOK
<1>2. p \notin Done(i)
    BY DEF Done
<1>3. IsFiniteSet(Done(i))
    BY SubsetCard DEF Done
<1> QED
    BY <1>1, <1>2, <1>3, FS_AddElement

LEMMA SafetyInit == Init => IInv
<1> SUFFICES ASSUME Init PROVE IInv
    OBVIOUS
<1>1. TypeOK
    BY TypeInit
<1>2. Ordered = {}
    BY DEF Init, Ordered
<1>3. CountInv /\ NoSenderAfterClose /\ AgreeInv
    BY DEF Init, CountInv, NoSenderAfterClose, AgreeInv
<1>4. NetInv /\ SuccessIsOrdered
    BY <1>2 DEF Init, NetInv, SuccessIsOrdered
<1>5. OrderedOnce
    BY DEF Init, OrderedOnce
<1> QED
    BY <1>1, <1>3, <1>4, <1>5 DEF IInv

\* The part of the invariant about the goroutines of one call.
GorAt(i) ==
    /\ call[i] = "idle" => got[i] = 0
    /\ call[i] = "endorsing" =>
        /\ got[i] = Cardinality(Done(i))
        /\ targets[i] # {}
        /\ \A p \in Peers : gor[i][p] # "none" <=> p \in targets[i]
    /\ call[i] # "endorsing" => \A p \in Peers : gor[i][p] \in {"none", "done"}

\* It is the same as the two conjuncts of the invariant, for every call.
LEMMA GorAtAll == (\A i \in Calls : GorAt(i)) <=> CountInv /\ NoSenderAfterClose
    BY DEF GorAt, CountInv, NoSenderAfterClose

\* A step that leaves a call alone keeps its part.
LEMMA GorFrame ==
    ASSUME NEW i \in Calls, GorAt(i),
           call'[i] = call[i], got'[i] = got[i],
           targets'[i] = targets[i], gor'[i] = gor[i]
    PROVE  GorAt(i)'
<1>1. Done(i)' = Done(i)
    BY DEF Done
<1> QED
    BY <1>1 DEF GorAt

\* A step of a call that has no goroutine running, before or after.
LEMMA GorIdle ==
    ASSUME NEW i \in Calls, call'[i] \notin {"idle", "endorsing"},
           \A p \in Peers : gor'[i][p] \in {"none", "done"}
    PROVE  GorAt(i)'
    BY DEF GorAt

\* Collecting and closing the channel keep the counter right: every step keeps
\* the part of the invariant about the goroutines.
LEMMA GorStep ==
    ASSUME IInv, [Next]_vars, NEW j \in Calls
    PROVE  GorAt(j)'
<1>0. TypeOK /\ GorAt(j)
    BY GorAtAll DEF IInv
<1>1. ASSUME NEW i \in Calls, Begin(i) PROVE GorAt(j)'
  <2>1. PICK names \in Selections : Begin(i)!3!(names)
      BY <1>1 DEF Begin
  <2>2. CASE i # j
      BY <1>0, <2>1, <2>2, GorFrame DEF endorseVars, TypeOK
  <2>3. CASE i = j /\ names = {}
    <3>1. call[j] = "idle" /\ call'[j] = "rejected" /\ gor'[j] = gor[j]
        BY <1>0, <1>1, <2>1, <2>3 DEF Begin, endorseVars, TypeOK
    <3> QED
        BY <1>0, <3>1, GorIdle DEF GorAt
  <2>4. CASE i = j /\ names # {}
    <3> DEFINE start == [p \in Peers |-> IF p \in names THEN "starting" ELSE "none"]
    <3>1. /\ call[j] = "idle"
          /\ call'[j] = "endorsing"
          /\ targets'[j] = names
          /\ gor'[j] = start
          /\ got'[j] = 0
        BY <1>0, <1>1, <2>1, <2>4 DEF Begin, TypeOK, GorAt
    <3>2. Done(j)' = {}
        BY <3>1 DEF Done
    <3> QED
        BY <2>4, <3>1, <3>2, FS_EmptySet DEF GorAt
  <2> QED
      BY <2>2, <2>3, <2>4
<1>2. ASSUME NEW i \in Calls, CallStep(i) PROVE GorAt(j)'
  <2>1. /\ UNCHANGED <<targets, got, gor>>
        /\ call' = [call EXCEPT ![i] = call'[i]]
        /\ call'[i] \notin {"idle", "endorsing"}
      BY <1>0, <1>2 DEF CallStep, Assemble, CheckOrderer, DialOrderer, SetOrdererClient,
            OpenStream, Receive, endorseVars, TypeOK
  <2>2. CASE i # j
      BY <1>0, <2>1, <2>2, GorFrame DEF TypeOK
  <2>3. CASE i = j /\ call[j] # "endorsing"
      BY <1>0, <2>1, <2>3, GorIdle DEF GorAt
  <2>4. CASE i = j /\ call[j] = "endorsing"
    <3>1. Assemble(j)
        BY <1>2, <2>4 DEF CallStep, CheckOrderer, DialOrderer, SetOrdererClient,
            OpenStream, Receive
    <3>2. Done(j) = targets[j]
        BY <2>4, <3>1, AllDone DEF Assemble
    <3>3. \A p \in Peers : gor'[j][p] \in {"none", "done"}
        BY <1>0, <2>1, <2>4, <3>2 DEF GorAt, Done
    <3> QED
        BY <2>1, <2>4, <3>3, GorIdle
  <2> QED
      BY <2>2, <2>3, <2>4
<1>3. ASSUME NEW i \in Calls, Orderer(i) PROVE GorAt(j)'
    BY <1>0, <1>3, GorFrame DEF Orderer, endorseVars
<1>4. ASSUME NEW how, Die(how) PROVE GorAt(j)'
  <2>1. /\ UNCHANGED <<targets, got>>
        /\ \A p \in Peers : gor'[j][p] \in {"none", "done"}
        /\ call'[j] = IF call[j] \in Active THEN "lost" ELSE call[j]
      BY <1>4 DEF Die, endorseVars
  <2>2. CASE call[j] = "idle"
      BY <1>0, <2>1, <2>2 DEF GorAt, Active
  <2>3. CASE call[j] # "idle"
      BY <1>0, <2>1, <2>3, GorIdle DEF Active, TypeOK
  <2> QED
      BY <2>2, <2>3
<1>5. ASSUME NEW i \in Calls, NEW p \in Peers, EndorseStep(i, p) PROVE GorAt(j)'
  <2>1. CASE EndorsePanic(i, p)
      BY <1>4, <2>1 DEF EndorsePanic
  <2>2. CASE Collect(i, p)
    <3>1. /\ call[i] = "endorsing"
          /\ gor[i][p] = "replying"
          /\ gor' = [gor EXCEPT ![i][p] = "done"]
          /\ got' = [got EXCEPT ![i] = @ + 1]
          /\ UNCHANGED <<call, targets>>
        BY <2>2 DEF Collect, Step
    <3>2. CASE i # j
        BY <1>0, <3>1, <3>2, GorFrame DEF TypeOK
    <3>3. CASE i = j
      <4>1. Cardinality(Done(j)') = Cardinality(Done(j)) + 1
          BY <1>0, <3>1, <3>3, OneMoreDone
      <4>2. got'[j] = Cardinality(Done(j)')
          BY <1>0, <3>1, <3>3, <4>1 DEF GorAt, TypeOK
      <4>3. \A q \in Peers : gor'[j][q] # "none" <=> gor[j][q] # "none"
          BY <1>0, <3>1, <3>3 DEF TypeOK
      <4> QED
          BY <1>0, <3>1, <3>3, <4>2, <4>3 DEF GorAt
    <3> QED
        BY <3>2, <3>3
  <2>3. CASE \/ CheckConn(i, p) \/ Dial(i, p) \/ DialFails(i, p)
             \/ SetClient(i, p) \/ ProcessProposal(i, p)
    <3>1. PICK from \in {"starting", "dialing", "assigning", "calling"},
               to \in {"dialing", "assigning", "calling", "replying"} :
            /\ gor[i][p] = from
            /\ gor' = [gor EXCEPT ![i][p] = to]
        BY <2>3 DEF CheckConn, Dial, DialFails, SetClient, ProcessProposal, Step
    <3>2. UNCHANGED <<call, targets, got>>
        BY <2>3 DEF CheckConn, Dial, DialFails, SetClient, ProcessProposal
    <3>3. CASE i # j
        BY <1>0, <3>1, <3>2, <3>3, GorFrame DEF TypeOK
    <3>4. CASE i = j
      <4>1. call[j] = "endorsing"
          BY <1>0, <3>1, <3>4 DEF GorAt
      <4>2. Done(j)' = Done(j)
          BY <1>0, <3>1, <3>4 DEF Done, TypeOK
      <4>3. \A q \in Peers : gor'[j][q] # "none" <=> gor[j][q] # "none"
          BY <1>0, <3>1, <3>4 DEF TypeOK
      <4> QED
          BY <1>0, <3>2, <4>1, <4>2, <4>3 DEF GorAt
    <3> QED
        BY <3>3, <3>4
  <2> QED
      BY <1>5, <2>1, <2>2, <2>3 DEF EndorseStep
<1>6. CASE Kill
    BY <1>6, <1>4 DEF Kill
<1>7. CASE Restart
    BY <1>0, <1>7, GorFrame DEF Restart, endorseVars
<1>8. CASE UNCHANGED vars
    BY <1>0, <1>8, GorFrame DEF vars, endorseVars
<1> QED
    BY <1>1, <1>2, <1>3, <1>5, <1>6, <1>7, <1>8 DEF Next

\* What a call that left sendToPeers knows about its replies stays true: they
\* are compared before the first step towards the orderer and never change
\* after the channel is closed.
LEMMA AgreeStep ==
    ASSUME IInv, [Next]_vars
    PROVE  AgreeInv'
<1> DEFINE Behind(j) == \/ call[j] \in {"assembled", "dialing", "assigning", "opening", "sent"}
                         \/ j \in sent
<1>0. /\ TypeOK /\ NetInv
      /\ \A j \in Calls : GorAt(j) /\ (Behind(j) => Agreed(j))
    BY GorAtAll DEF IInv, AgreeInv
<1> SUFFICES ASSUME NEW j \in Calls, Behind(j)' PROVE Agreed(j)'
    BY DEF AgreeInv
\* A call that was behind already keeps its targets and replies.
<1>1. ASSUME Behind(j), targets'[j] = targets[j], reply'[j] = reply[j]
      PROVE  Agreed(j)'
    BY <1>0, <1>1 DEF Agreed
<1>2. ASSUME NEW i \in Calls, Begin(i) PROVE Agreed(j)'
  <2>1. i # j
      BY <1>0, <1>2 DEF Begin, TypeOK, NetInv, netVars
  <2>2. call'[j] = call[j] /\ targets'[j] = targets[j] /\ UNCHANGED <<sent, reply>>
      BY <1>0, <1>2, <2>1 DEF Begin, TypeOK, netVars, endorseVars
  <2> QED
      BY <1>1, <2>2
<1>3. ASSUME NEW i \in Calls, CallStep(i) PROVE Agreed(j)'
  <2>1. UNCHANGED <<targets, reply>>
      BY <1>3 DEF CallStep, Assemble, CheckOrderer, DialOrderer, SetOrdererClient,
            OpenStream, Receive, endorseVars
  <2>2. CASE Assemble(i)
    <3>1. CASE Behind(j)
        BY <1>1, <2>1, <3>1
    <3>2. CASE ~Behind(j)
      <4>1. i = j /\ call'[j] = "assembled"
          BY <1>0, <2>2, <3>2 DEF Assemble, TypeOK, netVars
      <4>2. Matching(j, Done(j)) /\ Done(j) = targets[j]
        <5>1. Done(j) = targets[j]
            BY <2>2, <4>1, AllDone DEF Assemble
        <5>2. {p \in targets[j] : gor[j][p] = "done"} = Done(j)
            BY <1>0, <5>1 DEF Done, TypeOK
        <5> QED
            BY <1>0, <2>2, <4>1, <5>1, <5>2 DEF Assemble, TypeOK
      <4> QED
          BY <2>1, <4>2 DEF Matching, Agreed
    <3> QED
        BY <3>1, <3>2
  <2>3. CASE ~Assemble(i)
    <3>1. Behind(j)
        BY <1>0, <1>3, <2>3 DEF CallStep, CheckOrderer, DialOrderer, SetOrdererClient,
            OpenStream, Receive, TypeOK, netVars
    <3> QED
        BY <1>1, <2>1, <3>1
  <2> QED
      BY <2>2, <2>3
<1>4. ASSUME NEW i \in Calls, Orderer(i) PROVE Agreed(j)'
    BY <1>1, <1>4 DEF Orderer, endorseVars
<1>5. ASSUME NEW how, Die(how) PROVE Agreed(j)'
  <2>1. Behind(j) /\ UNCHANGED <<targets, reply>>
      BY <1>0, <1>5 DEF Die, netVars, Active, TypeOK
  <2> QED
      BY <1>1, <2>1
<1>6. ASSUME NEW i \in Calls, NEW p \in Peers, EndorseStep(i, p) PROVE Agreed(j)'
  <2>1. CASE EndorsePanic(i, p)
      BY <1>5, <2>1 DEF EndorsePanic
  <2>2. CASE ProcessProposal(i, p) \/ DialFails(i, p)
    <3>1. call[i] = "endorsing"
        BY <1>0, <2>2 DEF ProcessProposal, DialFails, Step, GorAt
    <3>2. Behind(j) /\ i # j
        BY <1>0, <2>2, <3>1 DEF ProcessProposal, DialFails, netVars, NetInv, TypeOK
    <3>3. targets'[j] = targets[j] /\ reply'[j] = reply[j]
        BY <1>0, <2>2, <3>2 DEF ProcessProposal, DialFails, TypeOK
    <3> QED
        BY <1>1, <3>2, <3>3
  <2>3. CASE CheckConn(i, p) \/ Dial(i, p) \/ SetClient(i, p) \/ Collect(i, p)
      BY <1>1, <2>3 DEF CheckConn, Dial, SetClient, Collect, netVars
  <2> QED
      BY <1>6, <2>1, <2>2, <2>3 DEF EndorseStep
<1>7. CASE Kill
    BY <1>7, <1>5 DEF Kill
<1>8. CASE Restart
    BY <1>1, <1>8 DEF Restart, endorseVars, netVars
<1>9. CASE UNCHANGED vars
    BY <1>1, <1>9 DEF vars, endorseVars, netVars
<1> QED
    BY <1>2, <1>3, <1>4, <1>6, <1>7, <1>8, <1>9 DEF Next

\* The part of the invariant about the network and the order.
LogInv == NetInv /\ SuccessIsOrdered /\ OrderedOnce

\* A step that neither sends, orders nor confirms keeps it, if a call that sent
\* its envelope stays behind the send and no call succeeds.
LEMMA LogFrame ==
    ASSUME LogInv, UNCHANGED netVars,
           \A i \in sent : call'[i] \in {"sent", "success", "unconfirmed", "lost"},
           \A i \in Calls : call'[i] = "success" => call[i] = "success"
    PROVE  LogInv'
    BY DEF LogInv, NetInv, SuccessIsOrdered, OrderedOnce, Ordered, netVars

\* The orderer appends the envelope of a transaction that is not in the order.
LEMMA OrderedAppend ==
    ASSUME log \in Seq(Calls), NEW i \in Calls, log' = Append(log, i)
    PROVE  /\ Ordered' = Ordered \cup {i}
           /\ i \notin Ordered /\ OrderedOnce => OrderedOnce'
<1>1. /\ Len(log') = Len(log) + 1
      /\ \A n \in 1..Len(log) : log'[n] = log[n]
      /\ log'[Len(log) + 1] = i
      /\ Len(log) \in Nat
    BY AppendProperties, LenProperties
<1>2. 1..Len(log') = (1..Len(log)) \cup {Len(log) + 1}
    BY <1>1
<1> QED
    BY <1>1, <1>2 DEF Ordered, OrderedOnce

\* Every step keeps the envelopes, the order and the confirmations consistent.
LEMMA LogStep ==
    ASSUME IInv, [Next]_vars
    PROVE  LogInv'
<1>0. TypeOK /\ LogInv
    BY DEF IInv, LogInv
<1>1. ASSUME NEW i \in Calls, Begin(i) PROVE LogInv'
    BY <1>0, <1>1, LogFrame DEF Begin, LogInv, NetInv, TypeOK
<1>2. ASSUME NEW i \in Calls, CallStep(i) PROVE LogInv'
  <2>1. CASE Assemble(i) \/ CheckOrderer(i) \/ DialOrderer(i) \/ SetOrdererClient(i)
      BY <1>0, <2>1, LogFrame DEF Assemble, CheckOrderer, DialOrderer, SetOrdererClient,
            LogInv, NetInv, TypeOK
  <2>2. CASE OpenStream(i)
    <3>1. i \notin sent /\ i \notin Ordered /\ i \notin wire
        BY <1>0, <2>2 DEF OpenStream, LogInv, NetInv
    <3>2. UNCHANGED <<log, ack>> /\ Ordered' = Ordered
        BY <2>2 DEF OpenStream, Ordered
    <3>3. CASE UNCHANGED <<wire, sent>>
        BY <1>0, <2>2, <3>1, <3>2, <3>3, LogFrame DEF OpenStream, LogInv, NetInv, TypeOK, netVars
    <3>4. CASE ~UNCHANGED <<wire, sent>>
      <4>1. /\ call' = [call EXCEPT ![i] = "sent"]
            /\ wire' = wire \cup {i}
            /\ sent' = sent \cup {i}
          BY <2>2, <3>4 DEF OpenStream
      <4>2. NetInv'
          BY <1>0, <3>1, <3>2, <4>1 DEF LogInv, NetInv, TypeOK
      <4>3. SuccessIsOrdered' /\ OrderedOnce'
          BY <1>0, <3>2, <4>1 DEF LogInv, SuccessIsOrdered, OrderedOnce, TypeOK
      <4> QED
          BY <4>2, <4>3 DEF LogInv
    <3> QED
        BY <3>3, <3>4
  <2>3. CASE Receive(i)
    <3>1. UNCHANGED netVars /\ Ordered' = Ordered
        BY <2>3 DEF Receive, netVars, Ordered
    <3>2. NetInv' /\ OrderedOnce'
        BY <1>0, <2>3, <3>1 DEF Receive, LogInv, NetInv, OrderedOnce, netVars, TypeOK
    <3>3. SuccessIsOrdered'
        BY <1>0, <2>3, <3>1 DEF Receive, LogInv, NetInv, SuccessIsOrdered, TypeOK
    <3> QED
        BY <3>2, <3>3 DEF LogInv
  <2> QED
      BY <1>2, <2>1, <2>2, <2>3 DEF CallStep
<1>3. ASSUME NEW i \in Calls, Orderer(i) PROVE LogInv'
  <2>1. /\ i \in wire /\ i \in sent /\ i \notin Ordered
        /\ wire' = wire \ {i}
        /\ UNCHANGED <<call, sent>>
      BY <1>0, <1>3 DEF Orderer, LogInv, NetInv
  <2>2. CASE log' = Append(log, i) /\ ack' = [ack EXCEPT ![i] = "SUCCESS"]
    <3>1. Ordered' = Ordered \cup {i} /\ OrderedOnce'
        BY <1>0, <2>1, <2>2, OrderedAppend DEF LogInv, TypeOK
    <3> QED
        BY <1>0, <2>1, <2>2, <3>1 DEF LogInv, NetInv, SuccessIsOrdered, TypeOK
  <2>3. CASE log' = log /\ (ack' = [ack EXCEPT ![i] = "refused"] \/ ack' = ack)
    <3>1. Ordered' = Ordered /\ OrderedOnce'
        BY <1>0, <2>3 DEF Ordered, OrderedOnce, LogInv
    <3> QED
        BY <1>0, <2>1, <2>3, <3>1 DEF LogInv, NetInv, SuccessIsOrdered, TypeOK
  <2> QED
      BY <1>3, <2>2, <2>3 DEF Orderer
<1>4. ASSUME NEW how, Die(how) PROVE LogInv'
    BY <1>0, <1>4, LogFrame DEF Die, LogInv, NetInv, TypeOK, Active
<1>5. ASSUME NEW i \in Calls, NEW p \in Peers, EndorseStep(i, p) PROVE LogInv'
  <2>1. CASE EndorsePanic(i, p)
      BY <1>4, <2>1 DEF EndorsePanic
  <2>2. CASE ~EndorsePanic(i, p)
    <3>1. UNCHANGED call /\ UNCHANGED netVars
        BY <1>5, <2>2 DEF EndorseStep, CheckConn, Dial, DialFails, SetClient, ProcessProposal, Collect
    <3> QED
        BY <1>0, <3>1, LogFrame DEF LogInv, NetInv
  <2> QED
      BY <2>1, <2>2
<1>6. CASE Kill
    BY <1>6, <1>4 DEF Kill
<1>7. CASE Restart
    BY <1>0, <1>7, LogFrame DEF Restart, LogInv, NetInv
<1>8. CASE UNCHANGED vars
    BY <1>0, <1>8, LogFrame DEF vars, LogInv, NetInv
<1> QED
    BY <1>1, <1>2, <1>3, <1>5, <1>6, <1>7, <1>8 DEF Next

\* IInv is inductive, so it holds in every reachable state.
THEOREM Inductive == Spec => []IInv
<1>1. Init => IInv
    BY SafetyInit
<1>2. IInv /\ [Next]_vars => IInv'
  <2> SUFFICES ASSUME IInv, [Next]_vars PROVE IInv'
      OBVIOUS
  <2>1. TypeOK'
      BY TypeStep DEF IInv
  <2>2. (\A i \in Calls : GorAt(i))'
      BY GorStep
  <2>3. CountInv' /\ NoSenderAfterClose'
      BY <2>2 DEF GorAt, CountInv, NoSenderAfterClose
  <2>4. AgreeInv' /\ LogInv'
      BY AgreeStep, LogStep
  <2> QED
      BY <2>1, <2>3, <2>4 DEF IInv, LogInv
<1> QED
    BY <1>1, <1>2, PTL DEF Spec

\* Only transactions that every selected peer endorsed with the same result are
\* ordered, whatever the interleaving of calls, goroutines, crashes and the
\* orderer.
THEOREM EndorsedTheorem == Spec => []OnlyEndorsedIsOrdered
<1>1. IInv => OnlyEndorsedIsOrdered
    BY DEF IInv, NetInv, AgreeInv, Agreed, OnlyEndorsedIsOrdered, TypeOK, Ordered
<1> QED
    BY <1>1, Inductive, PTL

\* A success response names an ordered transaction.
THEOREM SuccessTheorem == Spec => []SuccessIsOrdered
<1>1. IInv => SuccessIsOrdered
    BY DEF IInv
<1> QED
    BY <1>1, Inductive, PTL

\* No transaction is ordered twice.
THEOREM OnceTheorem == Spec => []OrderedOnce
<1>1. IInv => OrderedOnce
    BY DEF IInv
<1> QED
    BY <1>1, Inductive, PTL

\* No goroutine sends on the channel sendToPeers has closed.
THEOREM CloseTheorem == Spec => []NoSenderAfterClose
<1>1. IInv => NoSenderAfterClose
    BY DEF IInv
<1> QED
    BY <1>1, Inductive, PTL

-----------------------------------------------------------------------------
(* The lazily filled connections                                           *)

HalfOpenPeer(p) ==
    conn[p] /\ ~client[p] => \E i \in Calls : gor[i][p] = "assigning"
HalfOpenOrderer ==
    ocon /\ ~oclient => \E i \in Calls : call[i] = "assigning"

\* A connection without a client always has a goroutine that is about to store
\* the client: nothing between the two assignments can leave it half open.
THEOREM HalfOpenTheorem == Spec => []HalfOpenIsTransient
<1>1. Init => HalfOpenIsTransient
    BY DEF Init, HalfOpenIsTransient
<1>2. TypeOK /\ NoSenderAfterClose /\ HalfOpenIsTransient /\ [Next]_vars
        => HalfOpenIsTransient'
  <2> SUFFICES ASSUME TypeOK, NoSenderAfterClose, HalfOpenIsTransient, [Next]_vars
               PROVE  HalfOpenOrderer' /\ \A p \in Peers : HalfOpenPeer(p)'
      BY DEF HalfOpenIsTransient, HalfOpenPeer, HalfOpenOrderer
  <2> USE DEF HalfOpenIsTransient, HalfOpenPeer, HalfOpenOrderer, TypeOK
  <2> DEFINE Goal == HalfOpenOrderer' /\ \A p \in Peers : HalfOpenPeer(p)'
  <2>1. ASSUME NEW i \in Calls, Begin(i) PROVE Goal
    <3>1. UNCHANGED <<conn, client, ocon, oclient>>
        BY <2>1 DEF Begin, peerVars, ordererVars
    <3>2. call[i] = "idle" /\ \A j \in Calls \ {i} : call'[j] = call[j] /\ gor'[j] = gor[j]
        BY <2>1 DEF Begin, endorseVars
    <3>3. \A p \in Peers : gor[i][p] # "assigning"
        BY <3>2 DEF NoSenderAfterClose
    <3>4. HalfOpenOrderer'
        BY <3>1, <3>2
    <3>5. ASSUME NEW p \in Peers PROVE HalfOpenPeer(p)'
      <4>1. CASE conn[p] /\ ~client[p]
        <5>1. PICK j \in Calls : gor[j][p] = "assigning"
            BY <4>1
        <5>2. gor'[j][p] = "assigning"
            BY <3>2, <3>3, <5>1
        <5> QED
            BY <5>2
      <4> QED
          BY <3>1, <4>1
    <3> QED
        BY <3>4, <3>5
  <2>2. ASSUME NEW i \in Calls, CallStep(i) PROVE Goal
    <3>1. UNCHANGED <<conn, client, gor>>
        BY <2>2 DEF CallStep, Assemble, CheckOrderer, DialOrderer, SetOrdererClient,
            OpenStream, Receive, peerVars, endorseVars
    <3>2. HalfOpenOrderer'
      <4>1. CASE SetOrdererClient(i)
          BY <4>1 DEF SetOrdererClient
      <4>2. CASE DialOrderer(i)
          BY <4>2 DEF DialOrderer
      <4>3. CASE Assemble(i) \/ CheckOrderer(i) \/ OpenStream(i) \/ Receive(i)
        <5>1. UNCHANGED <<ocon, oclient>>
            BY <4>3 DEF Assemble, CheckOrderer, OpenStream, Receive, ordererVars
        <5>2. \A j \in Calls : call[j] = "assigning" => call'[j] = "assigning"
            BY <4>3 DEF Assemble, CheckOrderer, OpenStream, Receive
        <5> QED
            BY <5>1, <5>2
      <4> QED
          BY <2>2, <4>1, <4>2, <4>3 DEF CallStep
    <3> QED
        BY <3>1, <3>2
  <2>3. ASSUME NEW i \in Calls, Orderer(i) PROVE Goal
      BY <2>3 DEF Orderer, peerVars, ordererVars, endorseVars
  <2>4. ASSUME NEW how, Die(how) PROVE Goal
      BY <2>4 DEF Die
  <2>5. ASSUME NEW i \in Calls, NEW p \in Peers, EndorseStep(i, p) PROVE Goal
    <3>1. CASE EndorsePanic(i, p)
        BY <2>4, <3>1 DEF EndorsePanic
    <3>2. CASE SetClient(i, p)
        BY <3>2 DEF SetClient, Step, ordererVars
    <3>3. CASE Dial(i, p)
        BY <3>3 DEF Dial, Step, ordererVars
    <3>4. CASE CheckConn(i, p) \/ DialFails(i, p) \/ ProcessProposal(i, p) \/ Collect(i, p)
      <4>1. UNCHANGED <<conn, client, ocon, oclient, call>>
          BY <3>4 DEF CheckConn, DialFails, ProcessProposal, Collect, peerVars, ordererVars
      <4>2. PICK from \in GorStates, to \in GorStates :
                /\ from # "assigning" /\ gor[i][p] = from
                /\ gor' = [gor EXCEPT ![i][p] = to]
        <5>1. PICK from, to : from # "assigning" /\ Step(i, p, from, to)
            BY <3>4 DEF CheckConn, DialFails, ProcessProposal, Collect
        <5> QED
            BY <3>4 DEF CheckConn, DialFails, ProcessProposal, Collect, Step, GorStates
      <4>3. \A j \in Calls, q \in Peers :
                gor[j][q] = "assigning" => gor'[j][q] = "assigning"
          BY <4>2
      <4> QED
          BY <4>1, <4>3
    <3> QED
        BY <2>5, <3>1, <3>2, <3>3, <3>4 DEF EndorseStep
  <2>6. CASE Kill
      BY <2>4, <2>6 DEF Kill
  <2>7. CASE Restart
      BY <2>7 DEF Restart, peerVars, ordererVars, endorseVars
  <2>8. CASE UNCHANGED vars
      BY <2>8 DEF vars, peerVars, ordererVars, endorseVars
  <2> QED
      BY <2>1, <2>2, <2>3, <2>5, <2>6, <2>7, <2>8 DEF Next
<1> QED
    BY <1>1, <1>2, Typing, CloseTheorem, PTL DEF Spec

-----------------------------------------------------------------------------
(* Refinement                                                              *)

\* Each step of Invoke is a step of InvokeSpec or leaves its state alone.
LEMMA AbstractStep ==
    ASSUME IInv, [Next]_vars
    PROVE  [Abstract!SpecNext]_(Abstract!specVars)
<1> DEFINE Status(i) == IF call[i] = "idle" THEN "idle"
                        ELSE IF call[i] \in Active THEN "pending"
                        ELSE IF call[i] = "success" THEN "success" ELSE "failed"
           status == [i \in Calls |-> Status(i)]
           Quiet == UNCHANGED <<status, sent, log>>
<1>0. TypeOK /\ LogInv
    BY DEF IInv, LogInv
<1> USE DEF Active
<1>1. ASSUME Quiet PROVE [Abstract!SpecNext]_(Abstract!specVars)
    BY <1>1 DEF Abstract!specVars
\* Calls fail, one or all that are pending.
<1>2. ASSUME NEW I \in SUBSET Calls,
             \A i \in I : call[i] = "idle" \/ call[i] \in Active,
             \A i \in I : call'[i] \in {"rejected", "unconfirmed", "panicked", "lost"},
             \A i \in Calls \ I : call'[i] = call[i],
             UNCHANGED <<sent, log>>
      PROVE  [Abstract!SpecNext]_(Abstract!specVars)
  <2>1. Abstract!SpecFail(I)
      BY <1>2 DEF Abstract!SpecFail
  <2> QED
      BY <2>1 DEF Abstract!SpecNext
<1>fail. ASSUME NEW i \in Calls, call[i] = "idle" \/ call[i] \in Active,
             call'[i] \in {"rejected", "unconfirmed", "panicked", "lost"},
             \A j \in Calls \ {i} : call'[j] = call[j],
             UNCHANGED <<sent, log>>
      PROVE  [Abstract!SpecNext]_(Abstract!specVars)
  <2> DEFINE I == {i}
  <2>1. /\ I \in SUBSET Calls
        /\ \A j \in I : call[j] = "idle" \/ call[j] \in Active
        /\ \A j \in I : call'[j] \in {"rejected", "unconfirmed", "panicked", "lost"}
        /\ \A j \in Calls \ I : call'[j] = call[j]
      BY <1>fail
  <2> HIDE DEF I
  <2> QED
      BY <1>2, <1>fail, <2>1
<1>3. ASSUME NEW i \in Calls, Begin(i) PROVE [Abstract!SpecNext]_(Abstract!specVars)
  <2>1. call[i] = "idle" /\ UNCHANGED <<sent, log>>
      BY <1>3 DEF Begin, netVars
  <2>2. CASE call' = [call EXCEPT ![i] = "rejected"]
      BY <1>0, <1>fail, <2>1, <2>2 DEF TypeOK
  <2>3. CASE call' = [call EXCEPT ![i] = "endorsing"]
    <3>1. Abstract!SpecBegin(i)
        BY <1>0, <2>1, <2>3 DEF Abstract!SpecBegin, TypeOK
    <3> QED
        BY <3>1 DEF Abstract!SpecNext
  <2> QED
      BY <1>3, <2>2, <2>3 DEF Begin
<1>4. ASSUME NEW i \in Calls, CallStep(i) PROVE [Abstract!SpecNext]_(Abstract!specVars)
  <2>1. CASE UNCHANGED sent /\ call'[i] \in Active
      BY <1>0, <1>1, <1>4, <2>1 DEF CallStep, Assemble, CheckOrderer, DialOrderer,
            SetOrdererClient, OpenStream, Receive, netVars, TypeOK
  <2>2. CASE UNCHANGED sent /\ call'[i] \in {"rejected", "unconfirmed", "panicked"}
    <3>1. /\ call[i] \in Active
          /\ \A j \in Calls \ {i} : call'[j] = call[j]
          /\ UNCHANGED log
        BY <1>0, <1>4 DEF CallStep, Assemble, CheckOrderer, DialOrderer,
            SetOrdererClient, OpenStream, Receive, netVars, TypeOK
    <3> QED
        BY <1>fail, <2>2, <3>1
  <2>3. CASE OpenStream(i) /\ ~UNCHANGED sent
    <3>1. call[i] = "opening" /\ i \notin sent
        BY <1>0, <2>3 DEF OpenStream, LogInv, NetInv
    <3>2. call' = [call EXCEPT ![i] = "sent"] /\ sent' = sent \cup {i} /\ log' = log
        BY <2>3 DEF OpenStream
    <3>3. Abstract!SpecSubmit(i)
        BY <1>0, <3>1, <3>2 DEF Abstract!SpecSubmit, TypeOK
    <3> QED
        BY <3>3 DEF Abstract!SpecNext
  <2>4. CASE Receive(i) /\ call'[i] = "success"
    <3>1. call[i] = "sent" /\ i \in Ordered /\ UNCHANGED <<sent, log>>
        BY <1>0, <2>4 DEF Receive, LogInv, NetInv, netVars, TypeOK
    <3>2. call' = [call EXCEPT ![i] = "success"]
        BY <1>0, <2>4 DEF Receive, TypeOK
    <3>3. Abstract!SpecSucceed(i)
        BY <1>0, <3>1, <3>2 DEF Abstract!SpecSucceed, Abstract!OrderedIn, Ordered, TypeOK
    <3> QED
        BY <3>3 DEF Abstract!SpecNext
  <2> QED
      BY <1>0, <1>4, <2>1, <2>2, <2>3, <2>4 DEF CallStep, Assemble, CheckOrderer, DialOrderer,
            SetOrdererClient, OpenStream, Receive, netVars, TypeOK
<1>5. ASSUME NEW i \in Calls, Orderer(i) PROVE [Abstract!SpecNext]_(Abstract!specVars)
  <2>1. i \in sent /\ i \notin Ordered /\ UNCHANGED <<call, sent>>
      BY <1>0, <1>5 DEF Orderer, LogInv, NetInv
  <2>2. CASE log' = Append(log, i)
    <3>1. Abstract!SpecOrder(i)
        BY <2>1, <2>2 DEF Abstract!SpecOrder, Abstract!OrderedIn, Ordered
    <3> QED
        BY <3>1 DEF Abstract!SpecNext
  <2>3. CASE log' = log
      BY <1>1, <2>1, <2>3
  <2> QED
      BY <1>5, <2>2, <2>3 DEF Orderer
<1>6. ASSUME NEW how, Die(how) PROVE [Abstract!SpecNext]_(Abstract!specVars)
  <2> DEFINE I == {i \in Calls : call[i] \in Active}
  <2>1. /\ I \in SUBSET Calls
        /\ \A i \in I : call[i] \in Active
        /\ \A i \in I : call'[i] = "lost"
        /\ \A i \in Calls \ I : call'[i] = call[i]
        /\ UNCHANGED <<sent, log>>
      BY <1>0, <1>6 DEF Die, netVars, TypeOK
  <2> HIDE DEF I
  <2> QED
      BY <1>2, <2>1
<1>7. ASSUME NEW i \in Calls, NEW p \in Peers, EndorseStep(i, p)
      PROVE  [Abstract!SpecNext]_(Abstract!specVars)
  <2>1. CASE EndorsePanic(i, p)
      BY <1>6, <2>1 DEF EndorsePanic
  <2>2. CASE ~EndorsePanic(i, p)
      BY <1>1, <1>7, <2>2 DEF EndorseStep, CheckConn, Dial, DialFails, SetClient, ProcessProposal, Collect,
            netVars
  <2> QED
      BY <2>1, <2>2
<1>8. CASE Kill
    BY <1>6, <1>8 DEF Kill
<1>9. CASE Restart
    BY <1>1, <1>9 DEF Restart, netVars
<1>10. CASE UNCHANGED vars
    BY <1>1, <1>10 DEF vars, netVars
<1> QED
    BY <1>3, <1>4, <1>5, <1>7, <1>8, <1>9, <1>10 DEF Next

\* Invoke implements InvokeSpec for any number of calls and peers: at most one
\* submission and one position in the order per call, and success only for
\* ordered transactions.
THEOREM Refinement == Spec => ImplementsInvokeSpec
<1>1. Init => Abstract!SpecInit
    BY DEF Init, Abstract!SpecInit
<1>2. IInv /\ [Next]_vars => [Abstract!SpecNext]_(Abstract!specVars)
    BY AbstractStep
<1> QED
    BY <1>1, <1>2, Inductive, PTL DEF Spec, ImplementsInvokeSpec, Abstract!Spec
=============================================================================
