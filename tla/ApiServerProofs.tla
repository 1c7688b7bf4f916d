-------------------------- MODULE ApiServerProofs ---------------------------
(***************************************************************************)
(* Proofs about ApiServer, for any configuration and any number of starts: *)
(* types, the selection of peers across edits of the configuration, the    *)
(* pid file and the handover of the listener.                              *)
(***************************************************************************)
EXTENDS ApiServer, PeerSelectionProofs

\* A process that reads its configuration starts with the strengthening.
LEMMA Configured == LoadConfig => SelectionInv'
<1> SUFFICES ASSUME LoadConfig PROVE SelectionInv'
    OBVIOUS
<1> USE DEF LoadConfig
<1>1. PICK ps \in SUBSET PeerNames : orgOf' \in [ps -> OrgNames]
    OBVIOUS
<1>2. DOMAIN orgOf' = ps /\ \A p \in ps : orgOf'[p] \in OrgNames
    BY <1>1
<1>3. orgMap' \in [Keys -> Seq(PeerNames)] /\ orRulePeerNames' \in Seq(PeerNames)
    OBVIOUS
<1>4. sendNames' \in Seq(PeerNames)
    OBVIOUS
<1>5. TypeOK'
    BY <1>2, <1>3, <1>4 DEF TypeOK
<1>6. OrgMapInv'
    BY <1>2 DEF OrgMapInv, Eligible
<1> QED
    BY <1>5, <1>6 DEF SelectionInv, OrRuleInv, SelectionMeetsPolicy

LEMMA ConfiguredFirst == Init => SelectionInv
<1> SUFFICES ASSUME Init PROVE SelectionInv
    OBVIOUS
<1> USE DEF Init
<1>1. PICK ps \in SUBSET PeerNames : orgOf \in [ps -> OrgNames]
    OBVIOUS
<1>2. DOMAIN orgOf = ps /\ \A p \in ps : orgOf[p] \in OrgNames
    BY <1>1
<1>3. orgMap \in [Keys -> Seq(PeerNames)] /\ orRulePeerNames \in Seq(PeerNames)
    OBVIOUS
<1>4. sendNames \in Seq(PeerNames)
    OBVIOUS
<1>5. TypeOK
    BY <1>2, <1>3, <1>4 DEF TypeOK
<1>6. OrgMapInv
    BY <1>2 DEF OrgMapInv, Eligible
<1> QED
    BY <1>5, <1>6 DEF SelectionInv, OrRuleInv, SelectionMeetsPolicy

\* What each action does to the variables of PeerSelection.
LEMMA SelectionPart == [ApiNext]_apiVars => [Next]_vars \/ LoadConfig
<1> USE DEF ApiNext, apiVars, vars
<1>1. CASE BuildLists
    BY <1>1 DEF BuildLists, Next
<1>2. CASE SendPeerName
    BY <1>2 DEF SendPeerName, Next
<1>3. CASE Reload \/ Restart
    BY <1>3 DEF Reload, Restart, StartProcess
<1>4. CASE StartFails \/ Listen \/ BeforeBegin \/ LaunchFails \/ Stop \/ Drained
          \/ UNCHANGED apiVars
    BY <1>4 DEF StartFails, Listen, BeforeBegin, LaunchFails, Stop, Drained
<1>5. ASSUME NEW p \in Processes, Crash(p) PROVE UNCHANGED vars
    BY <1>5 DEF Crash
<1> QED
    BY <1>1, <1>2, <1>3, <1>4, <1>5

LEMMA ProcessType == ApiTypeOK /\ [ApiNext]_apiVars => ApiTypeOK'
<1> SUFFICES ASSUME ApiTypeOK, [ApiNext]_apiVars PROVE ApiTypeOK'
    OBVIOUS
<1>1. TypeOK'
    BY SelectionPart, SelectionType, Configured DEF ApiTypeOK, SelectionInv
<1> USE <1>1, StartsAssumption DEF ApiTypeOK, Processes, NoFile, Outages, processVars, historyVars
<1>2. CASE BuildLists \/ SendPeerName
    BY <1>2 DEF BuildLists, SendPeerName
<1>3. CASE StartFails
    BY <1>3 DEF StartFails, EndOf
<1>4. CASE Listen
    BY <1>4 DEF Listen
<1>5. CASE BeforeBegin
    BY <1>5 DEF BeforeBegin
<1>6. CASE Reload
    BY <1>6 DEF Reload, StartProcess
<1>12. CASE LaunchFails
    BY <1>12 DEF LaunchFails, EndOf
<1>7. CASE Stop
    BY <1>7 DEF Stop
<1>8. CASE Drained
    BY <1>8 DEF Drained, EndOf
<1>9. ASSUME NEW p \in Processes, Crash(p) PROVE ApiTypeOK'
    BY <1>9 DEF Crash, EndOf
<1>10. CASE Restart
  <2>1. newest + 1 \in Processes /\ newest' = newest + 1 /\ main' = newest + 1
      BY <1>10 DEF Restart, StartProcess
  <2>2. server' = [server EXCEPT ![newest + 1] = "init"]
      BY <1>10 DEF Restart
  <2>3. pidFile' = pidFile /\ begun' = begun /\ stopped' \in BOOLEAN /\ outage' \in Outages
      BY <1>10 DEF Restart
  <2>4. \A p \in Processes : server'[p] = "none" <=> p > newest'
      BY <2>1, <2>2
  <2>5. main' \in 1..newest' /\ pidFile' \in NoFile..newest' /\ begun' \in 0..newest'
      BY <2>1, <2>3
  <2> QED
      BY <2>1, <2>2, <2>3, <2>4, <2>5
<1>11. CASE UNCHANGED apiVars
    BY <1>11 DEF apiVars
<1> QED
    BY <1>2, <1>3, <1>4, <1>5, <1>6, <1>12, <1>7, <1>8, <1>9, <1>10, <1>11 DEF ApiNext

\* The strengthening of GoesOnServing: a main process that has not begun has no
\* child, and one that has begun serves or has handed over to the newest; none
\* outlives it.
HandoverInv ==
    /\ server[main] \in {"init", "listening"} => newest = main /\ begun < main
    /\ server[main] \in {"serving", "draining"} => begun >= main
    /\ server[main] = "ended" => server[newest] = "ended"
    /\ begun >= main /\ ~stopped /\ outage = "none" =>
            \/ server[main] = "serving"
            \/ server[main] = "draining" /\ newest # main /\ TakesRequests(newest)

LEMMA HandoverStep == ApiTypeOK /\ HandoverInv /\ [ApiNext]_apiVars => HandoverInv'
<1> SUFFICES ASSUME ApiTypeOK, HandoverInv, [ApiNext]_apiVars PROVE HandoverInv'
    OBVIOUS
<1> USE StartsAssumption
    DEF ApiTypeOK, HandoverInv, TakesRequests, Processes, processVars, historyVars
<1>1. CASE BuildLists \/ SendPeerName
    BY <1>1 DEF BuildLists, SendPeerName
<1>2. CASE StartFails
    BY <1>2 DEF StartFails, EndOf
<1>3. CASE Listen
  <2>1. /\ server[newest] = "init" /\ server'[newest] = "listening"
        /\ main' = main /\ newest' = newest /\ begun' = begun
        /\ stopped' = stopped /\ outage' = outage
      BY <1>3 DEF Listen
  <2>2. CASE newest = main
      BY <2>1, <2>2
  <2>3. CASE newest # main
    <3>1. server[main] \notin {"init", "listening"}
        BY <2>3
    <3>2. server'[main] = IF server[main] = "serving" THEN "draining" ELSE server[main]
        BY <1>3, <2>3 DEF Listen
    <3> QED
        BY <2>1, <2>3, <3>1, <3>2
  <2> QED
      BY <2>2, <2>3
<1>4. CASE BeforeBegin
  <2>1. /\ server[newest] = "listening" /\ server' = [server EXCEPT ![newest] = "serving"]
        /\ main' = main /\ newest' = newest /\ begun' = newest
        /\ stopped' = stopped /\ outage' = outage
      BY <1>4 DEF BeforeBegin
  <2>2. CASE newest = main
      BY <2>1, <2>2
  <2>3. CASE newest # main
    <3>1. server[main] \in {"serving", "draining"}
        BY <2>1, <2>3
    <3>2. server'[main] = server[main] /\ server'[newest] = "serving" /\ begun >= main
        BY <2>1, <2>3, <3>1
    <3> QED
        BY <2>1, <2>3, <3>1, <3>2
  <2> QED
      BY <2>2, <2>3
<1>5. CASE Reload
    BY <1>5 DEF Reload, StartProcess, RunningServersForked
<1>6. CASE LaunchFails
    BY <1>6 DEF LaunchFails, EndOf
<1>7. CASE Stop
    BY <1>7 DEF Stop
<1>8. CASE Drained
    BY <1>8 DEF Drained, EndOf
<1>9. ASSUME NEW p \in Processes, Crash(p) PROVE HandoverInv'
    BY <1>9 DEF Crash, EndOf
<1>10. CASE Restart
    BY <1>10 DEF Restart, StartProcess
<1>11. CASE UNCHANGED apiVars
    BY <1>11 DEF apiVars
<1> QED
    BY <1>1, <1>2, <1>3, <1>4, <1>5, <1>6, <1>7, <1>8, <1>9, <1>10, <1>11 DEF ApiNext

\* The pid file is removed, or written by the process that begins.
LEMMA PidFileStep == PidFileNamesLast /\ [ApiNext]_apiVars => PidFileNamesLast'
BY DEF PidFileNamesLast, NoFile, ApiNext, apiVars, processVars, historyVars, BuildLists,
       StartFails, Listen, BeforeBegin, SendPeerName, Reload, LaunchFails, Stop, Drained,
       Crash, Restart

\* Every reachable state of ApiServer is well typed, with its PeerSelection.
THEOREM Typing == ApiSpec => []ApiTypeOK
<1>1. ApiInit => ApiTypeOK
  <2> SUFFICES ASSUME ApiInit PROVE ApiTypeOK
      OBVIOUS
  <2>1. TypeOK
      BY ConfiguredFirst DEF ApiInit, SelectionInv
  <2>2. 1 \in Processes /\ \A p \in Processes : p > 1 <=> p # 1
      BY StartsAssumption DEF Processes
  <2>3. /\ newest \in Processes /\ main \in 1..newest
        /\ pidFile \in NoFile..newest /\ begun \in 0..newest
      BY <2>2 DEF ApiInit, NoFile
  <2>4. \A p \in Processes : server[p] = "none" <=> p > newest
      BY <2>2 DEF ApiInit
  <2>5. server \in [Processes ->
            {"none", "init", "listening", "serving", "draining", "ended"}]
      BY DEF ApiInit
  <2>6. stopped \in BOOLEAN /\ outage \in Outages
      BY Zenon DEF ApiInit, Outages
  <2> QED
      BY <2>1, <2>3, <2>4, <2>5, <2>6 DEF ApiTypeOK
<1> QED
    BY <1>1, ProcessType, PTL DEF ApiSpec

\* The strengthening that says what is in the lists of PeerSelection holds for
\* every process and every configuration it finds.
THEOREM ListsTheorem == ApiSpec => []SelectionInv
<1>1. ApiInit => SelectionInv
    BY ConfiguredFirst DEF ApiInit
<1>2. SelectionInv /\ [ApiNext]_apiVars => SelectionInv'
    BY SelectionPart, SelectionStep, Configured
<1> QED
    BY <1>1, <1>2, PTL DEF ApiSpec

\* What GetSendPeerName selects meets the policy, whatever the order in which the
\* maps were visited and whatever was edited between the starts.
THEOREM SelectionTheorem == ApiSpec => []SelectionMeetsPolicy
<1>1. SelectionInv => SelectionMeetsPolicy
    BY DEF SelectionInv
<1> QED
    BY <1>1, ListsTheorem, PTL

\* A pid file names the process that ran BeforeBegin last.
THEOREM PidFileTheorem == ApiSpec => []PidFileNamesLast
<1>1. ApiInit => PidFileNamesLast
    BY DEF ApiInit, PidFileNamesLast
<1> QED
    BY <1>1, PidFileStep, PTL DEF ApiSpec

\* A container that has begun to serve goes on until it is stopped, one of its
\* serving processes crashes, a child cannot be launched, or a handover is over:
\* whatever fails in a child before it listens does not interrupt it.
THEOREM ServingTheorem == ApiSpec => []GoesOnServing
<1>1. ApiInit => HandoverInv
    BY StartsAssumption DEF ApiInit, HandoverInv, Processes
<1>2. ApiTypeOK /\ HandoverInv => GoesOnServing
    BY DEF ApiTypeOK, HandoverInv, GoesOnServing, Serving, TakesRequests, Processes
<1> QED
    BY <1>1, <1>2, Typing, HandoverStep, PTL DEF ApiSpec
=============================================================================
