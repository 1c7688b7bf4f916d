----------------------------- MODULE ApiServer ------------------------------
(***************************************************************************)
(* The API server as a process in its container: main with InitSDK, the    *)
(* pid file that BeforeBegin keeps, the reload of endless (SIGHUP: a child *)
(* takes over the listener and terminates its parent), stops, crashes and  *)
(* the restarts by docker.  The pid file outlives the processes.           *)
(*                                                                         *)
(* Processes are numbered in the order in which they start.  The variables *)
(* of PeerSelection are those of the newest.                               *)
(***************************************************************************)
EXTENDS PeerSelection

CONSTANT MaxStarts      \* bound: processes started

ASSUME StartsAssumption == MaxStarts \in Nat \ {0}

VARIABLES
    newest,         \* the process started last
    main,           \* the main process of the container
    server,         \* what each process does
    pidFile,        \* the process named in apiserver.pid, NoFile if there is none
    begun,          \* history: the process that ran BeforeBegin last
    stopped,        \* history: the main process was asked to stop
    outage          \* history: what last cost this container a server of its own

historyVars == <<begun, stopped, outage>>
processVars == <<newest, main, server, pidFile, historyVars>>
apiVars == <<vars, processVars>>

Processes == 1..MaxStarts
NoFile == 0
Outages == {"none", "crash", "launch", "handover"}

ApiTypeOK ==
    /\ TypeOK
    /\ newest \in Processes
    /\ main \in 1..newest
    /\ server \in [Processes ->
        {"none", "init", "listening", "serving", "draining", "ended"}]
    /\ \A p \in Processes : server[p] = "none" <=> p > newest
    /\ pidFile \in NoFile..newest
    /\ begun \in 0..newest
    /\ stopped \in BOOLEAN
    /\ outage \in Outages

ApiInit ==
    /\ Init
    /\ newest = 1
    /\ main = 1
    /\ server = [p \in Processes |-> IF p = 1 THEN "init" ELSE "none"]
    /\ pidFile = NoFile
    /\ begun = 0
    /\ stopped = FALSE
    /\ outage = "none"
-----------------------------------------------------------------------------

\* The globals of a new process and the configuration it finds, which may have
\* been edited.
LoadConfig ==
    /\ policyRule' \in {"and", "or", "other"}
    /\ policyOrgs' \in SUBSET OrgNames
    /\ \E ps \in SUBSET PeerNames : orgOf' \in [ps -> OrgNames]
    /\ phase' = IF policyOrgs' = {} THEN "failed" ELSE "peers"
    /\ unread' = DOMAIN orgOf'
    /\ orgMap' = [o \in Keys |-> <<>>]
    /\ orRulePeerNames' = <<>>
    /\ asked' = FALSE
    /\ sendNames' = <<>>

StartProcess ==
    /\ newest < MaxStarts
    /\ newest' = newest + 1
    /\ LoadConfig

\* InitSDK, of the newest process.
BuildLists ==
    /\ server[newest] = "init"
    /\ \/ \E p \in PeerNames : ReadPeer(p)
       \/ PeersRead
       \/ \E o \in Keys : ListOrg(o)
       \/ OrgsListed
    /\ UNCHANGED processVars

\* The end of a process; the container ends with its main process.
EndOf(p) ==
    server' = [q \in Processes |->
        IF server[q] # "none" /\ (q = p \/ p = main) THEN "ended" ELSE server[q]]

\* main panics: the configuration is refused, the certificates cannot be loaded,
\* or no orderer is named for the probe.
StartFails ==
    /\ server[newest] = "init"
    /\ EndOf(newest)
    /\ UNCHANGED <<vars, newest, main, pidFile, historyVars>>

\* ListenAndServe.  A child has the listener of its parent and sends it SIGTERM,
\* which a server that is running obeys.
Listen ==
    /\ server[newest] = "init" /\ phase = "ready"
    /\ server' = [p \in Processes |->
            IF p = newest THEN "listening"
            ELSE IF p = main /\ server[p] = "serving" THEN "draining"
            ELSE server[p]]
    /\ UNCHANGED <<vars, newest, main, pidFile, historyVars>>

\* Fault: a pid file that exists is left as it is.
BeforeBeginKeeping ==
    /\ server[newest] = "listening"
    /\ server' = [server EXCEPT ![newest] = "serving"]
    /\ pidFile' = IF pidFile = NoFile THEN newest ELSE pidFile
    /\ begun' = newest
    /\ UNCHANGED <<vars, newest, main, stopped, outage>>

\* A pid file that exists is removed, otherwise one is written; then Serve.  That
\* os.Remove fails, whose error is dropped, is left out: the file was created in
\* the same directory by a process of this container.  A write that fails ends the
\* process, as Crash does.
BeforeBegin ==
    /\ server[newest] = "listening"
    /\ server' = [server EXCEPT ![newest] = "serving"]
    /\ pidFile' = IF pidFile = NoFile THEN newest ELSE NoFile
    /\ begun' = newest
    /\ UNCHANGED <<vars, newest, main, stopped, outage>>

SendPeerName ==
    /\ server[newest] = "serving"
    /\ GetSendPeerName
    /\ UNCHANGED processVars

\* Fault: the parent drains as soon as it has forked.
ReloadAtOnce ==
    /\ server[main] = "serving" /\ newest = main
    /\ StartProcess
    /\ server' = [server EXCEPT ![newest + 1] = "init", ![main] = "draining"]
    /\ UNCHANGED <<main, pidFile, historyVars>>

\* runningServersForked: set before the child is launched and never reset, whatever
\* becomes of the child, so that a process forks once in its life.
RunningServersForked == newest # main

\* SIGHUP to a main process that serves.
Reload ==
    /\ server[main] = "serving" /\ ~RunningServersForked
    /\ StartProcess
    /\ server' = [server EXCEPT ![newest + 1] = "init"]
    /\ UNCHANGED <<main, pidFile, historyVars>>

\* The same where the child cannot be launched: log.Fatalf ends the parent.
LaunchFails ==
    /\ server[main] = "serving" /\ ~RunningServersForked
    /\ EndOf(main)
    /\ outage' = "launch"
    /\ UNCHANGED <<vars, newest, main, pidFile, begun, stopped>>

\* SIGTERM or SIGINT to the main process.
Stop ==
    /\ server[main] = "serving"
    /\ server' = [server EXCEPT ![main] = "draining"]
    /\ stopped' = TRUE
    /\ UNCHANGED <<vars, newest, main, pidFile, begun, outage>>

\* The requests in hand are done, or cut off after a minute; main returns.
Drained ==
    /\ server[main] = "draining"
    /\ EndOf(main)
    /\ outage' = IF stopped THEN outage ELSE "handover"
    /\ UNCHANGED <<vars, newest, main, pidFile, begun, stopped>>

\* A process that has the listener: connections to it are taken, or wait for Serve.
TakesRequests(p) == server[p] \in {"listening", "serving"}

\* A process is killed, or a goroutine of it panics (Endorse).
Crash(p) ==
    /\ server[p] \in {"init", "listening", "serving", "draining"}
    /\ EndOf(p)
    /\ outage' = IF p = main \/ TakesRequests(p) THEN "crash" ELSE outage
    /\ UNCHANGED <<vars, newest, main, pidFile, begun, stopped>>

\* docker starts the container again, with the same files.
Restart ==
    /\ server[main] = "ended"
    /\ StartProcess
    /\ server' = [server EXCEPT ![newest + 1] = "init"]
    /\ main' = newest + 1
    /\ stopped' = FALSE
    /\ outage' = "none"
    /\ UNCHANGED <<pidFile, begun>>

ApiNext ==
    \/ BuildLists \/ StartFails \/ Listen \/ BeforeBegin
    \/ SendPeerName
    \/ Reload \/ LaunchFails \/ Stop \/ Drained
    \/ \E p \in Processes : Crash(p)
    \/ Restart

ApiSpec == ApiInit /\ [][ApiNext]_apiVars
-----------------------------------------------------------------------------
(* Properties                                                              *)

\* A pid file, if there is one, names the process that began to serve last:
\* crashes, restarts and reloads whose child fails leave no name of an earlier one
\* behind a newer server.
PidFileNamesLast == pidFile \in {NoFile, begun}

\* A process of the container takes requests.
Serving == \E p \in main..newest : TakesRequests(p)

\* Once a container has begun to serve, it goes on, from one process or the next,
\* until it is stopped, a process that took requests crashes, the child of a reload
\* cannot be launched, or the handover is over and the end of main ends the
\* container.  A child that fails or crashes before it listens interrupts nobody,
\* though its parent cannot fork another.
GoesOnServing ==
    begun >= main /\ ~stopped /\ outage = "none" => Serving

\* The comment in main, "保存pid文件" (save the pid file): while a server serves,
\* the pid file names one that does.
PidFileSaved ==
    (\E p \in Processes : server[p] = "serving") =>
        pidFile # NoFile /\ server[pidFile] = "serving"
=============================================================================
