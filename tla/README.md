# A verification development of the factor system

TLA+ models, TLC instances and TLAPS proofs for the factor system: an API server that
stores "factors" (business records) on a Hyperledger Fabric channel, the chaincode that
holds them, and an event server that follows the channel. Paths are relative to `src/`;
`gohfc` is the vendored client library `vendor/github.com/peersafe/gohfc` of each server.
It is third-party code by origin, but all concurrency and all failure handling of the
system happens in it, so the parts on the system's own paths are modelled in full.

1. [The system](#1-the-system) · 2. [Modules](#2-modules) ·
3. [Runs](#3-runs) · 4. [Bounds](#4-bounds) · 5. [Fairness](#5-fairness) ·
6. [Proofs](#6-proofs) · 7. [Disagreements found](#7-disagreements-found) ·
8. [Not modelled](#8-not-modelled) · 9. [Plan](#9-plan)

## 1. The system

    HTTP client ──> API server ──────> peers (endorse, query)   ledger + CouchDB
                     handler/factor.go  │                             │
                     sdk/sdk.go         └──> orderer ──> blocks ──────┘
                     gohfc                                 │
                                        event server <─────┘ (Deliver stream)
                                        main, listenevent, handle, gohfc

| Component | State it keeps | Operations | Correct when |
|---|---|---|---|
| Transaction submission: `FabricClient.Invoke` (gohfc `client.go`, `peer.go`, `orderer.go`, `transaction.go`), called through `sdk.Invoke` | one `Peer` object per peer (`conn`, `client`) and the `Orderer` object (`con`, `client`), shared by all requests without a lock and filled in on first use; one channel per call | `Invoke`, `sendToPeers`, `Endorse`, `createTransaction`, `Broadcast` | only what all selected peers endorsed alike is ordered; success means ordered; nothing is ordered twice; every call returns |
| `SaveData` handler (`apiserver/handler/factor.go`) | per request: position in the batch, collected ids | read, loop over the factors (draw a key, format, invoke), answer | what a failing batch leaves behind is a prefix; an ok answer covers the batch |
| Read handlers and their SDK functions (`DslQuery`, `BlockQuery`, `BlockQueryEx`, `KeepaliveQuery`; `sdk.Query`, `DSL`, `PeerKeepalive`) | none between requests, except the CouchDB clients | query CouchDB, query a peer, probe peer and orderer | every request is answered once, also when a step panics; what is reported of a peer is what the peer said |
| Peer and orderer selection (`SetSendPeerOrder`, `GetSendPeerName`) | `orgMap`, `orRulePeerNames`, `ordersNames`, built at the start | pick for each request | a selection meets the endorsement policy |
| CouchDB clients (`fabric-sdk-go-peersafe/pkg/common/couchdb`) | the client list, created on first use behind a double check | `GetDBClients` | one list, never a half-built one; a failed creation is tried again and blocks nobody |
| Chaincode (`chaincode/`) | the ledger: factor by key | `SaveData` (write and event), `DslQuery` (page), `KeepaliveQuery` | a page is the right slice; totals are right |
| Event server (`eventserver/main.go`, `listenevent/`, `handle/filterevent.go`, gohfc `event.go`) | block height, the stream, one block in hand | start, listen, filter | every visible event from the attach point on, once, in chain order |
| Event recovery (`handle/handleevent.go`) | `current.info` | `CheckAndRecoverEvent`, `SetBlockInfo` | (its only call is commented out in `main`) |
| Message encryption (`apiserver/utils/message.go`, `crypto.go`) | `enrollment.cert` and `enrollment.key` of users, per host, read at each use | format a request, format a response | receivers and sender read back what was sent, nobody else does |
| Message queue, user alias (`eventserver/messagequeue/`, `filterevent.go`) | connections | (not called by `main`) | |
| Start of the API server (`apiserver/main.go`, `router/`, the vendored `endless`) | the processes of the container, the listener they hand on, `apiserver.pid`, the configuration | start, reload (SIGHUP), stop, crash, restart | a container that serves goes on through reloads whose child fails; the pid file names no process of the past |

How they interact: a `SaveData` request calls `Invoke` once per factor, `Invoke` asks
`GetSendPeerName` for its peers, the endorsed envelope goes to the orderer, the peers commit
blocks, a committed `SaveData` transaction writes a factor and sets an event, and the event
server receives the block. Nothing in the API server waits for the commit: the answer to the
client is given when the *orderer* has acknowledged.

What is hard here: goroutines of different requests share lazily filled connections without a
lock; the calls that wait for network answers have no timeout; answers can be lost on either
side of the orderer; the processes are restarted by docker (`restart: always`) with nothing
persisted; a batch fails in the middle; a shared slice is read while another goroutine stores
it; key files appear and change between two reads, and reads fail; two processes serve during a
reload; ledger keys repeat; unsigned offsets wrap around; a block can panic its parser.
`PROJECT.json` lists each at its line under `hazards`.

## 2. Modules

| Module | Models | Composed with |
|---|---|---|
| `InvokeSpec` | what `Invoke` promises: submitted at most once, ordered at most once, success only for an ordered transaction, nothing else | implemented by `Invoke`, instantiated by `SaveData` |
| `Invoke` | `Invoke` from `sdk.Invoke` down to the stream of the orderer, the shared `Peer` and `Orderer` objects, the process and its restarts | refines `InvokeSpec` |
| `InvokeProofs` | proofs about `Invoke` | |
| `SaveData` | the handler on top of `InvokeSpec`, and the ledger written by the chaincode | uses `InvokeSpec` with calls := factors |
| `SaveDataProofs` | proofs about `SaveData` | |
| `EventBlocks` | transaction kinds as `parseFullBlock` and `FilterEvent` tell them apart | |
| `EventFeed` | what the event server promises: a position that moves over the visible events | implemented by `EventServer` |
| `EventServer` | `main`, `ListenEvent`, the `Listen` goroutine, the Deliver stream, crashes and restarts | refines `EventFeed` |
| `EventServerProofs` | proofs about `EventServer` | |
| `Paging` | `GetValueByDSL` of the chaincode, with machine-width arithmetic, and a client that walks the pages | |
| `PagingProofs` | proofs about `Paging` | |
| `PeerSelection` | `SetSendPeerOrder`, `GetSendPeerName` | its answers are the constant `Selections` of `Invoke` |
| `ApiServer` | the API server as a process: `main`, `InitSDK`, pid file, reload, stop, crash, restart | extends `PeerSelection`, whose lists each process builds anew |
| `PeerSelectionProofs`, `ApiServerProofs` | proofs about both: the lemmas on the lists, the theorems on the process | |
| `CouchClients` | `GetDBClients`: double check, lock, word-wise store | |
| `ReadHandlers` | the four read handlers and the process they run in | extends `CouchClients` |
| `ReadHandlersProofs` | proofs about `ReadHandlers` | |
| `Messages` | `FormatRequestMessage`, `FormatResponseMessage` and the key files of all hosts | |
| `MessagesProofs` | proofs about `Messages` | |
| `MC*` | values of the constants for TLC | |

Operators with a comment beginning "Fault:" stand before the definition they are a
faulty version of; no specification uses them. They are how each property is known to be able
to fail.

### Invoke

A *call* is one `Invoke` and at the same time its transaction, since `newTransactionId` draws
a fresh nonce for each. `call[i]` is the program counter of the request goroutine:

| `call[i]` | Code |
|---|---|
| `idle`, `Begin` | `sdk.Invoke` picks the peers, `sendToPeers` starts one `Endorse` goroutine per peer |
| `endorsing` | the receive loop of `sendToPeers`; `got` is its counter; `Collect` is a rendezvous on the unbuffered channel |
| `assembled` | `createTransaction` accepted: all status 200 and all payloads equal |
| `dialing`, `assigning` | `Orderer.Broadcast` between `o.con == nil`, `grpc.Dial`, `o.con =` and `o.client =` |
| `opening`, `sent` | `Broadcast` stream and `Send`; `Recv` |
| `success`, `rejected`, `unconfirmed` | returned: acknowledged; an error before `Send`; an error after it |
| `panicked`, `lost` | a nil orderer client in the request goroutine (gin recovers and answers 500); the process ended |

`gor[i][p]` is the same for each `Endorse` goroutine. A nil `p.client` in such a goroutine is
not under gin's `Recovery`, so `EndorsePanic` ends the process. `Die` forgets everything in
memory. The orderer may take, refuse or lose an envelope, and its answer may be lost after it
took it (`Receive` may fail at any time). Replies of peers are abstracted to what
`createTransaction` distinguishes. Signing, marshalling and certificates are left out.

### SaveData

`handler[r]`, `next[r]`, `txIds[r]` are the locals of the handler; factor k of request r is
transaction `<<r, k>>`. `StartFactor` draws `FabricTxId` (any element of `Keys`:
`GetRandomString` may repeat), formats the message (which may fail: reading a certificate,
encrypting) and begins the call. `InvokeProgress` and `InvokeReturn` are steps of
`InvokeSpec`, so this is the handler on any implementation of that contract. `Commit` applies
the next ordered transaction to the ledger: `PutState(request.Key, ...)`, or nothing when
the peers find it invalid. The key is the one sealed in the envelope; it is drawn once, before
the call begins, so `fabricTxId` still holds it at the commit.

### EventServer

`server` and `index` follow the main goroutine through `main` and the two loops of
`ListenEvent`; `listener` follows `Listen`, with `held` the block it offers on the unbuffered
channel; `stream` and `cursor` are the peer's side. The seek request is sent by `Listen` and
acted on later by the peer (`SeekNewest`), so blocks committed in between shift the start.
`first`, `session` and `earlier` are history. A receive error ends the goroutine for good
(`ReceiveError`, `TakeError`), as in the code; a status message of the peer is skipped and the
goroutine waits on (`ReceiveStatus`, stream `refused`). An event without a message ends the
process (`HandlePanic`). `parseFullBlock` returns at a `garbled` transaction, and dereferences nil
at a `broken` one, which ends the process from the `Listen` goroutine (`ReceivePanic`), possibly
while `ListenEvent` is in an earlier block.

### Paging

`page`, `size`, `skipSize`, `needSize` and `total` are `uint`: arithmetic is modulo `Modulus`.
The loop is one action per turn, by branch. Each query reads a snapshot; commits happen between
and during queries. A record is named by its place in the order of the iterator. `Commit` adds
one; `Overwrite` is a commit under a key in use (six random characters, and `PutState` does not
look): the old record goes, and the new value matches elsewhere, in the same place or not at all.
`since`, `seen`, `due` and `gone` are the history of a client reading page after page: the records
it began with and not replaced since, those it saw, the page that is next, and how many records
were replaced away.

### PeerSelection

Ranges over Go maps visit in any order: `ReadPeer` and `ListOrg` take any unvisited element.
`orgMap` is total with `<<>>` for a missing key, as indexing a Go map is.

### ApiServer

Processes are numbered as they start; `main` is the one docker started, `newest` the last, and
the variables of `PeerSelection` are the newest one's. `server[p]` goes through `init`
(`InitSDK`, i.e. the loops of `PeerSelection`), `listening` (`ListenAndServe`, where a child
sends SIGTERM to its parent), `serving` (after `BeforeBegin`), `draining` and `ended`. Each
start reads the configuration again (`LoadConfig` chooses any). `Reload` forks once per process,
as `RunningServersForked` demands: the flag is set before the launch and never reset, whatever
becomes of the child. `LaunchFails` is the `log.Fatalf` of a parent that cannot launch it.
`outage` records what last ended a process that took requests. When the main process ends the
container ends with it, children included (`command: ./apiserver` in the compose file), and
docker starts another with the same files (`Restart`), so `pidFile` survives everything else.
The dropped error of `os.Remove` in `BeforeBegin` is left out: the file was made by a process of
the same container. Signals go to the main process once it serves; `kill` can hit any process.

### CouchClients and ReadHandlers

`pc[r]` follows request r through `GetDBClients`; `holder` is the mutex. `couchDBClients` is two
words, `pointer` and `length`: the test looks at the pointer, `Install` stores the words in any
order, and an unlocked `Read` may come in between, which the Go memory model allows. A list is
named by the request that made it. `Fail` is the whole error return: the assignment on
`couchdb.go:23` stores the nil list, then the deferred `Unlock` runs.

`handler[r]` is the handler that serves r and `response[r]` the status. `NoClient` is
`r.Intn(0)` on a list that looks empty, a panic that gin's `Recovery` answers with 500.
`AskPeer` sends a query to a peer, which is dialled first (`dials[r]`) unless this process has a
connection to it. `Dial` ends when the peer can be reached and has no fairness: `grpc.Dial` is
called with `WithBlock` and without a deadline. `NotAsked` are the errors before that,
`DialFails` and `PeerFails` those after it, where the nil response panics. `Dispatch` is what
the chaincode makes of the arguments each handler sends; `Envelope` is what the SDK reads
instead of it. `BlockQuery` and `BlockQueryEx` send one argument where the chaincode wants two,
so they have one outcome. `Restart` ends the process with its requests.

### Messages

A user's key pairs are numbered; a certificate or key file holds a number, `Empty` or `Absent`.
`SealFor` is one turn of the loop over `cryptoRecvSend`: read the file of the next addressee,
refuse the factor if that gives no certificate, otherwise seal the key for that pair. `Left` is
the side effect of `ReadFile`, which opens with `O_CREATE` and so leaves an empty file where
there was none; `CertUnread` is the same turn where the file cannot be read. `Show` is
`FormatResponseMessage` on any host, an API server answering a query or an event server handling
an event: every step of its nested `if err == nil` must succeed for the plain text, and whatever
fails leaves the cipher text in place without an error, a failing read of the key included
(`ShowUnread`). `opened` remembers which host showed which encrypted factor in plain. Between
any two steps users are enrolled anew and files installed. Directories under `./crypto` do not
come or go. ECIES is authenticated, so a wrong key fails instead of giving garbage.

## 3. Runs

| Run | Shows |
|---|---|
| `MCInvoke` | `OnlyEndorsedIsOrdered`, `SuccessIsOrdered`, `OrderedOnce`, `NoSenderAfterClose`, `HalfOpenIsTransient`; `CallsReturn`; refinement of `InvokeSpec` |
| `MCInvokeEndorse` | violation of `EndorseResponds` (7.1) |
| `MCSaveData` | `PrefixOrdered`, `OkMeansAllOrdered`, `AtMostOneUnconfirmed`; `RequestsAnswered` |
| `MCSaveDataIds` | violation of `EntriesKept` (7.3) |
| `MCEventServer` | `NoneLeftOut`, `InChainOrder`, `RepeatsOnlyNewest`; `EventsHandled`; refinement of `EventFeed` |
| `MCEventServerBlock` | violation of `AllEventsOfBlock` (7.2) |
| `MCPaging` | `PageIsSlice`, `TotalCountsAll`, `WalkMissesFew` |
| `MCApiServer` | `SelectionMeetsPolicy`, `PidFileNamesLast`, `GoesOnServing` |
| `MCApiServerPidFile` | violation of `PidFileSaved` (7.4) |
| `MCReadHandlers` | `OneList`, `NeverHalfBuilt`, `LateFindsList`; `RequestsAnswered` |
| `MCReadHandlersKeepalive` | violation of `UnreachedIsUnreached` (7.5) |
| `MCMessages` | `SealedForAll`, `OnlyAddressees`, `ReadableUntilRenewed` |

Each passing run also checks the type invariant of its module (`ApiTypeOK` contains the one of
`PeerSelection`). In words:

- **Invoke.** Whatever interleaving of two calls, broken streams, panics and kills: an ordered
  transaction was simulated with status 200 and one payload by *every* selected peer, a caller
  told "success" holds an ordered id, and the price of a lost answer is only uncertainty, never
  a second submission. The half-open window of a connection (`conn` set, `client` not) always
  has a goroutine that is about to close it, so requests after it succeed again.
- **SaveData.** A failed batch leaves a prefix of its factors in the order; the only factor
  whose fate the server does not know is the one that failed. The client, though, gets no ids
  with an error, so it cannot tell how long the prefix is. Two factors that draw one key
  overwrite each other: nothing in the code prevents it (7.3).
- **EventServer.** In a session (one stream) the handled events are exactly the visible ones
  between the attach point and the place `ListenEvent` has reached. Restarts repeat at most the
  newest block. What is committed while the process is down is skipped; the feed says so. A block
  that panics its parser ends the session; while it is the newest, every restart ends there again.
  Behind a stream that broke or was refused the server is deaf: `EventsHandled` exempts it.
- **Paging.** Whenever `(page-1)*size` fits the integer, the answer is exactly that slice, and
  the total is right for every request, in range or not. A client that walks the pages until a
  short one has missed at most as many of the records it began with as were replaced away in the
  meantime: new records only move others to later pages, and each one that goes can move one
  record to a page the client is past. With `gone` = 0 nothing is missed.
- **ApiServer.** One peer of each represented organisation of the policy under `and`, one peer
  under `or`, in whatever order the maps are visited and whatever is edited between starts. A
  container that has begun to serve has a process that takes requests until it is stopped, one
  that serves crashes, the child of a reload cannot be launched (the parent ends by
  `log.Fatalf`), or the handover is over: then the end of the parent, which is the main process
  of the container, ends the container with the child in it. A child that fails or crashes
  before it listens costs no request, but its parent cannot fork again. A pid file, if there is
  one, names the last process that began to serve; that there is one is not true (7.4).
- **ReadHandlers.** All requests of a process that get clients get the same list, and never a part
  of one. The unlocked read can show a list without its length to a request that came before the
  store was finished, which then panics and is answered 500; a request that comes later finds
  the whole list, and no failed creation can erase it. A failed creation hands the lock to the
  next request, so every request is answered that does not wait for a peer this process has never
  reached. A query that does waits for the peer, a keepalive query included.
- **Messages.** What is stored of an encrypted factor is sealed for every receiver and the sender,
  each under one of their own pairs, even if certificates are installed or renewed in the middle
  of the loop; a missing one refuses the factor. Only servers of addressees show it in plain. A
  server that did can do so again until its own key is renewed: a read of the key that fails costs
  that one answer, which has the cipher text and status 200, and spoils no file. After a renewal
  older factors come back as cipher text.

## 4. Bounds

| Run | Bounds | Why enough |
|---|---|---|
| `MCInvoke` | 2 calls, 2 peers, 2 payloads, all selections | the shared state is per peer and two-valued, so a race needs two goroutines; mismatch and partial failure need two peers; with one call in a half-open window and another before it every order of the assignments is there |
| `MCSaveData` | 2 requests of 0 to 2 factors, 2 keys | a batch with a middle and two interleaved requests; keys equal and different; empty batches |
| `MCSaveDataIds` | 1 request of 2 factors, 2 keys | two commits under one key |
| `MCEventServer`, `MCEventServerBlock` | chain of 1 to 3 blocks, 3 starts | a first session, one that repeats the newest block, one that starts after a gap; blocks with every kind of transaction, one that panics behind an event |
| `MCPaging` | 3 records, 3-bit integers, 1 record replaced away per walk | pages that are full, short and empty, walks over three pages, wrapped products; one record gone is enough to make a walker miss one, so the property is not idle |
| `MCApiServer`, `MCApiServerPidFile` | 3 peers, 2 organisations, all policies and rules; 3 process starts | an organisation with none, one, several peers, inside and outside the policy; a start, a reload and a restart in each order, so that a pid file is written, removed and written again |
| `MCReadHandlers`, `MCReadHandlersKeepalive` | 3 requests, 2 CouchDB nodes, 2 peers | one request creates, one waits for the lock, one comes later; two nodes, so that a list can be half built; a peer that is connected and one that is not |
| `MCMessages` | 3 users with a host each, 2 factors (one and two receivers), 2 pairs for one user | a renewal between two reads of one factor and between sealing and showing; a receiver without a directory on the sealing host |

`MaxBatch`, `MaxHeight`, `MaxStarts`, `MaxKey`, `Modulus`, `MaxGone`, `NumNodes` and `MaxPair` are
bounds of the instances. Those in guards are `MaxHeight` and `MaxStarts` of the event server,
`MaxStarts` of the API server, `MaxPair` of the users and `MaxGone` of the walk, because chain,
restarts, renewals and overwrites have no end. Runs
with `CHECK_DEADLOCK FALSE` say why in their `.cfg`: these systems reach their bound or a final
state; `Invoke`, `SaveData`, `Paging` and `Messages` never stop.

## 5. Fairness

- `Invoke`: weak fairness of each request goroutine and each `Endorse` goroutine (the Go
  scheduler), of the restart (docker `restart: always`). This includes that `grpc.Dial`, which
  the code calls with `WithBlock` and no deadline, ends, i.e. that a configured peer can be
  dialled sooner or later, and that an open call returns an answer or an error: the keepalive
  parameters set on the connections break dead ones. `Begin`, `Orderer` and `Kill` have no
  fairness: a client may never call, an orderer may never answer (`Receive` then ends with the
  error of the broken stream).
- `SaveData`: each handler, and the return of each `Invoke`, which is `CallsReturn`.
- `EventServer`: the start, the main goroutine, the receiving of a block that is there (or the
  panic it causes), and the peer's reaction to a seek. Not the failure or refusal of a stream, not
  commits, not kills. `EventsHandled` promises nothing once the peer has ended the stream: the code
  never opens another (hazard `event.go:162`).
- `ReadHandlers`: the steps of each handler: the Go scheduler; a mutex that is free goes to one
  that waits (Go's is starvation-free, and a request takes the lock at most once); the creation
  of a client and a query to CouchDB end by `request_timeout`, a query on a connection to a peer by
  its keepalive, the probe by the end of `nc`. Requests, restarts and `grpc.Dial` have no fairness:
  `RequestsAnswered` speaks of requests that wait for no dial.
- `Paging`, `PeerSelection`, `ApiServer`, `Messages`: safety only.

## 6. Proofs

`InvokeProofs` proves, for every finite set of peers and any sets of calls, selections and
payloads:

| Theorem | States |
|---|---|
| `Typing` | `Spec => []TypeOK` |
| `Inductive` | `Spec => []IInv` |
| `EndorsedTheorem` | `Spec => []OnlyEndorsedIsOrdered` |
| `SuccessTheorem` | `Spec => []SuccessIsOrdered` |
| `OnceTheorem` | `Spec => []OrderedOnce` |
| `CloseTheorem` | `Spec => []NoSenderAfterClose` |
| `HalfOpenTheorem` | `Spec => []HalfOpenIsTransient` |
| `Refinement` | `Spec => ImplementsInvokeSpec` |

None of the properties is inductive as it stands. `IInv` strengthens them: `CountInv` says the
loop counter of `sendToPeers` equals the number of its goroutines that are done, and that
goroutines belong to selected peers, so when the counter reaches the number of targets
(`AllDone`) no goroutine is left and every reply is there; `AgreeInv` says a call past the
assembly has the agreeing replies of all its targets, which never change after; `NetInv` relates
what is on the wire, sent, acknowledged and ordered, so that an acknowledgement means ordered and
an envelope on the wire is not ordered yet. `SuccessIsOrdered` and `OrderedOnce` are conjuncts.
`AbstractStep` maps every step to a step of `InvokeSpec` or a stutter; assembling, dialling and
collecting stutter, the end of the process fails all pending calls at once. Assumption:
`InvokeAssumption`. Counting uses the cardinality theorems of the library.

`PagingProofs` proves, for every ledger size and integer width (`PagingAssumption`: the ledger
is smaller than the integers):

| Theorem | States |
|---|---|
| `Typing` | `Spec => []TypeOK`: the unsigned variables stay in range |
| `LoopInvariant` | `Spec => []LoopInv` |
| `TotalTheorem` | `Spec => []TotalCountsAll` |
| `PageTheorem` | `Spec => []PageIsSlice` |
| `WalkTheorem` | `Spec => []WalkMissesFew` |

`LoopInv` is the loop invariant of `GetValueByDSL`: all records read are counted; while the
request is in range, `skipSize` is what is left of the offset, `needSize` what is left of the
page, and `resultList` the part of the page already passed.

`WalkTheorem` needs more, `WalkState`: of the records the walk began with and that were not
replaced since, those not yet seen although they have fewer than `(due - 1) * size` records before
them number at most `gone` (`Walked`; `PageWalked` is the same for a running query, counted in its
snapshot). A commit under a new key moves records to later pages only, so the places before the
offset hold no more of them than before (`NewHides`). A record that goes takes one place away, so
at most one record slides below the offset (`PlaceLost`, `GoneHides`), and `gone` counts it. In a
snapshot the n-th record has n - 1 before it (`Position`), and a snapshot has them all
(`SnapshotComplete`), so the answer to the due page shows every record on it and hides none that
was not hidden (`PageHides`). A page that is full ends within the ledger, which is smaller than the
integers, so the offset of the next page does not wrap around (`NextOffset`); after a page that is
short the property holds for all that is left, and seeing more or losing more of it keeps it
(`FewMonotone`). The theorem therefore has no condition on ranges.

`EventServerProofs` proves, for any blocks of any transactions, any height of the chain and any
number of starts (`BlocksAssumption`):

| Theorem | States |
|---|---|
| `Typing` | `Spec => []TypeOK` |
| `Inductive` | `Spec => []ServerInv` |
| `CompleteTheorem` | `Spec => []NoneLeftOut` |
| `OrderTheorem` | `Spec => []InChainOrder` |
| `RepeatsTheorem` | `Spec => []RepeatsOnlyNewest` |
| `Refinement` | `Spec => ImplementsFeed` |

`ServerInv` adds where things are between the goroutines: before `Listen` there is no stream
(`IdleInv`); the block in the rendezvous is the one before the cursor, and a stream that waits
for its seek request has neither (`ListenInv`); the block `ListenEvent` ranges over is the one
before the block that is offered, or before the cursor (`MainInv`). `SamePlace` is then the
argument for most steps: receiving a block, taking it and finishing it each leave `ListenEvent`
past the same events, the last because what `parseFullBlock` returns is a first part of the
block (`ParsedPrefix`); a committed block adds events behind all places (`VisibleAppend`); and
a turn of the loop adds its own transaction to what is passed and, if it is visible, to what is
handled (`TurnPasses`, `TurnHandles`). With nothing left out, everything handled lies before the
transaction of a turn (`HandledBefore`), which gives the order. The refinement maps the position
of the feed to the last event of the session, or to the start of its first block. `TurnHandsOut`
shows that nothing visible lies between the position and the event of a turn: it would be
passed, hence handled, hence not behind the last event handled.

`SaveDataProofs` proves, for any requests and keys and any size of a batch
(`SaveDataAssumption`):

| Theorem | States |
|---|---|
| `Typing` | `Spec => []TypeOK` |
| `Inductive` | `Spec => []SaveInv` |
| `PrefixTheorem` | `Spec => []PrefixOrdered` |
| `OkTheorem` | `Spec => []OkMeansAllOrdered` |
| `UnconfirmedTheorem` | `Spec => []AtMostOneUnconfirmed` |
| `CallerTheorem` | `Spec => Invocation!Spec` |

The argument is the loop of the handler. `LoopInv` (`LoopOf` for each request): the collected
ids are those of the factors before `next`, and "ok" is answered only behind the last.
`CallsInv` (`CallOf`): the calls before `next` succeeded, those after it were never begun, and
only a handler that waits has a pending one, so a crash leaves none. `OrderInv` is what
`InvokeSpec` keeps: a success is ordered, what is ordered was submitted, what was submitted was
begun. When the orderer takes a factor, however late, the factors before it in its batch are
therefore in the order already. `CallerTheorem` is the other half of the
composition: the handlers use the calls only as `InvokeSpec` allows, and `Refinement` says that
`Invoke` implements it.

`PeerSelectionProofs` has the lemmas on the lists of peers and `ApiServerProofs` the theorems,
for any finite sets of peer and organisation names, any number of starts and any configuration at
each (`HostAssumption`: a host is not the name of an organisation; `StartsAssumption`):

| Theorem | States |
|---|---|
| `Typing` | `ApiSpec => []ApiTypeOK` |
| `ListsTheorem` | `ApiSpec => []SelectionInv` |
| `SelectionTheorem` | `ApiSpec => []SelectionMeetsPolicy` |
| `PidFileTheorem` | `ApiSpec => []PidFileNamesLast` |
| `ServingTheorem` | `ApiSpec => []GoesOnServing` |

`SelectionInv` says what the loops of `SetSendPeerOrder` have built: the list of an organisation
holds one eligible peer of that organisation at most (that it holds no more is the code's, see
8; the host that is the key of the appended list is no organisation and so has an empty one),
and the flat list exists only under the rule "or". Under "and" the selection then has one peer
for every list, all distinct, because a peer has one organisation. `PidFileNamesLast` is
inductive with the types. `HandoverInv` is the argument of `ServingTheorem`: while nothing of
what the property names has happened, the main process serves, or it drains and the newest
process is its child and has the listener; a parent begins to drain unasked only when its child
listens.

`ReadHandlersProofs` proves, for any requests and any number of CouchDB nodes
(`CouchAssumption`):

| Theorem | States |
|---|---|
| `Typing` | `Spec => []TypeOK` |
| `Inductive` | `Spec => []HandlersInv` |
| `OneListTheorem` | `Spec => []OneList` |
| `HalfBuiltTheorem` | `Spec => []NeverHalfBuilt` |
| `LateTheorem` | `Spec => []LateFindsList` |

`CouchInv` is the double check: the middle part is run by the holder of the lock, a creation
runs on an empty list, and between two stores both words of the list are there or neither, so
whoever was given clients has the current list. `LateInv` follows a request that came when the
list was there: it never reaches the lock, and nobody takes the list away.

`MessagesProofs` proves, for any users, hosts and factors and any number of renewals
(`MessagesAssumption`):

| Theorem | States |
|---|---|
| `Typing` | `Spec => []TypeOK` |
| `Inductive` | `Spec => []MessagesInv` |
| `SealedTheorem` | `Spec => []SealedForAll` |
| `AddresseesTheorem` | `Spec => []OnlyAddressees` |
| `ReadableTheorem` | `Spec => []ReadableUntilRenewed` |

`SealingInv` is the loop invariant of `FormatRequestMessage`: the factor is sealed for exactly
the addressees before `next`. `DataInv` says that encrypted data never goes out plain.
`ShownInv` says that a host that ever showed a factor in plain has a sealed key and a private key
at least as new, which installing files and reading them, with or without success, keep.

Only model-checked: the liveness properties (`CallsReturn`, `RequestsAnswered`, `EventsHandled`;
the prover has no fairness reasoning and no `ENABLED`). Every other property of the passing runs
is a theorem.

## 7. Disagreements found

1. `peer.go:43` - `Endorse` stores `p.conn` before `p.client` on an object all requests share. A
   second request in between calls a nil client outside gin's recovery and the process exits;
   the comment above `sendToPeers` relies on `Endorse` guaranteeing a response
   (`MCInvokeEndorse`).
2. `event.go:240` (event server) - `parseFullBlock` gives up at the first transaction it cannot
   decode and `ListenEvent` ignores the error; the comment in `client.go:482` promises all
   transactions of the block (`MCEventServerBlock`).
3. `factor.go:63` - `FabricTxId`, the ledger key, is six random characters and may repeat; the
   chaincode's `PutState` (`handler.go:32`) then replaces a factor that was answered 200. The
   field is documented as a uuid in `define/factor.go:14` (`MCSaveDataIds`).
4. `main.go:81` - `BeforeBegin` removes an existing `apiserver.pid` and writes none, and nothing
   removes it at the end of a process, so the server after a reload, a restart or a crash serves
   without the file that the comment on line 79 says is saved (`MCApiServerPidFile`).
5. `sdk.go:95` - `PeerKeepalive` compares the envelope of the peer's answer with `"Reached"`
   instead of the chaincode's answer inside it, so `KeepaliveQuery` answers 601 and logs that
   the peer cannot be reached though its chaincode said it was (`MCReadHandlersKeepalive`).

Three more things the models show, without a run of their own:

- `orgMap[v.OrgName] = append(orgMap[v.Host], ...)` (`sdk.go:521`) keeps one peer per organisation,
  though the comment on the map says peer names: `SelectionInv` proves that a list never has two.
- After a reload the drained parent ends and the container with it (`Drained`, `EndOf`), though the
  README of `endless` promises that the new binary serves all new requests; `GoesOnServing` has
  to exempt it.
- A keepalive query to a peer that was never reached waits in `grpc.Dial` and is not answered,
  though the handler means to report just that; `RequestsAnswered` has to exempt it.

## 8. Not modelled

- Ciphers, certificates, signatures, protobuf and JSON encodings, logging, HTTP headers: data
  the properties do not tell apart. The conversions that matter are modelled by what they do:
  the unsigned offset of a page, which key opens what, and which payload of an answer is read.
- `fabric`, `grpc`, `gin` and other libraries: external actions (the orderer, the peer's stream,
  commits). Of `endless` the path of one plain server is modelled; TLS, several servers and the
  other signals are not used.
- The report code of the SDK (`sdk.BlockQuery`, `sdk.BlockQueryEx`, `GetBlockByTxids`,
  `checkAndRemove`, `sdk.go:254-444`): it needs a list of transactions that no request has.
  `sdk.Query` sends one argument, the chaincode refuses fewer than two, and the payload that
  `sdk.Query` parses is not the chaincode's anyway. A model of it would have to invent its callers.
- `CheckAndRecoverEvent` with `current.info`, the message queue and the user alias: their calls
  are commented out in `eventserver/main.go`, and nothing sends on the queue's channel.
- The records of a `DslQuery`: paging parameters are echoed and the total is added to, not
  applied; sequential and visible in `sdk.go:126-167`.
- The event of an invalid transaction being handled like any other, and an event whose data a
  receiver cannot open being handed on as cipher text: they happen always, and no document says
  otherwise.
- `getSendOrderName` picks a random orderer; `Invoke` has one.

## 9. Plan

Done, in this order: `Invoke` with `InvokeSpec` and its proofs, `SaveData`, `EventServer` with
`EventFeed`, `Paging` with its proofs, `PeerSelection`, `CouchClients` and `ReadHandlers`,
`Messages`, `ApiServer`, the proofs about `SaveData` and the last five, and those about
`EventServer` and the walk over pages.

Next module: `FactorSystem`, `SaveData` composed with `EventFeed`: a factor that was answered
"ok" and committed valid becomes an event unless the event server was down, and a receiver sees
the factors of a batch in the order of the batch. Proofs: what this composition needs beyond
`PrefixTheorem` and `Refinement`.
