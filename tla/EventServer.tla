----------------------------- MODULE EventServer -----------------------------
(***************************************************************************)
(* The event server: main and ListenEvent (one goroutine), the Listen      *)
(* goroutine of the vendored gohfc client, the unbuffered channel between  *)
(* them, the Deliver stream of the peer, and restarts of the process.      *)
(*                                                                         *)
(* Block number n of the chain is chain[n + 1].                            *)
(***************************************************************************)
EXTENDS EventBlocks

CONSTANT MaxStarts      \* bound: how often the process is started

VARIABLES
    chain,          \* the blocks the peer has committed
    server,         \* the main goroutine
    height,         \* currentBlockHeight, set by GetBlockHeight
    listener,       \* the goroutine of EventListener.Listen
    stream,         \* the Deliver stream, as the peer serves it
    cursor,         \* the next block the peer sends on the stream
    held,           \* the block the listener offers on the channel
    current,        \* the block ListenEvent ranges over
    index,          \* the transaction of it that is next
    first,          \* history: where the stream of this session began
    session,        \* history: the events handled in this session, in order
    earlier,        \* history: the events handled by earlier sessions
    starts          \* history: how often the process was started

mainVars == <<server, height, current, index>>
listenVars == <<listener, stream, cursor, held>>
historyVars == <<first, session, earlier>>
vars == <<chain, mainVars, listenVars, historyVars, starts>>

Handled == {session[n] : n \in 1..Len(session)}

TypeOK ==
    /\ chain \in Seq(Blocks)
    /\ server \in {"down", "checking", "attaching", "waiting", "handling"}
    /\ height \in 0..Len(chain)
    /\ listener \in {"none", "receiving", "offering", "failing", "ended"}
    /\ stream \in {"none", "seeking", "open", "refused", "broken"}
    /\ cursor \in 0..(Len(chain) + 1)
    /\ held \in 0..Len(chain)
    /\ current \in 0..Len(chain)
    /\ index \in Nat
    /\ first \in 1..Len(chain)
    /\ session \in Seq(Nat \X Nat)
    /\ earlier \in SUBSET (Nat \X Nat)
    /\ starts \in Nat

\* The chain has a first block before any event server attaches to it.
Init ==
    /\ chain \in {<<block>> : block \in Blocks}
    /\ server = "down"
    /\ height = 0
    /\ listener = "none"
    /\ stream = "none"
    /\ cursor = 0
    /\ held = 0
    /\ current = 0
    /\ index = 0
    /\ first = 1
    /\ session = <<>>
    /\ earlier = {}
    /\ starts = 0

-----------------------------------------------------------------------------
(* main                                                                    *)

\* main up to GetBlockHeight; the globals are fresh.
Start ==
    /\ server = "down"
    /\ starts < MaxStarts
    /\ server' = "checking"
    /\ starts' = starts + 1
    /\ UNCHANGED <<chain, height, current, index, listenVars, historyVars>>

\* The end of the process: its goroutines and its stream end with it.
Exit ==
    /\ server' = "down"
    /\ height' = 0
    /\ listener' = "none"
    /\ stream' = "none"
    /\ cursor' = 0
    /\ held' = 0
    /\ current' = 0
    /\ index' = 0

\* GetBlockHeight asks the peer; main panics when it cannot.
CheckHeight ==
    /\ server = "checking"
    /\ \/ /\ height' = Len(chain)
          /\ server' = "attaching"
          /\ UNCHANGED <<current, index, listenVars>>
       \/ Exit
    /\ UNCHANGED <<chain, historyVars, starts>>

\* ListenEventFullBlock: connect, send the seek request (the peer acts on it
\* later), start the Listen goroutine; main panics on an error.
Listen ==
    /\ server = "attaching"
    /\ \/ /\ server' = "waiting"
          /\ listener' = "receiving"
          /\ stream' = "seeking"
          /\ UNCHANGED <<height, current, index, cursor, held>>
       \/ Exit
    /\ UNCHANGED <<chain, historyVars, starts>>

\* Fault: the Listen goroutine serves one block only.
TakeBlockOnce ==
    /\ server = "waiting"
    /\ listener = "offering"
    /\ server' = "handling"
    /\ current' = held
    /\ index' = 1
    /\ listener' = "ended"
    /\ held' = 0
    /\ UNCHANGED <<chain, height, stream, cursor, historyVars, starts>>

\* b := <-notfy, the channel is unbuffered.
TakeBlock ==
    /\ server = "waiting"
    /\ listener = "offering"
    /\ server' = "handling"
    /\ current' = held
    /\ index' = 1
    /\ listener' = "receiving"
    /\ held' = 0
    /\ UNCHANGED <<chain, height, stream, cursor, historyVars, starts>>

\* b.Error is not looked at: a response without transactions does nothing.
TakeError ==
    /\ server = "waiting"
    /\ listener = "failing"
    /\ listener' = "ended"
    /\ UNCHANGED <<chain, mainVars, stream, cursor, held, historyVars, starts>>

\* Fault: a transaction without an event ends the loop over the block.
HandleTxBreak ==
    LET kind == chain[current][index] IN
    /\ server = "handling"
    /\ index \in Parsed(chain[current])
    /\ kind # "hollow"
    /\ session' = IF kind = "saved" THEN Append(session, <<current, index>>)
                                    ELSE session
    /\ index' = IF kind = "saved" THEN index + 1 ELSE Len(chain[current]) + 1
    /\ UNCHANGED <<chain, server, height, current, listenVars, first, earlier, starts>>

\* One turn of the loop over b.Transactions: the filter handler on the first
\* event, if there is one.
HandleTx ==
    LET kind == chain[current][index] IN
    /\ server = "handling"
    /\ index \in Parsed(chain[current])
    /\ kind # "hollow"
    /\ session' = IF kind = "saved" THEN Append(session, <<current, index>>)
                                    ELSE session
    /\ index' = index + 1
    /\ UNCHANGED <<chain, server, height, current, listenVars, first, earlier, starts>>

\* (*iReqs)[0] of an empty payload: an index out of range in main.
HandlePanic ==
    /\ server = "handling"
    /\ index \in Parsed(chain[current])
    /\ chain[current][index] = "hollow"
    /\ Exit
    /\ UNCHANGED <<chain, historyVars, starts>>

BlockDone ==
    /\ server = "handling"
    /\ index \notin Parsed(chain[current])
    /\ server' = "waiting"
    /\ current' = 0
    /\ index' = 0
    /\ UNCHANGED <<chain, height, listenVars, historyVars, starts>>

Kill ==
    /\ server # "down"
    /\ Exit
    /\ UNCHANGED <<chain, historyVars, starts>>

-----------------------------------------------------------------------------
(* The Listen goroutine                                                    *)

\* Fault: a block is received that the peer does not have yet.
ReceiveUnready ==
    /\ listener = "receiving"
    /\ stream = "open"
    /\ cursor <= MaxHeight
    /\ listener' = "offering"
    /\ held' = cursor
    /\ cursor' = cursor + 1
    /\ UNCHANGED <<chain, mainVars, stream, historyVars, starts>>

\* Fault: the stream delivers a block again.
ReceiveAgain ==
    /\ listener = "receiving"
    /\ stream = "open"
    /\ cursor <= Len(chain)
    /\ listener' = "offering"
    /\ held' = cursor
    /\ cursor' \in {cursor, cursor + 1}
    /\ UNCHANGED <<chain, mainVars, stream, historyVars, starts>>

\* client.Recv and parseFullBlock of the next block.  response.Error, and with it
\* whether the block was parsed to its end, is lost: ListenEvent ranges over what
\* the response holds.
Receive ==
    /\ listener = "receiving"
    /\ stream = "open"
    /\ cursor <= Len(chain)
    /\ ~Panics(chain[cursor])
    /\ listener' = "offering"
    /\ held' = cursor
    /\ cursor' = cursor + 1
    /\ UNCHANGED <<chain, mainVars, stream, historyVars, starts>>

\* A panic of parseFullBlock is recovered nowhere: the process ends, with what
\* ListenEvent still had to handle.
ReceivePanic ==
    /\ listener = "receiving"
    /\ stream = "open"
    /\ cursor <= Len(chain)
    /\ Panics(chain[cursor])
    /\ Exit
    /\ UNCHANGED <<chain, historyVars, starts>>

\* The peer ends the stream with a status: no case of the type switch is its, so
\* the loop goes on to the next Recv and ListenEvent hears nothing.
ReceiveStatus ==
    /\ listener = "receiving"
    /\ stream \in {"seeking", "open"}
    /\ stream' = "refused"
    /\ UNCHANGED <<chain, mainVars, listener, cursor, held, historyVars, starts>>

\* client.Recv fails: one error response, and the goroutine returns.  Nobody
\* opens a new stream.
ReceiveError ==
    /\ listener = "receiving"
    /\ listener' = "failing"
    /\ stream' = "broken"
    /\ UNCHANGED <<chain, mainVars, cursor, held, historyVars, starts>>

-----------------------------------------------------------------------------
(* The peer                                                                *)

CommitBlock ==
    /\ Len(chain) < MaxHeight
    /\ \E block \in Blocks : chain' = Append(chain, block)
    /\ UNCHANGED <<mainVars, listenVars, historyVars, starts>>

\* Fault: the listener seeks the oldest block.
SeekOldest ==
    /\ stream = "seeking"
    /\ stream' = "open"
    /\ cursor' = 1
    /\ first' = 1
    /\ session' = <<>>
    /\ earlier' = earlier \cup Handled
    /\ UNCHANGED <<chain, mainVars, listener, held, starts>>

\* Fault: the stream begins after the newest block.
SeekAfterNewest ==
    /\ stream = "seeking"
    /\ stream' = "open"
    /\ cursor' = Len(chain) + 1
    /\ first' = Len(chain)
    /\ session' = <<>>
    /\ earlier' = earlier \cup Handled
    /\ UNCHANGED <<chain, mainVars, listener, held, starts>>

\* The peer reads the seek request: the stream begins with the block that is
\* newest now.
SeekNewest ==
    /\ stream = "seeking"
    /\ stream' = "open"
    /\ cursor' = Len(chain)
    /\ first' = Len(chain)
    /\ session' = <<>>
    /\ earlier' = earlier \cup Handled
    /\ UNCHANGED <<chain, mainVars, listener, held, starts>>

-----------------------------------------------------------------------------

MainStep == CheckHeight \/ Listen \/ TakeBlock \/ TakeError \/ HandleTx \/ HandlePanic \/ BlockDone
ListenerStep == Receive \/ ReceivePanic \/ ReceiveStatus \/ ReceiveError
PeerStep == CommitBlock \/ SeekNewest

Next == Start \/ MainStep \/ ListenerStep \/ PeerStep \/ Kill

Spec == Init /\ [][Next]_vars

\* The Go scheduler runs both goroutines, docker restarts the process, and a
\* peer answers a seek request.  Nothing forces a block to be committed, a
\* stream to break or the process to be killed.
Fairness ==
    /\ WF_vars(Start)
    /\ WF_vars(MainStep)
    /\ WF_vars(Receive \/ ReceivePanic)
    /\ WF_vars(SeekNewest)

FairSpec == Spec /\ Fairness
-----------------------------------------------------------------------------
(* Properties                                                              *)

\* The events of this session that ListenEvent is past.
Passed ==
    {e \in Visible(chain) :
        /\ e[1] >= first
        /\ IF server = "handling" THEN Before(e, <<current, index>>)
           ELSE IF listener = "offering" THEN e[1] < held
           ELSE e[1] < cursor}

\* While a stream serves the server, the handled events are exactly the visible
\* ones between the first block of the stream and the place ListenEvent has
\* reached: none is left out between two blocks, in the rendezvous or after an
\* undecodable transaction of an earlier block, and none is invented.
NoneLeftOut ==
    server \in {"waiting", "handling"} /\ stream \in {"open", "refused", "broken"} /\ cursor > 0
        => Handled = Passed

\* The comment above ListenForFullBlock (client.go): it returns "list of all
\* transactions in this block", so that no event of a block ListenEvent is past
\* is left out, whatever else the block holds.
AllEventsOfBlock ==
    \A b \in first..Len(chain) :
        server = "waiting" /\ stream = "open" /\ b < cursor
            /\ (listener = "offering" => b # held)
        => \A t \in 1..Len(chain[b]) : chain[b][t] = "saved" => <<b, t>> \in Handled

\* In one session events are handled in chain order, and none twice.
InChainOrder ==
    \A m, n \in 1..Len(session) : m < n => Before(session[m], session[n])

\* A restart repeats at most the events of one block: everything handled by
\* earlier sessions lies before the first block of the stream, or in it.
RepeatsOnlyNewest ==
    \A e \in earlier : e[1] <= first

\* Every visible event from the first block of a session on is handled, unless
\* the process ends or the peer ends the stream first.
Reached(e) == e \in Handled \/ server = "down" \/ stream \in {"refused", "broken"}
Positions == {<<b, t>> : b \in 1..MaxHeight, t \in UNION {1..Len(block) : block \in Blocks}}
EventsHandled ==
    \A e \in Positions :
        (e \in Visible(chain) /\ stream = "open" /\ e[1] >= first) ~> Reached(e)

\* The event server implements the feed.
Feed == INSTANCE EventFeed WITH
    mark <- IF session = <<>> THEN <<first, 0>> ELSE session[Len(session)]

ImplementsFeed == Feed!FeedSpec
=============================================================================
