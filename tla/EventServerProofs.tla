------------------------- MODULE EventServerProofs -------------------------
(***************************************************************************)
(* Proofs about EventServer, for any blocks, any height of the chain and   *)
(* any number of starts: no event of a session is left out, events come in *)
(* chain order, a restart repeats one block at most, and the event server  *)
(* implements EventFeed.                                                   *)
(***************************************************************************)
EXTENDS EventServer, SequenceTheorems, TLAPS

-----------------------------------------------------------------------------
(* The inductive invariant                                                 *)

\* Before the Listen goroutine there is nothing of a stream.
IdleInv ==
    server \in {"down", "checking", "attaching"} =>
        listener = "none" /\ stream = "none" /\ cursor = 0 /\ held = 0

\* The Listen goroutine reads an open stream; what it offers is the block before
\* the cursor.  Until the peer has acted on the seek request there is no cursor.
ListenInv ==
    /\ stream = "none" => listener = "none"
    /\ stream = "seeking" => listener = "receiving" /\ server = "waiting" /\ cursor = 0
    /\ stream = "open" => listener \in {"receiving", "offering"} /\ cursor >= first
    /\ stream = "refused" => listener = "receiving" /\ (cursor = 0 \/ cursor >= first)
    /\ stream = "broken" => listener \in {"failing", "ended"}
    /\ listener = "offering" => held = cursor - 1 /\ held >= first
    /\ listener # "offering" => held = 0

\* ListenEvent is in the block before the one that is offered or comes next.
MainInv ==
    server = "handling" =>
        /\ stream \in {"open", "refused", "broken"} /\ cursor > 0
        /\ current = (IF listener = "offering" THEN held ELSE cursor) - 1
        /\ current >= first
        /\ index > 0

\* A session handles visible events of its stream.
SessionInv == \A n \in 1..Len(session) : session[n] \in Visible(chain) /\ session[n][1] >= first

ServerInv ==
    /\ TypeOK
    /\ IdleInv /\ ListenInv /\ MainInv
    /\ SessionInv
    /\ NoneLeftOut /\ InChainOrder /\ RepeatsOnlyNewest

-----------------------------------------------------------------------------
(* Blocks and events                                                       *)

\* What a visible event is: a transaction parseFullBlock returns, with a message.
LEMMA VisibleEvent ==
    ASSUME NEW blocks, NEW e
    PROVE  e \in Visible(blocks) <=>
               /\ e = <<e[1], e[2]>>
               /\ e[1] \in 1..Len(blocks)
               /\ e[2] \in Parsed(blocks[e[1]])
               /\ blocks[e[1]][e[2]] = "saved"
    BY DEF Visible

\* parseFullBlock returns a first part of the block.
LEMMA ParsedPrefix ==
    ASSUME NEW block \in Blocks
    PROVE  /\ Parsed(block) \subseteq Nat \ {0}
           /\ \A t \in Parsed(block) : \A u \in Nat \ {0} : u <= t => u \in Parsed(block)
<1>1. Len(block) \in Nat
    BY BlocksAssumption
<1> QED
    BY <1>1 DEF Parsed

\* A visible event is a position of the chain.
LEMMA VisiblePosition ==
    ASSUME NEW blocks \in Seq(Blocks), NEW e \in Visible(blocks)
    PROVE  /\ e \in Nat \X Nat /\ e = <<e[1], e[2]>>
           /\ e[1] \in Nat /\ e[1] >= 1 /\ e[1] <= Len(blocks)
           /\ e[2] \in Nat /\ e[2] >= 1
           /\ blocks[e[1]] \in Blocks /\ e[2] \in Parsed(blocks[e[1]])
<1>1. e = <<e[1], e[2]>> /\ e[1] \in 1..Len(blocks) /\ e[2] \in Parsed(blocks[e[1]])
    BY VisibleEvent
<1>2. blocks[e[1]] \in Blocks
    BY <1>1, ElementOfSeq
<1>3. e[2] \in Nat /\ e[2] >= 1
    BY <1>1, <1>2, ParsedPrefix
<1>4. Len(blocks) \in Nat
    BY LenProperties
<1> QED
    BY <1>1, <1>2, <1>3, <1>4

\* A committed block adds its own events and hides none.
LEMMA VisibleAppend ==
    ASSUME NEW blocks \in Seq(Blocks), NEW block \in Blocks
    PROVE  \A e : e \in Visible(blocks) <=>
                      e \in Visible(Append(blocks, block)) /\ e[1] # Len(blocks) + 1
<1> DEFINE more == Append(blocks, block)
<1>1. /\ more \in Seq(Blocks) /\ Len(more) = Len(blocks) + 1 /\ Len(blocks) \in Nat
      /\ \A b \in 1..Len(blocks) : more[b] = blocks[b]
    BY AppendProperties, LenProperties
<1> HIDE DEF more
<1>2. ASSUME NEW e
      PROVE  e \in Visible(blocks) <=> e \in Visible(more) /\ e[1] # Len(blocks) + 1
  <2>1. CASE e[1] \in 1..Len(blocks)
    <3>1. more[e[1]] = blocks[e[1]] /\ e[1] \in 1..Len(more) /\ e[1] # Len(blocks) + 1
        BY <1>1, <2>1
    <3> QED
        BY <2>1, <3>1, VisibleEvent
  <2>2. CASE e[1] \notin 1..Len(blocks)
    <3>1. e[1] \in 1..Len(more) => e[1] = Len(blocks) + 1
        BY <1>1, <2>2
    <3> QED
        BY <2>2, <3>1, VisibleEvent
  <2> QED
      BY <2>1, <2>2
<1> QED
    BY <1>2 DEF more

\* Where the integers of a state lie.
LEMMA Numbers ==
    ASSUME TypeOK
    PROVE  /\ chain \in Seq(Blocks) /\ Len(chain) \in Nat
           /\ cursor \in Nat /\ cursor <= Len(chain) + 1
           /\ held \in Nat /\ held <= Len(chain)
           /\ current \in Nat /\ current <= Len(chain)
           /\ first \in Nat /\ first >= 1 /\ first <= Len(chain)
           /\ index \in Nat
<1>1. chain \in Seq(Blocks) /\ Len(chain) \in Nat
    BY LenProperties DEF TypeOK
<1> QED
    BY <1>1 DEF TypeOK

\* A handled event is a visible one of this stream.
LEMMA HandledVisible ==
    ASSUME SessionInv, NEW e \in Handled PROVE e \in Visible(chain) /\ e[1] >= first
    BY DEF SessionInv, Handled

\* ListenEvent is past the event e.
Past(e) ==
    /\ e[1] >= first
    /\ IF server = "handling" THEN Before(e, <<current, index>>)
       ELSE IF listener = "offering" THEN e[1] < held
       ELSE e[1] < cursor

\* While a stream serves the server.
Serving == server \in {"waiting", "handling"} /\ stream \in {"open", "refused", "broken"} /\ cursor > 0

\* NoneLeftOut, event by event.
LEMMA PassedEvents ==
    /\ Passed = {e \in Visible(chain) : Past(e)}
    /\ NoneLeftOut <=> (Serving => Handled = {e \in Visible(chain) : Past(e)})
    BY DEF Passed, Past, NoneLeftOut, Serving

-----------------------------------------------------------------------------
(* Steps that handle no event and keep the chain                           *)

\* What a session has handled does not change with the goroutines.
LEMMA HistoryKept ==
    ASSUME SessionInv, InChainOrder, RepeatsOnlyNewest, UNCHANGED <<chain, historyVars>>
    PROVE  SessionInv' /\ InChainOrder' /\ RepeatsOnlyNewest' /\ Handled' = Handled
    BY DEF SessionInv, InChainOrder, RepeatsOnlyNewest, historyVars, Handled

\* NoneLeftOut is kept by a step that leaves ListenEvent past the same events.
LEMMA SamePlace ==
    ASSUME NoneLeftOut, Serving' => Serving, UNCHANGED <<chain, historyVars>>,
           Serving' => \A e \in Visible(chain) : Past(e)' <=> Past(e)
    PROVE  NoneLeftOut'
<1>1. Handled' = Handled /\ Visible(chain)' = Visible(chain)
    BY DEF Handled, historyVars
<1>2. NoneLeftOut' <=> (Serving' => Handled' = {e \in Visible(chain)' : Past(e)'})
    BY DEF Passed, Past, NoneLeftOut, Serving
<1>3. Serving' => {e \in Visible(chain) : Past(e)'} = {e \in Visible(chain) : Past(e)}
    OBVIOUS
<1> QED
    BY <1>1, <1>2, <1>3, PassedEvents

\* The end of the process keeps ServerInv.
LEMMA ExitStep ==
    ASSUME ServerInv, Exit, UNCHANGED <<chain, historyVars, starts>> PROVE ServerInv'
<1>1. TypeOK'
  <2>1. 0 \in 0..Len(chain) /\ 0 \in 0..(Len(chain) + 1)
      BY Numbers DEF ServerInv
  <2> QED
      BY <2>1 DEF ServerInv, TypeOK, Exit, historyVars
<1>2. IdleInv' /\ ListenInv' /\ MainInv' /\ NoneLeftOut'
    BY DEF Exit, IdleInv, ListenInv, MainInv, NoneLeftOut
<1> QED
    BY <1>1, <1>2, HistoryKept DEF ServerInv

\* A start of the process keeps ServerInv.
LEMMA StartStep == ASSUME ServerInv, Start PROVE ServerInv'
<1>1. TypeOK'
    BY DEF ServerInv, TypeOK, Start, listenVars, historyVars
<1>2. IdleInv' /\ ListenInv' /\ MainInv' /\ NoneLeftOut'
    BY DEF ServerInv, Start, IdleInv, ListenInv, MainInv, NoneLeftOut, listenVars
<1>3. UNCHANGED <<chain, historyVars>>
    BY DEF Start
<1> QED
    BY <1>1, <1>2, <1>3, HistoryKept DEF ServerInv

\* Asking for the height and connecting keep ServerInv.
LEMMA AttachStep == ASSUME ServerInv, CheckHeight \/ Listen PROVE ServerInv'
<1>1. CASE Exit
    BY <1>1, ExitStep DEF CheckHeight, Listen
<1>2. CASE ~Exit
  <2>1. TypeOK'
    <3>1. CASE CheckHeight
      <4>1. /\ height' = Len(chain) /\ server' = "attaching"
            /\ UNCHANGED <<current, index, listenVars, chain, historyVars, starts>>
          BY <1>2, <3>1 DEF CheckHeight
      <4>2. Len(chain) \in 0..Len(chain)
          BY Numbers DEF ServerInv
      <4> QED
          BY <4>1, <4>2 DEF ServerInv, TypeOK, listenVars, historyVars
    <3>2. CASE Listen
        BY <1>2, <3>2 DEF ServerInv, TypeOK, Listen, historyVars
    <3> QED
        BY <3>1, <3>2
  <2>2. IdleInv' /\ ListenInv' /\ MainInv' /\ NoneLeftOut'
      BY <1>2 DEF ServerInv, CheckHeight, Listen, IdleInv, ListenInv, MainInv, NoneLeftOut,
          listenVars
  <2>3. UNCHANGED <<chain, historyVars>>
      BY DEF CheckHeight, Listen
  <2> QED
      BY <2>1, <2>2, <2>3, HistoryKept DEF ServerInv
<1> QED
    BY <1>1, <1>2

\* Taking a block puts ListenEvent at its first transaction.
LEMMA TakeBlockStep == ASSUME ServerInv, TakeBlock PROVE ServerInv'
<1>0. TypeOK /\ UNCHANGED <<chain, historyVars>>
    BY DEF ServerInv, TakeBlock
<1>1. TypeOK'
    BY Numbers DEF ServerInv, TypeOK, TakeBlock, historyVars
<1>2. /\ held = cursor - 1 /\ held >= first /\ cursor > 0
      /\ stream = "open"
    BY <1>0, Numbers DEF ServerInv, TypeOK, TakeBlock, ListenInv
<1>3. IdleInv' /\ ListenInv' /\ MainInv'
    BY <1>0, <1>2, Numbers
    DEF ServerInv, TakeBlock, IdleInv, ListenInv, MainInv, historyVars
<1>4. ASSUME NEW e \in Visible(chain) PROVE Past(e)' <=> Past(e)
  <2>1. e[1] \in Nat /\ e[2] \in Nat /\ e[2] >= 1
      BY <1>0, VisiblePosition DEF TypeOK
  <2>2. Before(e, <<held, 1>>) <=> e[1] < held
      BY <1>0, <2>1, Numbers DEF Before
  <2> QED
      BY <2>2 DEF Past, TakeBlock, historyVars
<1>5. Serving
    BY <1>2 DEF Serving, TakeBlock
<1>6. NoneLeftOut'
    BY <1>0, <1>4, <1>5, SamePlace DEF ServerInv
<1> QED
    BY <1>0, <1>1, <1>3, <1>6, HistoryKept DEF ServerInv

\* An error response changes nothing ListenEvent has done.
LEMMA TakeErrorStep == ASSUME ServerInv, TakeError PROVE ServerInv'
<1>0. UNCHANGED <<chain, historyVars>>
    BY DEF TakeError
<1>1. TypeOK'
    BY DEF ServerInv, TypeOK, TakeError, mainVars, historyVars
<1>2. IdleInv' /\ ListenInv' /\ MainInv'
    BY DEF ServerInv, TakeError, IdleInv, ListenInv, MainInv, mainVars, historyVars
<1>3. Serving' => Serving
    BY DEF TakeError, Serving, mainVars
<1>4. \A e \in Visible(chain) : Past(e)' <=> Past(e)
    BY DEF TakeError, Past, mainVars, historyVars
<1>5. NoneLeftOut'
    BY <1>0, <1>3, <1>4, SamePlace DEF ServerInv
<1> QED
    BY <1>0, <1>1, <1>2, <1>5, HistoryKept DEF ServerInv

\* At the end of a block ListenEvent is past all events of it: what
\* parseFullBlock returned is a first part of the block.
LEMMA BlockDoneStep == ASSUME ServerInv, BlockDone PROVE ServerInv'
<1>0. TypeOK /\ UNCHANGED <<chain, historyVars>>
    BY DEF ServerInv, BlockDone
<1>1. TypeOK'
    BY DEF ServerInv, TypeOK, BlockDone, listenVars, historyVars
<1>2. IdleInv' /\ ListenInv' /\ MainInv'
    BY DEF ServerInv, BlockDone, IdleInv, ListenInv, MainInv, listenVars, historyVars
<1>3. Serving
    BY DEF ServerInv, MainInv, BlockDone, Serving
<1>4. ASSUME NEW e \in Visible(chain) PROVE Past(e)' <=> Past(e)
  <2>1. /\ e[1] \in Nat /\ e[2] \in Nat /\ e[2] >= 1
        /\ chain[e[1]] \in Blocks /\ e[2] \in Parsed(chain[e[1]])
      BY <1>0, VisiblePosition DEF TypeOK
  <2>2. e[1] = current => e[2] < index
    <3>1. index \in Nat \ {0} /\ index \notin Parsed(chain[current])
        BY <1>0, Numbers DEF ServerInv, MainInv, BlockDone
    <3> QED
        BY <2>1, <3>1, ParsedPrefix
  <2>3. Before(e, <<current, index>>) <=> e[1] < current + 1
      BY <1>0, <2>1, <2>2, Numbers DEF Before
  <2>4. IF listener = "offering" THEN held = current + 1 ELSE cursor = current + 1
      BY <1>0, Numbers DEF ServerInv, MainInv, BlockDone
  <2> QED
      BY <2>3, <2>4 DEF Past, BlockDone, listenVars, historyVars
<1>5. NoneLeftOut'
    BY <1>0, <1>3, <1>4, SamePlace DEF ServerInv
<1> QED
    BY <1>0, <1>1, <1>2, <1>5, HistoryKept DEF ServerInv

\* Receiving a block moves it from the stream to the channel, behind what
\* ListenEvent is past.
LEMMA ReceiveStep == ASSUME ServerInv, Receive PROVE ServerInv'
<1>0. TypeOK /\ UNCHANGED <<chain, historyVars, mainVars>>
    BY DEF ServerInv, Receive
<1>1. TypeOK'
    BY Numbers DEF ServerInv, TypeOK, Receive, mainVars, historyVars
<1>2. cursor >= first /\ cursor > 0
    BY <1>0, Numbers DEF ServerInv, Receive, ListenInv
<1>3. IdleInv' /\ ListenInv' /\ MainInv'
    BY <1>0, <1>2, Numbers
    DEF ServerInv, Receive, IdleInv, ListenInv, MainInv, mainVars, historyVars
<1>4. Serving' => Serving
    BY <1>2 DEF Receive, Serving, mainVars
<1>5. \A e \in Visible(chain) : Past(e)' <=> Past(e)
    BY DEF Receive, Past, mainVars, historyVars
<1>6. NoneLeftOut'
    BY <1>0, <1>4, <1>5, SamePlace DEF ServerInv
<1> QED
    BY <1>0, <1>1, <1>3, <1>6, HistoryKept DEF ServerInv

\* A stream that ends or breaks leaves ListenEvent where it is.
LEMMA BrokenStreamStep == ASSUME ServerInv, ReceiveStatus \/ ReceiveError PROVE ServerInv'
<1>0. UNCHANGED <<chain, mainVars, cursor, held, historyVars, starts>> /\ listener = "receiving"
      /\ \/ stream \in {"seeking", "open"} /\ stream' = "refused" /\ listener' = "receiving"
         \/ stream' = "broken" /\ listener' = "failing"
    BY DEF ReceiveStatus, ReceiveError
<1>1. TypeOK'
    BY <1>0 DEF ServerInv, TypeOK, mainVars, historyVars
<1>2. IdleInv' /\ ListenInv' /\ MainInv'
    BY <1>0 DEF ServerInv, IdleInv, ListenInv, MainInv, mainVars, historyVars
<1>3. Serving' => Serving
    BY <1>0, Numbers DEF ServerInv, TypeOK, ListenInv, Serving, mainVars
<1>4. \A e \in Visible(chain) : Past(e)' <=> Past(e)
    BY <1>0 DEF Past, mainVars, historyVars
<1>5. NoneLeftOut'
    BY <1>0, <1>3, <1>4, SamePlace DEF ServerInv
<1> QED
    BY <1>0, <1>1, <1>2, <1>5, HistoryKept DEF ServerInv

-----------------------------------------------------------------------------
(* Events                                                                  *)

\* The transaction a turn of the loop looks at.
Turn == <<current, index>>

\* What a turn of the loop knows of its transaction.
LEMMA TurnFacts ==
    ASSUME ServerInv, HandleTx
    PROVE  /\ Serving /\ current \in Nat /\ index \in Nat /\ index >= 1
           /\ current >= first /\ current \in 1..Len(chain)
           /\ Turn[1] = current /\ Turn[2] = index
           /\ Turn \in Visible(chain) <=> chain[current][index] = "saved"
<1>1. TypeOK /\ MainInv /\ server = "handling" /\ index \in Parsed(chain[current])
    BY DEF ServerInv, HandleTx
<1>2. Serving /\ current >= first /\ index > 0
    BY <1>1 DEF MainInv, Serving
<1>3. current \in 1..Len(chain) /\ index >= 1
    BY <1>1, <1>2, Numbers
<1>4. Turn[1] = current /\ Turn[2] = index /\ Turn = <<Turn[1], Turn[2]>>
    BY DEF Turn
<1>5. Turn \in Visible(chain) <=> chain[current][index] = "saved"
    BY <1>1, <1>3, <1>4, VisibleEvent
<1> QED
    BY <1>1, <1>2, <1>3, <1>4, <1>5, Numbers

\* A turn moves ListenEvent past its transaction and no other.
LEMMA TurnPasses ==
    ASSUME ServerInv, HandleTx, NEW e \in Visible(chain)
    PROVE  Past(e)' <=> Past(e) \/ e = Turn
<1>1. e = <<e[1], e[2]>> /\ e[1] \in Nat /\ e[2] \in Nat
    BY VisiblePosition DEF ServerInv, TypeOK
<1>2. server = "handling" /\ server' = "handling" /\ first' = first
      /\ current' = current /\ index' = index + 1
    BY DEF HandleTx
<1>3. e = Turn <=> e[1] = current /\ e[2] = index
    BY <1>1 DEF Turn
<1>4. Before(e, <<current, index + 1>>) <=> Before(e, <<current, index>>) \/ e = Turn
    BY <1>1, <1>3, TurnFacts DEF Before
<1>5. e = Turn => e[1] >= first
    BY <1>3, TurnFacts
<1> QED
    BY <1>2, <1>4, <1>5 DEF Past

\* What the session gains in a turn: the event of its transaction, if it has one.
LEMMA TurnHandles ==
    ASSUME ServerInv, HandleTx
    PROVE  /\ session' \in Seq(Nat \X Nat)
           /\ Handled' = Handled \cup {e \in {Turn} : e \in Visible(chain)}
           /\ \/ Turn \notin Visible(chain) /\ session' = session
              \/ /\ Turn \in Visible(chain)
                 /\ Len(session') = Len(session) + 1
                 /\ session'[Len(session) + 1] = Turn
                 /\ \A n \in 1..Len(session) : session'[n] = session[n]
<1>1. session \in Seq(Nat \X Nat) /\ Turn \in Nat \X Nat
    BY TurnFacts DEF ServerInv, TypeOK, Turn
<1>2. CASE Turn \in Visible(chain)
  <2>1. session' = Append(session, Turn)
      BY <1>2, TurnFacts DEF HandleTx, Turn
  <2>2. /\ session' \in Seq(Nat \X Nat) /\ Len(session') = Len(session) + 1
        /\ session'[Len(session) + 1] = Turn
        /\ \A n \in 1..Len(session) : session'[n] = session[n]
      BY <1>1, <2>1, AppendProperties
  <2>3. Len(session) \in Nat
      BY <1>1, LenProperties
  <2>4. 1..Len(session') = 1..Len(session) \cup {Len(session) + 1}
      BY <2>2, <2>3
  <2>5. Handled' = Handled \cup {Turn}
    <3>1. Handled' = {session'[n] : n \in 1..Len(session)} \cup {session'[Len(session) + 1]}
        BY <2>4 DEF Handled
    <3>2. {session'[n] : n \in 1..Len(session)} = Handled
        BY <2>2 DEF Handled
    <3> QED
        BY <2>2, <3>1, <3>2
  <2> QED
      BY <1>2, <2>2, <2>5
<1>3. CASE Turn \notin Visible(chain)
  <2>1. session' = session
      BY <1>3, TurnFacts DEF HandleTx
  <2> QED
      BY <1>1, <1>3, <2>1 DEF Handled
<1> QED
    BY <1>2, <1>3

\* The events of the session after a turn: those before it, and then its own.
LEMMA TurnEvents ==
    ASSUME ServerInv, HandleTx, NEW n \in 1..Len(session')
    PROVE  /\ Len(session) \in Nat /\ n \in Nat
           /\ \/ n \in 1..Len(session) /\ session'[n] = session[n]
              \/ n = Len(session) + 1 /\ session'[n] = Turn /\ Turn \in Visible(chain)
<1>1. Len(session) \in Nat
    BY LenProperties DEF ServerInv, TypeOK
<1>2. CASE session' = session
    BY <1>1, <1>2
<1>3. CASE /\ Turn \in Visible(chain)
           /\ Len(session') = Len(session) + 1
           /\ session'[Len(session) + 1] = Turn
           /\ \A k \in 1..Len(session) : session'[k] = session[k]
    BY <1>1, <1>3
<1> QED
    BY <1>2, <1>3, TurnHandles

\* What was handled before a turn lies before its transaction.
LEMMA HandledBefore ==
    ASSUME ServerInv, HandleTx, NEW n \in 1..Len(session)
    PROVE  Before(session[n], Turn)
<1>1. session[n] \in Handled
    BY DEF Handled
<1>2. Past(session[n])
    BY <1>1, PassedEvents, TurnFacts DEF ServerInv
<1> QED
    BY <1>2 DEF Past, HandleTx, Turn

\* Handling an event keeps the order and leaves nothing out.
LEMMA HandleTxStep == ASSUME ServerInv, HandleTx PROVE ServerInv'
<1>0. TypeOK /\ UNCHANGED <<chain, server, height, current, listenVars, first, earlier, starts>>
      /\ index' = index + 1
    BY DEF ServerInv, HandleTx
<1>1. TypeOK'
  <2>1. index' \in Nat /\ session' \in Seq(Nat \X Nat)
      BY <1>0, TurnHandles, TurnFacts
  <2> QED
      BY <1>0, <2>1 DEF TypeOK, listenVars
<1>2. IdleInv' /\ ListenInv' /\ MainInv' /\ RepeatsOnlyNewest'
    BY <1>0, TurnFacts
    DEF ServerInv, IdleInv, ListenInv, MainInv, RepeatsOnlyNewest, listenVars
<1>3. SessionInv'
  <2>1. ASSUME NEW n \in 1..Len(session')
        PROVE  session'[n] \in Visible(chain) /\ session'[n][1] >= first
      BY <2>1, TurnEvents, TurnFacts DEF ServerInv, SessionInv
  <2> QED
      BY <1>0, <2>1 DEF SessionInv
<1>4. InChainOrder'
  <2>1. ASSUME NEW m \in 1..Len(session'), NEW n \in 1..Len(session'), m < n
        PROVE  Before(session'[m], session'[n])
    <3>1. CASE n \in 1..Len(session)
      <4>1. m \in 1..Len(session) /\ session'[m] = session[m] /\ session'[n] = session[n]
          BY <2>1, <3>1, TurnEvents
      <4> QED
          BY <2>1, <3>1, <4>1 DEF ServerInv, InChainOrder
    <3>2. CASE n \notin 1..Len(session)
      <4>1. /\ m \in 1..Len(session) /\ session'[m] = session[m]
            /\ session'[n] = Turn
          BY <2>1, <3>2, TurnEvents
      <4> QED
          BY <4>1, HandledBefore
    <3> QED
        BY <3>1, <3>2
  <2> QED
      BY <2>1 DEF InChainOrder
<1>5. NoneLeftOut'
  <2>1. Handled = {e \in Visible(chain) : Past(e)}
      BY PassedEvents, TurnFacts DEF ServerInv
  <2>2. Handled' = {e \in Visible(chain) : Past(e)'}
      BY <2>1, TurnHandles, TurnPasses
  <2>3. NoneLeftOut' <=> (Serving' => Handled' = {e \in Visible(chain)' : Past(e)'})
      BY DEF Passed, Past, NoneLeftOut, Serving
  <2> QED
      BY <1>0, <2>2, <2>3
<1> QED
    BY <1>1, <1>2, <1>3, <1>4, <1>5 DEF ServerInv

\* A block is committed behind everything ListenEvent is past.
LEMMA CommitStep == ASSUME ServerInv, CommitBlock PROVE ServerInv'
<1>0. TypeOK /\ UNCHANGED <<mainVars, listenVars, historyVars, starts>>
    BY DEF ServerInv, CommitBlock
<1>1. PICK block \in Blocks : chain' = Append(chain, block)
    BY DEF CommitBlock
<1>2. chain' \in Seq(Blocks) /\ Len(chain') = Len(chain) + 1
    BY <1>0, <1>1, AppendProperties DEF TypeOK
<1>3. \A e : e \in Visible(chain) <=> e \in Visible(chain') /\ e[1] # Len(chain) + 1
    BY <1>0, <1>1, VisibleAppend DEF TypeOK
<1>4. TypeOK'
    BY <1>0, <1>2, Numbers DEF TypeOK, mainVars, listenVars, historyVars
<1>5. IdleInv' /\ ListenInv' /\ MainInv' /\ SessionInv' /\ InChainOrder' /\ RepeatsOnlyNewest'
    BY <1>0, <1>3
    DEF ServerInv, IdleInv, ListenInv, MainInv, SessionInv, InChainOrder, RepeatsOnlyNewest,
        mainVars, listenVars, historyVars
<1>6. NoneLeftOut'
  <2>1. (Serving' <=> Serving) /\ Handled' = Handled /\ \A e : Past(e)' <=> Past(e)
      BY <1>0 DEF Serving, Handled, Past, mainVars, listenVars, historyVars
  <2>2. ASSUME NEW e \in Visible(chain'), Past(e), Serving PROVE e[1] # Len(chain) + 1
    <3>1. e[1] \in Nat
        BY <1>2, VisiblePosition
    <3> QED
        BY <1>0, <2>2, <3>1, Numbers DEF Past, Before
  <2>3. Serving => {e \in Visible(chain') : Past(e)'} = {e \in Visible(chain) : Past(e)}
      BY <1>3, <2>1, <2>2
  <2>4. NoneLeftOut' <=> (Serving' => Handled' = {e \in Visible(chain') : Past(e)'})
      BY DEF Passed, Past, NoneLeftOut, Serving
  <2> QED
      BY <2>1, <2>3, <2>4, PassedEvents DEF ServerInv
<1> QED
    BY <1>4, <1>5, <1>6 DEF ServerInv

\* A stream that begins with the newest block begins a session that is past
\* nothing; whatever was handled lies in that block or before it.
LEMMA SeekStep == ASSUME ServerInv, SeekNewest PROVE ServerInv'
<1>0. TypeOK /\ UNCHANGED <<chain, mainVars, listener, held, starts>>
    BY DEF ServerInv, SeekNewest
<1>1. /\ stream' = "open" /\ cursor' = Len(chain) /\ first' = Len(chain) /\ session' = <<>>
      /\ earlier' = earlier \cup Handled
      /\ listener = "receiving" /\ server = "waiting"
    BY DEF ServerInv, SeekNewest, ListenInv
<1>2. ASSUME NEW e \in Handled PROVE e \in Nat \X Nat /\ e[1] <= Len(chain)
  <2>1. e \in Visible(chain)
      BY HandledVisible DEF ServerInv
  <2> QED
      BY <1>0, <2>1, VisiblePosition DEF TypeOK
<1>3. TypeOK'
  <2>1. earlier' \in SUBSET (Nat \X Nat) /\ session' \in Seq(Nat \X Nat)
      BY <1>0, <1>1, <1>2 DEF TypeOK
  <2>2. cursor' \in 0..(Len(chain) + 1) /\ first' \in 1..Len(chain)
      BY <1>0, <1>1, Numbers
  <2> QED
      BY <1>0, <1>1, <2>1, <2>2 DEF TypeOK, mainVars
<1>4. IdleInv' /\ ListenInv' /\ MainInv'
    BY <1>0, <1>1, Numbers DEF ServerInv, IdleInv, ListenInv, MainInv, mainVars
<1>5. 1..Len(session') = {} /\ Handled' = {}
    BY <1>1 DEF Handled
<1>6. SessionInv' /\ InChainOrder'
    BY <1>5 DEF SessionInv, InChainOrder
<1>7. RepeatsOnlyNewest'
  <2>1. ASSUME NEW e \in earlier PROVE e[1] <= Len(chain)
    <3>1. e[1] <= first /\ e[1] \in Nat
        BY <1>0 DEF ServerInv, RepeatsOnlyNewest, TypeOK
    <3> QED
        BY <1>0, <3>1, Numbers
  <2> QED
      BY <1>1, <1>2, <2>1 DEF RepeatsOnlyNewest
<1>8. NoneLeftOut'
  <2>1. ASSUME NEW e \in Visible(chain) PROVE ~Past(e)'
    <3>1. e[1] \in Nat
        BY <1>0, VisiblePosition DEF TypeOK
    <3> QED
        BY <1>0, <1>1, <3>1, Numbers DEF Past, mainVars
  <2>2. NoneLeftOut' <=> (Serving' => Handled' = {e \in Visible(chain)' : Past(e)'})
      BY DEF Passed, Past, NoneLeftOut, Serving
  <2> QED
      BY <1>0, <1>5, <2>1, <2>2
<1> QED
    BY <1>3, <1>4, <1>6, <1>7, <1>8 DEF ServerInv

-----------------------------------------------------------------------------
(* The invariant and what it says                                          *)

\* ServerInv holds before the first start.
LEMMA InitInv == ASSUME Init PROVE ServerInv
<1>1. PICK block \in Blocks : chain = <<block>>
    BY DEF Init
<1>2. chain \in Seq(Blocks) /\ Len(chain) = 1
    BY <1>1
<1>3. TypeOK
  <2>1. session \in Seq(Nat \X Nat)
      BY DEF Init
  <2> QED
      BY <1>2, <2>1 DEF Init, TypeOK
<1>4. 1..Len(session) = {}
    BY DEF Init
<1> QED
    BY <1>3, <1>4
    DEF Init, ServerInv, IdleInv, ListenInv, MainInv, SessionInv, NoneLeftOut, InChainOrder,
        RepeatsOnlyNewest

\* ServerInv is kept by every step.
LEMMA ServerStep == ASSUME ServerInv, [Next]_vars PROVE ServerInv'
<1>1. CASE HandlePanic \/ ReceivePanic \/ Kill
    BY <1>1, ExitStep DEF HandlePanic, ReceivePanic, Kill
<1>2. CASE UNCHANGED vars
  <2>1. TypeOK' /\ IdleInv' /\ ListenInv' /\ MainInv'
      BY <1>2 DEF ServerInv, TypeOK, IdleInv, ListenInv, MainInv, vars, mainVars, listenVars,
          historyVars
  <2>2. NoneLeftOut'
      BY <1>2 DEF ServerInv, NoneLeftOut, Handled, Passed, vars, mainVars, listenVars, historyVars
  <2> QED
      BY <1>2, <2>1, <2>2, HistoryKept DEF ServerInv, vars
<1> QED
    BY <1>1, <1>2, StartStep, AttachStep, TakeBlockStep, TakeErrorStep, HandleTxStep,
       BlockDoneStep, ReceiveStep, BrokenStreamStep, CommitStep, SeekStep
    DEF Next, MainStep, ListenerStep, PeerStep

\* The places of chain, stream, channel and loop fit together, for any blocks.
THEOREM Inductive == Spec => []ServerInv
<1> QED
    BY InitInv, ServerStep, PTL DEF Spec

\* Every reachable state of EventServer is well typed.
THEOREM Typing == Spec => []TypeOK
<1>1. ServerInv => TypeOK
    BY DEF ServerInv
<1> QED
    BY <1>1, Inductive, PTL

\* While a stream serves the server, exactly the visible events from its first
\* block to the place of ListenEvent have been handled.
THEOREM CompleteTheorem == Spec => []NoneLeftOut
<1>1. ServerInv => NoneLeftOut
    BY DEF ServerInv
<1> QED
    BY <1>1, Inductive, PTL

\* A session handles events in chain order, none twice.
THEOREM OrderTheorem == Spec => []InChainOrder
<1>1. ServerInv => InChainOrder
    BY DEF ServerInv
<1> QED
    BY <1>1, Inductive, PTL

\* What earlier sessions handled lies before the first block of the stream or in
\* it, however often the process is started.
THEOREM RepeatsTheorem == Spec => []RepeatsOnlyNewest
<1>1. ServerInv => RepeatsOnlyNewest
    BY DEF ServerInv
<1> QED
    BY <1>1, Inductive, PTL

-----------------------------------------------------------------------------
(* The event server implements the feed                                    *)

\* The position of the feed: the last event of the session, or the start of its
\* first block.
Mark == IF session = <<>> THEN <<first, 0>> ELSE session[Len(session)]

\* The feed lies in the chain; an empty session is one of no element.
LEMMA MarkPlace ==
    ASSUME ServerInv
    PROVE  /\ Mark[1] \in Nat /\ Mark[2] \in Nat /\ first <= Mark[1] /\ Mark[1] <= Len(chain)
           /\ Len(session) \in Nat /\ session # <<>> => Len(session) \in 1..Len(session)
<1>1. session \in Seq(Nat \X Nat) /\ chain \in Seq(Blocks)
    BY DEF ServerInv, TypeOK
<1>2. Len(session) \in Nat /\ (session # <<>> => Len(session) \in 1..Len(session))
    BY <1>1, EmptySeq, LenProperties
<1>3. CASE session = <<>>
    BY <1>2, <1>3, Numbers DEF ServerInv, Mark
<1>4. CASE session # <<>>
  <2>1. Mark \in Visible(chain) /\ Mark[1] >= first
      BY <1>2, <1>4 DEF ServerInv, SessionInv, Mark
  <2>2. Mark[1] \in Nat /\ Mark[1] <= Len(chain) /\ Mark[2] \in Nat
      BY <1>1, <2>1, VisiblePosition
  <2> QED
      BY <1>2, <2>1, <2>2, Numbers DEF ServerInv
<1> QED
    BY <1>3, <1>4

\* A turn that handles an event hands out the next one of the feed.
LEMMA TurnHandsOut ==
    ASSUME ServerInv, HandleTx, Turn \in Visible(chain)
    PROVE  /\ Before(Mark, Turn)
           /\ \A d \in Visible(chain) : Before(Mark, d) => ~Before(d, Turn)
           /\ Mark' = Turn
<1>0. session \in Seq(Nat \X Nat) /\ first' = first
    BY DEF ServerInv, TypeOK, HandleTx
<1>1. Before(Mark, Turn)
  <2>1. CASE session = <<>>
      BY <2>1, TurnFacts, Numbers DEF Mark, Before, ServerInv
  <2>2. CASE session # <<>>
      BY <2>2, MarkPlace, HandledBefore DEF Mark
  <2> QED
      BY <2>1, <2>2
<1>2. ASSUME NEW d \in Visible(chain), Before(Mark, d), Before(d, Turn) PROVE FALSE
  <2>1. d[1] \in Nat /\ d[2] \in Nat
      BY VisiblePosition DEF ServerInv, TypeOK
  <2>2. d[1] >= first
      BY <1>2, <2>1, MarkPlace, Numbers DEF Before, ServerInv
  <2>3. d \in Handled
    <3>1. Past(d)
        BY <1>2, <2>2 DEF Past, HandleTx, Turn
    <3> QED
        BY <3>1, PassedEvents, TurnFacts DEF ServerInv
  <2>4. PICK n \in 1..Len(session) : d = session[n]
      BY <2>3 DEF Handled
  <2>5. session # <<>> /\ Mark = session[Len(session)] /\ Len(session) \in Nat
      BY <1>0, <2>4, MarkPlace DEF Mark
  <2>6. CASE n = Len(session)
      BY <1>2, <2>1, <2>4, <2>5, <2>6 DEF Before
  <2>7. CASE n # Len(session)
    <3>1. n < Len(session) /\ Len(session) \in 1..Len(session)
        BY <2>4, <2>5, <2>7
    <3>2. Before(d, Mark)
        BY <2>4, <2>5, <3>1 DEF ServerInv, InChainOrder
    <3> QED
        BY <1>2, <2>1, <3>2, MarkPlace DEF Before
  <2> QED
      BY <2>6, <2>7
<1>3. Mark' = Turn
  <2>1. Len(session') = Len(session) + 1 /\ session'[Len(session) + 1] = Turn
      BY TurnHandles
  <2>2. session' # <<>>
      BY <2>1, MarkPlace
  <2> QED
      BY <2>1, <2>2 DEF Mark
<1> QED
    BY <1>1, <1>2, <1>3

\* The operators of the feed are those of the server.
LEMMA FeedOperators ==
    /\ \A x, y : Feed!Before(x, y) <=> Before(x, y)
    /\ \A blocks : Feed!Visible(blocks) = Visible(blocks)
    BY DEF Feed!Before, Before, Feed!Visible, Visible, Feed!Parsed, Parsed, Feed!Stops, Stops

\* Every step of the server is a step of the feed or leaves it alone.
LEMMA FeedStep ==
    ASSUME ServerInv, [Next]_vars
    PROVE  [Feed!FeedNext]_(Feed!feedVars)
<1>1. ASSUME UNCHANGED <<chain, historyVars>> PROVE UNCHANGED Feed!feedVars
    BY <1>1 DEF Feed!feedVars, historyVars
<1>2. CASE CommitBlock
    BY <1>2 DEF CommitBlock, Feed!FeedNext, Feed!Commit, historyVars
<1>3. CASE SeekNewest
  <2>1. Mark[1] <= Len(chain)
      BY MarkPlace
  <2>2. session' = <<>> /\ first' = Len(chain) /\ chain' = chain
      BY <1>3 DEF SeekNewest
  <2> QED
      BY <2>1, <2>2 DEF Mark, Feed!FeedNext, Feed!Attach
<1>4. CASE HandleTx
  <2>1. chain' = chain /\ first' = first
      BY <1>4 DEF HandleTx
  <2>2. CASE Turn \in Visible(chain)
    <3>1. Feed!HandOut
        BY <1>4, <2>1, <2>2, TurnHandsOut, FeedOperators DEF Feed!HandOut, Mark
    <3> QED
        BY <3>1 DEF Feed!FeedNext
  <2>3. CASE Turn \notin Visible(chain)
    <3>1. session' = session
        BY <1>4, <2>3, TurnHandles
    <3> QED
        BY <2>1, <3>1 DEF Feed!feedVars
  <2> QED
      BY <2>2, <2>3
<1>5. CASE Start \/ CheckHeight \/ Listen \/ TakeBlock \/ TakeError \/ HandlePanic \/ BlockDone
           \/ Kill \/ Receive \/ ReceivePanic \/ ReceiveStatus \/ ReceiveError
    BY <1>1, <1>5
    DEF Start, CheckHeight, Listen, TakeBlock, TakeError, HandlePanic, BlockDone, Kill, Receive,
        ReceivePanic, ReceiveStatus, ReceiveError
<1>6. CASE UNCHANGED vars
    BY <1>1, <1>6 DEF vars
<1> QED
    BY <1>2, <1>3, <1>4, <1>5, <1>6 DEF Next, MainStep, ListenerStep, PeerStep

\* The event server implements EventFeed: it hands out the visible events one by
\* one from the newest block on, and moves back by at most that block.
THEOREM Refinement == Spec => ImplementsFeed
<1>1. Init => Feed!FeedInit
    BY DEF Init, Feed!FeedInit
<1>2. ServerInv /\ [Next]_vars => [Feed!FeedNext]_(Feed!feedVars)
    BY FeedStep
<1> QED
    BY <1>1, <1>2, Inductive, PTL DEF Spec, ImplementsFeed, Feed!FeedSpec
=============================================================================
