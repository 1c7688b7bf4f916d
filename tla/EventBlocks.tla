----------------------------- MODULE EventBlocks -----------------------------
(***************************************************************************)
(* Blocks of the channel as the event server reads them: which of their    *)
(* transactions parseFullBlock (gohfc, event.go) returns, at which it      *)
(* panics, and which of the returned ones FilterEvent (filterevent.go)     *)
(* turns into an event.                                                    *)
(***************************************************************************)
EXTENDS Naturals, Sequences

CONSTANTS
    Blocks,         \* the possible blocks: sequences of transaction kinds
    MaxHeight       \* bound: the chain grows to this height

\* The kinds of transactions, as parseFullBlock and FilterEvent tell them
\* apart:
\*   "saved"   an event of the factor chaincode with its message;
\*   "silent"  an endorser transaction whose event value does not parse (the
\*             transactions of chaincodes that set no event have an empty one);
\*   "config"  not an endorser transaction: no event at all;
\*   "garbled" a transaction with a part that does not parse, other than the
\*             payload of its envelope;
\*   "broken"  one whose parts parse and lack what is dereferenced next: no
\*             header, chaincode id, action or endorsed action.  An envelope
\*             whose payload does not parse is one of these, or, when its header
\*             was read before the error, whatever the rest of it says: that
\*             error is noted in the response and the loop goes on with what is
\*             there;
\*   "hollow"  an event that parses and carries no message.
Kinds == {"saved", "silent", "config", "garbled", "broken", "hollow"}

\* Where parseFullBlock stops: it returns at the first garbled transaction, and
\* dereferences nil, or indexes an empty list, at the first broken one.
Stops(block, t) == block[t] \in {"garbled", "broken"}

\* The transactions of a block that parseFullBlock appends to its response.
Parsed(block) ==
    {t \in 1..Len(block) : \A u \in 1..t : ~Stops(block, u)}

\* parseFullBlock panics on this block.
Panics(block) ==
    \E t \in 1..Len(block) :
        block[t] = "broken" /\ \A u \in 1..(t - 1) : ~Stops(block, u)

\* The events FilterEvent turns into an Event message.
Visible(blocks) ==
    {e \in UNION {{b} \X Parsed(blocks[b]) : b \in 1..Len(blocks)} :
        blocks[e[1]][e[2]] = "saved"}

\* Chain order on positions; <<b, 0>> lies before every transaction of block b.
Before(x, y) == x[1] < y[1] \/ (x[1] = y[1] /\ x[2] < y[2])

ASSUME BlocksAssumption ==
    /\ Blocks \subseteq Seq(Kinds)
    /\ Blocks # {}
    /\ MaxHeight \in Nat
=============================================================================
