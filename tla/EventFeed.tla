------------------------------ MODULE EventFeed ------------------------------
(***************************************************************************)
(* What the event server promises: a feed of the events of a chain.        *)
(*                                                                         *)
(* A feed is a position in the chain.  Attaching puts it before the newest *)
(* block; from there it hands out the events the listener can see one by   *)
(* one, in chain order, leaving none out.  A feed never moves backwards by *)
(* more than the newest block, and attaching may skip any number of blocks.*)
(***************************************************************************)
EXTENDS EventBlocks

VARIABLES
    chain,          \* the blocks committed so far
    mark            \* the position of the feed

feedVars == <<chain, mark>>

FeedInit ==
    /\ chain \in {<<block>> : block \in Blocks}
    /\ mark = <<1, 0>>

Commit ==
    /\ Len(chain) < MaxHeight
    /\ \E block \in Blocks : chain' = Append(chain, block)
    /\ UNCHANGED mark

Attach ==
    /\ mark[1] <= Len(chain)
    /\ mark' = <<Len(chain), 0>>
    /\ UNCHANGED chain

\* Hand out the next visible event.
HandOut ==
    /\ \E e \in Visible(chain) :
        /\ Before(mark, e)
        /\ \A d \in Visible(chain) : Before(mark, d) => ~Before(d, e)
        /\ mark' = e
    /\ UNCHANGED chain

FeedNext == Commit \/ Attach \/ HandOut

FeedSpec == FeedInit /\ [][FeedNext]_feedVars
=============================================================================
