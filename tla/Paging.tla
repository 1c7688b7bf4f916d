------------------------------- MODULE Paging -------------------------------
(***************************************************************************)
(* DslQuery of the chaincode: GetValueByDSL reads one page of the records  *)
(* that match a selector.  CurrentPage and PageSize are unsigned machine   *)
(* integers of the caller's choice, so the arithmetic is modulo 2^64.      *)
(*                                                                         *)
(* Every query is a simulation of its own on the ledger of that moment;    *)
(* factors are committed between the queries.  No handler deletes a        *)
(* record, but PutState under a key in use replaces one.  A record is      *)
(* named by its place in the order of the iterator.                        *)
(***************************************************************************)
EXTENDS Naturals, Sequences, FiniteSets

CONSTANTS
    MaxKey,         \* the ledger keys are 1..MaxKey, in the order of the iterator
    Modulus,        \* 2^w, the number of values of a uint
    MaxGone         \* bound: the records replaced away during one walk

ASSUME PagingAssumption ==
    /\ MaxKey \in Nat
    /\ Modulus \in Nat
    /\ MaxKey < Modulus
    /\ MaxGone \in Nat

VARIABLES
    stored,         \* the keys of the matching records in the ledger
    phase,          \* of the query: none yet, in its loop, or answered
    page, size,     \* request.SplitPage
    results,        \* what resultsIterator returns, in order
    read,           \* how many of them the loop has read
    skipSize, needSize, total, resultList,
    since,          \* history: what is left of the ledger of page 1
    seen,           \* history: the records answered since then
    due,            \* history: the next page of that walk, 0 if it was left
    gone            \* history: the records that lost their place during it

requestVars == <<page, size, results>>
loopVars == <<read, skipSize, needSize, total, resultList>>
walkVars == <<since, seen, due, gone>>
vars == <<stored, phase, requestVars, loopVars, walkVars>>

Uint == 0..(Modulus - 1)
Keys == 1..MaxKey

Elements(list) == {list[n] : n \in 1..Len(list)}

TypeOK ==
    /\ stored \in SUBSET Keys
    /\ phase \in {"none", "scanning", "answered", "failed"}
    /\ page \in Uint
    /\ size \in Uint
    /\ results \in Seq(Keys)
    /\ Len(results) <= MaxKey
    /\ read \in 0..Len(results)
    /\ skipSize \in Uint
    /\ needSize \in Uint
    /\ total \in Uint
    /\ resultList \in Seq(Keys)
    /\ since \in SUBSET Keys
    /\ seen \in SUBSET Keys
    /\ due \in Nat
    /\ gone \in 0..MaxGone

Init ==
    /\ stored = {}
    /\ phase = "none"
    /\ page = 0
    /\ size = 0
    /\ results = <<>>
    /\ read = 0
    /\ skipSize = 0
    /\ needSize = 0
    /\ total = 0
    /\ resultList = <<>>
    /\ since = {}
    /\ seen = {}
    /\ due = 0
    /\ gone = 0

-----------------------------------------------------------------------------

\* A factor is committed under a new key, or under that of a record that did not
\* match.
Commit(k) ==
    /\ k \notin stored
    /\ stored' = stored \cup {k}
    /\ UNCHANGED <<phase, requestVars, loopVars, walkVars>>

\* Where the new value of a replaced record may put it: it no longer matches, or
\* it has a place in the order of the selector.
Places == {{}} \cup {{k} : k \in Keys}

\* A factor is committed under the key of the record at j: the ids are a few
\* random characters, and SaveData puts without a look at what is there.
Overwrite(j, place) ==
    /\ j \in stored
    /\ place \cap stored \subseteq {j}
    /\ stored' = (stored \ {j}) \cup place
    /\ since' = since \ {j}
    /\ gone' = IF due = 0 \/ j \in place THEN gone ELSE gone + 1
    /\ gone' <= MaxGone
    /\ UNCHANGED <<phase, requestVars, loopVars, seen, due>>

Decrement(x) == IF x = 0 THEN Modulus - 1 ELSE x - 1

\* Fault: the pages are counted from 0.
SkipFromZero(p, n) == (p * n) % Modulus

\* Fault: signed arithmetic.
SkipSigned(p, n) == p * n - n

\* (CurrentPage - 1) * PageSize
Skip(p, n) == (Decrement(p) * n) % Modulus

\* What the iterator of GetQueryResult returns: the matching records in order.
Snapshots ==
    {s \in [1..Cardinality(stored) -> stored] :
        \A m, n \in DOMAIN s : m < n => s[m] < s[n]}

\* GetValueByDSL up to its loop.  The history follows a client that reads page
\* after page of one size, from page 1 on.
Query(p, n) ==
    /\ phase # "scanning"
    /\ phase' = "scanning"
    /\ page' = p
    /\ size' = n
    /\ results' \in Snapshots
    /\ read' = 0
    /\ skipSize' = Skip(p, n)
    /\ needSize' = n
    /\ total' = 0
    /\ resultList' = <<>>
    /\ \/ /\ p = 1
          /\ since' = stored
          /\ seen' = {}
          /\ due' = 1
          /\ gone' = 0
       \/ /\ p # 1 /\ p = due /\ n = size
          /\ UNCHANGED walkVars
       \/ /\ p # 1 /\ ~(p = due /\ n = size)
          /\ since' = {}
          /\ seen' = {}
          /\ due' = 0
          /\ gone' = 0
    /\ UNCHANGED stored

\* resultsIterator.HasNext
HasNext == phase = "scanning" /\ read < Len(results)

\* Fault: the records skipped are not counted.
SkipRecordUncounted ==
    /\ HasNext
    /\ skipSize > 0 /\ size > 0
    /\ read' = read + 1
    /\ skipSize' = Decrement(skipSize)
    /\ UNCHANGED <<stored, phase, requestVars, needSize, total, resultList, walkVars>>

SkipRecord ==
    /\ HasNext
    /\ skipSize > 0 /\ size > 0
    /\ read' = read + 1
    /\ total' = (total + 1) % Modulus
    /\ skipSize' = Decrement(skipSize)
    /\ UNCHANGED <<stored, phase, requestVars, needSize, resultList, walkVars>>

\* Fault: one record too many.
TakeRecordMore ==
    /\ HasNext
    /\ ~(skipSize > 0 /\ size > 0)
    /\ needSize >= 0 \/ size = 0
    /\ read' = read + 1
    /\ total' = (total + 1) % Modulus
    /\ needSize' = Decrement(needSize)
    /\ resultList' = Append(resultList, results[read + 1])
    /\ UNCHANGED <<stored, phase, requestVars, skipSize, walkVars>>

\* With PageSize 0 everything is taken, and needSize wraps around.
TakeRecord ==
    /\ HasNext
    /\ ~(skipSize > 0 /\ size > 0)
    /\ needSize > 0 \/ size = 0
    /\ read' = read + 1
    /\ total' = (total + 1) % Modulus
    /\ needSize' = Decrement(needSize)
    /\ resultList' = Append(resultList, results[read + 1])
    /\ UNCHANGED <<stored, phase, requestVars, skipSize, walkVars>>

\* The page is full: the rest is only counted.
CountRecord ==
    /\ HasNext
    /\ ~(skipSize > 0 /\ size > 0)
    /\ needSize = 0 /\ size # 0
    /\ read' = read + 1
    /\ total' = (total + 1) % Modulus
    /\ UNCHANGED <<stored, phase, requestVars, skipSize, needSize, resultList, walkVars>>

Answer ==
    /\ phase = "scanning"
    /\ read = Len(results)
    /\ phase' = "answered"
    /\ IF due = 0
       THEN UNCHANGED <<seen, due>>
       ELSE /\ seen' = seen \cup Elements(resultList)
            /\ due' = due + 1
    /\ UNCHANGED <<stored, requestVars, loopVars, since, gone>>

\* The query or a record cannot be read: QueryResponse with status 1.
Fail ==
    /\ phase = "scanning"
    /\ phase' = "failed"
    /\ UNCHANGED <<stored, requestVars, loopVars, walkVars>>

Next ==
    \/ \E k \in Keys : Commit(k)
    \/ \E j \in Keys, place \in Places : Overwrite(j, place)
    \/ \E p, n \in Uint : Query(p, n)
    \/ SkipRecord \/ TakeRecord \/ CountRecord
    \/ Answer
    \/ Fail

Spec == Init /\ [][Next]_vars
-----------------------------------------------------------------------------
(* Properties                                                              *)

\* The page the request means, if no unsigned product wraps around.
InRange == page > 0 /\ (page - 1) * size < Modulus
First == (page - 1) * size
Last == IF size = 0 \/ First + size > Len(results) THEN Len(results) ELSE First + size
Slice == [k \in 1..(Last - First) |-> results[First + k]]

\* The answer to a request in range is exactly its page of the records, neither
\* shifted nor cut nor run over, also the last page and with PageSize 0 (all).
PageIsSlice == phase = "answered" /\ InRange => resultList = Slice

\* TotalRecords counts all matching records, whatever page was asked for.
TotalCountsAll == phase = "answered" => total = Len(results)

\* A client that reads page after page until one is short has missed no more of
\* the records it began with than were replaced away in the meantime: each of
\* those can move one record to a page the client is past.  New records, or
\* repeating a failed query, may show it a record twice but hide none.
WalkMissesFew ==
    phase = "answered" /\ due > 0 /\ Len(resultList) < size
        => Cardinality(since \ seen) <= gone
=============================================================================
