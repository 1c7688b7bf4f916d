---------------------------- MODULE PagingProofs ----------------------------
(***************************************************************************)
(* Proofs about Paging, for every size of the ledger and of the integers:  *)
(* types, the answer of a query in range is its page of the records, and a *)
(* client that reads page after page misses no record but for those that   *)
(* are replaced away.                                                      *)
(***************************************************************************)
EXTENDS Paging, FiniteSetTheorems, SequenceTheorems, TLAPS

\* The decrement of an unsigned integer is one.
LEMMA DecrementType == ASSUME NEW x \in Uint PROVE Decrement(x) \in Uint
    BY PagingAssumption DEF Decrement, Uint

\* Reduction modulo 2^w stays in range, and leaves what is in range alone.
LEMMA Reduce ==
    ASSUME NEW x \in Nat
    PROVE  x % Modulus \in Uint /\ (x < Modulus => x % Modulus = x)
    BY PagingAssumption DEF Uint

\* The offset that the code computes is a uint, and the intended one when the
\* request is in range.
LEMMA SkipRange ==
    ASSUME NEW p \in Uint, NEW n \in Uint
    PROVE  /\ Skip(p, n) \in Uint
           /\ p > 0 /\ (p - 1) * n < Modulus => Skip(p, n) = (p - 1) * n
<1>1. Decrement(p) \in Nat /\ n \in Nat
    BY DecrementType DEF Uint
<1>2. Decrement(p) * n \in Nat
    BY <1>1
<1>3. Skip(p, n) \in Uint
    BY <1>2, Reduce DEF Skip
<1>4. ASSUME p > 0, (p - 1) * n < Modulus PROVE Skip(p, n) = (p - 1) * n
  <2>1. Decrement(p) = p - 1
      BY <1>4 DEF Decrement, Uint
  <2> QED
      BY <1>2, <1>4, <2>1, Reduce DEF Skip
<1> QED
    BY <1>3, <1>4

\* A snapshot is a sequence of keys no longer than the key space.
LEMMA SnapshotType ==
    ASSUME TypeOK, NEW s \in Snapshots
    PROVE  s \in Seq(Keys) /\ Len(s) <= MaxKey
<1>1. IsFiniteSet(Keys) /\ Cardinality(Keys) = MaxKey
    BY FS_Interval, PagingAssumption DEF Keys
<1>2. Cardinality(stored) \in Nat /\ Cardinality(stored) <= MaxKey
    BY <1>1, FS_Subset, FS_CardinalityType DEF TypeOK
<1>3. s \in [1..Cardinality(stored) -> Keys]
    BY DEF Snapshots, TypeOK
<1>4. s \in Seq(Keys)
    BY <1>2, <1>3
<1>5. Len(s) = Cardinality(stored)
    BY <1>2, <1>3, <1>4, LenProperties
<1> QED
    BY <1>2, <1>4, <1>5

\* A record that is read is a key of the snapshot.
LEMMA NextRecord ==
    ASSUME TypeOK, HasNext
    PROVE  /\ read + 1 \in 1..Len(results)
           /\ results[read + 1] \in Keys
           /\ (total + 1) % Modulus \in Uint
<1>1. read + 1 \in 1..Len(results)
    BY DEF TypeOK, HasNext
<1>2. results[read + 1] \in Keys
    BY <1>1, ElementOfSeq DEF TypeOK
<1>3. total + 1 \in Nat
    BY DEF TypeOK, Uint
<1> QED
    BY <1>1, <1>2, <1>3, Reduce

\* Types are preserved by every step.
LEMMA TypeStep == ASSUME TypeOK, [Next]_vars PROVE TypeOK'
<1> USE DEF TypeOK
<1>1. ASSUME NEW k \in Keys, Commit(k) PROVE TypeOK'
    BY <1>1 DEF Commit, requestVars, loopVars, walkVars
<1>9. ASSUME NEW j \in Keys, NEW place \in Places, Overwrite(j, place) PROVE TypeOK'
  <2>1. gone' \in 0..MaxGone
      BY <1>9, PagingAssumption DEF Overwrite
  <2>2. stored' \in SUBSET Keys /\ since' \in SUBSET Keys
      BY <1>9 DEF Overwrite, Places
  <2> QED
      BY <1>9, <2>1, <2>2 DEF Overwrite, requestVars, loopVars
<1>2. ASSUME NEW p \in Uint, NEW n \in Uint, Query(p, n) PROVE TypeOK'
  <2>1. results' \in Seq(Keys) /\ Len(results') <= MaxKey /\ Len(results') \in Nat
      BY <1>2, SnapshotType, LenProperties DEF Query
  <2>2. /\ phase' = "scanning" /\ page' \in Uint /\ size' \in Uint
        /\ skipSize' \in Uint /\ needSize' \in Uint /\ total' \in Uint
      BY <1>2, SkipRange, PagingAssumption DEF Query, Uint
  <2>3. since' \in SUBSET Keys /\ seen' \in SUBSET Keys /\ due' \in Nat /\ gone' \in 0..MaxGone
      BY <1>2, PagingAssumption DEF Query, walkVars
  <2>4. read' = 0 /\ resultList' = <<>> /\ stored' = stored
      BY <1>2 DEF Query
  <2>5. resultList' \in Seq(Keys)
      BY <2>4
  <2> HIDE DEF TypeOK
  <2>6. stored' \in SUBSET Keys
      BY <2>4 DEF TypeOK
  <2>7. read' \in 0..Len(results')
      BY <2>1, <2>4
  <2> QED
      BY <2>1, <2>2, <2>3, <2>5, <2>6, <2>7 DEF TypeOK
<1>3. CASE SkipRecord
  <2>1. Decrement(skipSize) \in Uint
      BY DecrementType
  <2> QED
      BY <1>3, <2>1, NextRecord DEF SkipRecord, requestVars, walkVars
<1>4. CASE TakeRecord
  <2>1. Decrement(needSize) \in Uint
      BY DecrementType
  <2>2. resultList' \in Seq(Keys)
    <3>1. resultList' = Append(resultList, results[read + 1]) /\ HasNext
        BY <1>4 DEF TakeRecord
    <3>2. resultList \in Seq(Keys) /\ results[read + 1] \in Keys
        BY <3>1, NextRecord
    <3> HIDE DEF TypeOK
    <3> QED
        BY <3>1, <3>2
  <2> QED
      BY <1>4, <2>1, <2>2, NextRecord DEF TakeRecord, requestVars, walkVars
<1>5. CASE CountRecord
    BY <1>5, NextRecord DEF CountRecord, requestVars, walkVars
<1>6. CASE Answer
  <2>1. Elements(resultList) \subseteq Keys
      BY ElementOfSeq DEF Elements
  <2> QED
      BY <1>6, <2>1 DEF Answer, requestVars, loopVars
<1>7. CASE Fail
    BY <1>7 DEF Fail, requestVars, loopVars, walkVars
<1>8. CASE UNCHANGED vars
    BY <1>8 DEF vars, requestVars, loopVars, walkVars
<1> QED
    BY <1>1, <1>2, <1>3, <1>4, <1>5, <1>6, <1>7, <1>8, <1>9 DEF Next

\* Every reachable state of Paging is well typed.
THEOREM Typing == Spec => []TypeOK
<1>1. Init => TypeOK
    BY PagingAssumption DEF Init, TypeOK, Uint
<1> QED
    BY <1>1, TypeStep, PTL DEF Spec

-----------------------------------------------------------------------------
(* The loop invariant                                                      *)

\* All records read are counted.
Counted == phase # "none" => total = read

\* The records of the page that have been read when the loop is past n records.
TakenAt(n) ==
    IF n <= First THEN 0
    ELSE IF size = 0 \/ n - First <= size THEN n - First ELSE size

\* skipSize and needSize say what is left of the offset and of the page, and
\* resultList is the part of the page that has been read.
Taken ==
    phase # "none" /\ InRange =>
        /\ skipSize = (IF read <= First THEN First - read ELSE 0)
        /\ size # 0 => needSize = size - TakenAt(read)
        /\ Len(resultList) = TakenAt(read)
        /\ \A k \in 1..TakenAt(read) : resultList[k] = results[First + k]

LoopInv == TypeOK /\ Counted /\ Taken

\* A request in range has a natural offset, and none for PageSize 0.
LEMMA FirstType ==
    ASSUME TypeOK, InRange PROVE First \in Nat /\ (size = 0 => First = 0)
<1>1. page - 1 \in Nat /\ size \in Nat
    BY DEF TypeOK, InRange, Uint
<1> QED
    BY <1>1 DEF First

\* The loop invariant is kept by every step.
LEMMA LoopStep == ASSUME LoopInv, [Next]_vars PROVE LoopInv'
<1>0. TypeOK /\ TypeOK'
    BY TypeStep DEF LoopInv
<1>1. CASE phase' = "none"
    BY <1>0, <1>1 DEF LoopInv, Counted, Taken
\* Steps that leave the request and the loop alone.
<1>2. ASSUME UNCHANGED requestVars, UNCHANGED loopVars, phase = "none" => phase' = "none"
      PROVE  LoopInv'
    BY <1>0, <1>2 DEF LoopInv, Counted, Taken, TakenAt, InRange, First, requestVars, loopVars
<1>3. ASSUME NEW p \in Uint, NEW n \in Uint, Query(p, n) PROVE LoopInv'
  <2>1. /\ page' = p /\ size' = n /\ read' = 0 /\ total' = 0 /\ needSize' = n
        /\ skipSize' = Skip(p, n) /\ resultList' = <<>>
      BY <1>3 DEF Query
  <2>2. Counted'
      BY <2>1 DEF Counted
  <2>3. ASSUME InRange' PROVE Taken'
    <3>1. First' \in Nat
      <4>1. p > 0 /\ p \in Nat /\ n \in Nat
          BY <2>1, <2>3 DEF InRange, Uint
      <4>2. (p - 1) * n \in Nat
        <5>1. p - 1 \in Nat
            BY <4>1
        <5> QED
            BY <4>1, <5>1
      <4> QED
          BY <2>1, <4>2 DEF First
    <3>2. skipSize' = First'
        BY <2>1, <2>3, SkipRange DEF InRange, First
    <3>3. TakenAt(read)' = 0
        BY <2>1, <3>1 DEF TakenAt
    <3>4. skipSize' = First' - read' /\ read' <= First'
      <4> DEFINE f == First'
      <4>1. f \in Nat /\ skipSize' = f /\ read' = 0
          BY <2>1, <3>1, <3>2
      <4> HIDE DEF f
      <4>2. skipSize' = f - read' /\ read' <= f
          BY <4>1
      <4> QED
          BY <4>2 DEF f
    <3>5. needSize' = size' - TakenAt(read)'
        BY <1>0, <2>1, <3>3 DEF Uint
    <3>6. Len(resultList') = TakenAt(read)' /\ 1..TakenAt(read)' = {}
        BY <2>1, <3>3
    <3> QED
        BY <3>4, <3>5, <3>6 DEF Taken
  <2> QED
      BY <1>0, <2>2, <2>3 DEF LoopInv, Taken
\* One turn of the loop.
<1>4. ASSUME HasNext, read' = read + 1, total' = (total + 1) % Modulus,
             UNCHANGED requestVars, phase' = phase
      PROVE  Counted'
  <2>1. total = read /\ total + 1 \in Nat /\ total + 1 < Modulus
      BY <1>0, <1>4, PagingAssumption DEF LoopInv, Counted, HasNext, TypeOK
  <2> QED
      BY <1>4, <2>1, Reduce DEF Counted
<1>5. CASE SkipRecord
  <2>1. Counted'
      BY <1>4, <1>5 DEF SkipRecord
  <2>2. ASSUME InRange PROVE Taken'
    <3>1. First \in Nat /\ First' = First /\ read \in Nat
        BY <1>0, <1>5, <2>2, FirstType DEF SkipRecord, requestVars, First, TypeOK
    <3>2. read < First /\ skipSize = First - read
        BY <1>5, <2>2, <3>1 DEF SkipRecord, HasNext, LoopInv, Taken
    <3>3. TakenAt(read) = 0 /\ TakenAt(read)' = 0
        BY <1>5, <3>1, <3>2 DEF SkipRecord, TakenAt
    <3>4. skipSize' = First - read'
        BY <1>5, <3>1, <3>2 DEF SkipRecord, Decrement
    <3> QED
        BY <1>5, <2>2, <3>1, <3>2, <3>3, <3>4
        DEF SkipRecord, HasNext, LoopInv, Taken, requestVars
  <2> QED
      BY <1>0, <1>5, <2>1, <2>2 DEF LoopInv, Taken, SkipRecord, requestVars, InRange
<1>6. CASE TakeRecord
  <2>1. Counted'
      BY <1>4, <1>6 DEF TakeRecord
  <2>2. ASSUME InRange PROVE Taken'
    <3>0. First' = First
        BY <1>6 DEF TakeRecord, requestVars, First
    <3>1. /\ First \in Nat /\ First' = First /\ read \in Nat /\ size \in Nat
          /\ size = 0 => First = 0
      <4>1. read \in Nat /\ size \in Nat
          BY <1>0 DEF TypeOK, Uint
      <4> QED
          BY <1>0, <2>2, <3>0, <4>1, FirstType
    <3>a. /\ skipSize = (IF read <= First THEN First - read ELSE 0)
          /\ size # 0 => needSize = size - TakenAt(read)
          /\ Len(resultList) = TakenAt(read)
        BY <1>6, <2>2 DEF TakeRecord, HasNext, LoopInv, Taken
    <3>b. ~(skipSize > 0 /\ size > 0) /\ (needSize > 0 \/ size = 0)
        BY <1>6 DEF TakeRecord
    <3>2. read >= First /\ skipSize = 0 /\ Len(resultList) = TakenAt(read)
        BY <3>1, <3>a, <3>b
    <3>3. size # 0 => TakenAt(read) < size /\ needSize = size - TakenAt(read)
      <4>1. TakenAt(read) \in Nat
          BY <3>1 DEF TakenAt
      <4> QED
          BY <3>1, <3>a, <3>b, <4>1
    <3>4. TakenAt(read) = read - First /\ TakenAt(read)' = read - First + 1
        BY <1>6, <3>1, <3>2, <3>3 DEF TakenAt, TakeRecord, requestVars
    <3>5. /\ Len(resultList') = Len(resultList) + 1
          /\ \A k \in 1..Len(resultList) : resultList'[k] = resultList[k]
          /\ resultList'[Len(resultList) + 1] = results[read + 1]
      <4>1. resultList \in Seq(Keys) /\ results[read + 1] \in Keys
          BY <1>0, <1>6, NextRecord DEF TypeOK, TakeRecord
      <4>2. resultList' = Append(resultList, results[read + 1])
          BY <1>6 DEF TakeRecord
      <4> QED
          BY <4>1, <4>2, AppendProperties
    <3>6. \A k \in 1..TakenAt(read)' : resultList'[k] = results[First + k]
      <4>1. \A k \in 1..TakenAt(read) : resultList[k] = results[First + k]
          BY <1>6, <2>2 DEF TakeRecord, HasNext, LoopInv, Taken
      <4>2. First + (read - First + 1) = read + 1
          BY <3>1
      <4>3. ASSUME NEW k \in 1..(read - First + 1) PROVE resultList'[k] = results[First + k]
        <5>1. CASE k = read - First + 1
            BY <3>2, <3>4, <3>5, <4>2, <5>1
        <5>2. CASE k # read - First + 1
          <6>1. k \in 1..(read - First)
              BY <3>1, <5>2
          <6> QED
              BY <3>2, <3>4, <3>5, <4>1, <6>1
        <5> QED
            BY <5>1, <5>2
      <4> QED
          BY <3>4, <4>3
    <3>7. size # 0 => needSize' = size - TakenAt(read)'
        BY <1>6, <3>1, <3>2, <3>3, <3>4 DEF TakeRecord, Decrement
    <3> QED
        BY <1>6, <3>1, <3>2, <3>4, <3>5, <3>6, <3>7, SMTT(30) DEF TakeRecord, Taken, requestVars
  <2> QED
      BY <1>0, <1>6, <2>1, <2>2 DEF LoopInv, Taken, TakeRecord, requestVars, InRange
<1>7. CASE CountRecord
  <2>1. Counted'
      BY <1>4, <1>7 DEF CountRecord
  <2>2. ASSUME InRange PROVE Taken'
    <3>1. First \in Nat /\ First' = First /\ read \in Nat /\ size \in Nat
        BY <1>0, <1>7, <2>2, FirstType DEF CountRecord, requestVars, First, TypeOK, Uint
    <3>2. read >= First /\ TakenAt(read) = size /\ size # 0
        BY <1>0, <1>7, <2>2, <3>1 DEF CountRecord, HasNext, LoopInv, Taken, TakenAt, TypeOK, Uint
    <3>3. TakenAt(read)' = size
        BY <1>7, <3>1, <3>2 DEF TakenAt, CountRecord, requestVars
    <3> QED
        BY <1>7, <2>2, <3>1, <3>2, <3>3
        DEF CountRecord, HasNext, LoopInv, Taken, requestVars
  <2> QED
      BY <1>0, <1>7, <2>1, <2>2 DEF LoopInv, Taken, CountRecord, requestVars, InRange
<1>8. CASE Answer \/ Fail
    BY <1>2, <1>8 DEF Answer, Fail
<1>9. ASSUME NEW k \in Keys, Commit(k) PROVE LoopInv'
    BY <1>2, <1>9 DEF Commit
<1>11. ASSUME NEW j \in Keys, NEW place \in Places, Overwrite(j, place) PROVE LoopInv'
    BY <1>2, <1>11 DEF Overwrite
<1>10. CASE UNCHANGED vars
    BY <1>2, <1>10 DEF vars
<1> QED
    BY <1>3, <1>5, <1>6, <1>7, <1>8, <1>9, <1>10, <1>11 DEF Next

\* LoopInv holds in every reachable state.
THEOREM LoopInvariant == Spec => []LoopInv
<1>1. Init => LoopInv
    BY PagingAssumption DEF Init, LoopInv, TypeOK, Uint, Counted, Taken
<1> QED
    BY <1>1, LoopStep, PTL DEF Spec

-----------------------------------------------------------------------------

\* An answer is given when all records have been read.
Finished == phase = "answered" => read = Len(results)

\* Finished holds in every reachable state.
LEMMA FinishedInvariant == Spec => []Finished
<1>1. Init => Finished
    BY DEF Init, Finished
<1>2. Finished /\ [Next]_vars => Finished'
    BY DEF Finished, Next, Commit, Overwrite, Query, SkipRecord, TakeRecord, CountRecord, HasNext,
        Answer, Fail, vars, requestVars, loopVars
<1> QED
    BY <1>1, <1>2, PTL DEF Spec

\* TotalRecords counts all matching records, for every page and size.
THEOREM TotalTheorem == Spec => []TotalCountsAll
<1>1. LoopInv /\ Finished => TotalCountsAll
    BY DEF LoopInv, Counted, Finished, TotalCountsAll
<1> QED
    BY <1>1, LoopInvariant, FinishedInvariant, PTL

\* The answer to a request in range is its page of the records, for every ledger
\* and every width of the integers.
THEOREM PageTheorem == Spec => []PageIsSlice
<1>1. ASSUME LoopInv, Finished, phase = "answered", InRange PROVE resultList = Slice
  <2>1. First \in Nat /\ size \in Nat /\ Len(results) \in Nat /\ read = Len(results)
      BY <1>1, FirstType DEF LoopInv, TypeOK, Finished, Uint
  <2>2. /\ Len(resultList) = TakenAt(read)
        /\ \A k \in 1..TakenAt(read) : resultList[k] = results[First + k]
      BY <1>1 DEF LoopInv, Taken
  <2>3. 1..TakenAt(read) = 1..(Last - First)
      BY <2>1 DEF TakenAt, Last
  <2>4. resultList = [k \in 1..TakenAt(read) |-> resultList[k]]
      BY <1>1, <2>2 DEF LoopInv, TypeOK
  <2> QED
      BY <2>2, <2>3, <2>4 DEF Slice
<1>2. LoopInv /\ Finished => PageIsSlice
    BY <1>1 DEF PageIsSlice
<1> QED
    BY <1>2, LoopInvariant, FinishedInvariant, PTL

-----------------------------------------------------------------------------
(* Snapshots: what the iterator returns                                    *)

\* The keys of a set that come before k.
Below(S, k) == {j \in S : j < k}

\* The iterator returns the records in the order of their keys.
Increasing(list) == \A m, n \in 1..Len(list) : m < n => list[m] < list[n]

\* Keys are natural numbers.
LEMMA KeyNat == \A k \in Keys : k \in Nat
    BY DEF Keys

\* A set of keys is finite.
LEMMA KeySets ==
    ASSUME NEW S \in SUBSET Keys
    PROVE  IsFiniteSet(S) /\ Cardinality(S) \in Nat
<1>1. IsFiniteSet(Keys)
    BY FS_Interval, PagingAssumption DEF Keys
<1> QED
    BY <1>1, FS_Subset, FS_CardinalityType

\* The more keys a set has, the more of them come before k.
LEMMA BelowMonotone ==
    ASSUME NEW S \in SUBSET Keys, NEW T \in SUBSET S, NEW k
    PROVE  /\ Cardinality(Below(T, k)) \in Nat /\ Cardinality(Below(S, k)) \in Nat
           /\ Cardinality(Below(T, k)) <= Cardinality(Below(S, k))
<1>1. Below(T, k) \in SUBSET Below(S, k) /\ Below(S, k) \in SUBSET Keys
    BY DEF Below
<1> QED
    BY <1>1, KeySets, FS_Subset

\* In an increasing list the n-th key has n - 1 keys before it.
LEMMA Position ==
    ASSUME NEW list \in Seq(Keys), Increasing(list), NEW n \in 1..Len(list)
    PROVE  Cardinality(Below(Elements(list), list[n])) = n - 1
<1> DEFINE f == [m \in 1..(n - 1) |-> list[m]]
           B == Below(Elements(list), list[n])
<1>1. Len(list) \in Nat /\ n \in Nat /\ n - 1 \in Nat
    BY LenProperties
<1>2. \A m \in 1..Len(list) : list[m] \in Nat
    BY ElementOfSeq, KeyNat
<1>3. ASSUME NEW m \in 1..(n - 1) PROVE m \in 1..Len(list) /\ list[m] \in B
    BY <1>1, <1>3 DEF Increasing, Below, Elements
<1>4. f \in [1..(n - 1) -> B]
    BY <1>3
<1>5. ASSUME NEW l \in 1..(n - 1), NEW m \in 1..(n - 1), f[l] = f[m] PROVE l = m
  <2>1. list[l] = list[m] /\ l \in 1..Len(list) /\ m \in 1..Len(list)
      BY <1>3, <1>5
  <2>2. ~(l < m) /\ ~(m < l)
      BY <1>2, <2>1 DEF Increasing
  <2> QED
      BY <2>1, <2>2
<1>6. ASSUME NEW j \in B PROVE \E m \in 1..(n - 1) : f[m] = j
  <2>1. PICK m \in 1..Len(list) : j = list[m]
      BY DEF Below, Elements
  <2>2. list[m] < list[n]
      BY <2>1 DEF Below
  <2>3. ~(m = n) /\ ~(n < m)
      BY <1>2, <2>2 DEF Increasing
  <2>4. m \in 1..(n - 1)
      BY <1>1, <2>3
  <2> QED
      BY <2>1, <2>4
<1>7. f \in Bijection(1..(n - 1), B)
    BY <1>4, <1>5, <1>6 DEF Bijection, Injection, Surjection, IsInjective
<1> QED
    BY <1>1, <1>7, FS_CountingElements DEF ExistsBijection

\* A snapshot is all records of the ledger in order.
LEMMA SnapshotComplete ==
    ASSUME TypeOK, NEW s \in Snapshots
    PROVE  Increasing(s) /\ Elements(s) = stored
<1> DEFINE c == Cardinality(stored)
<1>1. IsFiniteSet(stored) /\ c \in Nat
    BY KeySets DEF TypeOK
<1>2. s \in [1..c -> stored] /\ \A m, n \in 1..c : m < n => s[m] < s[n]
    BY DEF Snapshots
<1>3. Len(s) = c
    BY <1>1, <1>2
<1>4. \A m \in 1..c : s[m] \in Nat
  <2>1. stored \in SUBSET Keys
      BY DEF TypeOK
  <2> QED
      BY <1>2, <2>1, KeyNat
<1>5. s \in Injection(1..c, stored)
    BY <1>2, <1>4 DEF Injection, IsInjective
<1>6. Cardinality(1..c) = c
    BY <1>1, FS_Interval
<1>7. s \in Surjection(1..c, stored)
    BY <1>1, <1>5, <1>6, FS_Injection
<1>8. Elements(s) = stored
    BY <1>2, <1>3, <1>7 DEF Surjection, Elements
<1> QED
    BY <1>2, <1>3, <1>8 DEF Increasing

-----------------------------------------------------------------------------
(* A walk over the pages                                                   *)

\* The records of A outside W that lie in S before the offset B: a walk that is
\* at B and has seen W will not show them any more.
Hidden(S, A, B, W) == {k \in A \ W : Cardinality(Below(S, k)) < B}

\* The page of size n at offset F.
Span(list, F, n) ==
    {list[m] : m \in {l \in 1..Len(list) : l > F /\ (n = 0 \/ l <= F + n)}}

\* What the walk has seen once the query that is running is answered.
SeenNext == seen \cup Span(results, First, size)

\* The offset of the due page is computed without wrapping around.
DueInRange == (due - 1) * size < Modulus

\* No more records are lost to the walk than were replaced away: of all, if it
\* is over, and otherwise of those before the due page.
Walked ==
    \/ Cardinality(since \ seen) <= gone
    \/ DueInRange /\ Cardinality(Hidden(stored, since, (due - 1) * size, seen)) <= gone

\* The same of the page that is being read.
PageWalked ==
    \/ Cardinality(since \ seen) <= gone
    \/ /\ InRange
       /\ \/ Cardinality(since \ SeenNext) <= gone
          \/ /\ First + size <= Len(results)
             /\ Cardinality(Hidden(stored, since, First + size, SeenNext)) <= gone

WalkState ==
    /\ since \subseteq stored
    /\ due > 0 => Walked
    /\ due > 0 /\ phase = "scanning" => page = due /\ PageWalked

WalkInv == LoopInv /\ WalkState /\ WalkMissesFew

\* A set of keys has at least as many elements as a part of it.
LEMMA FewMonotone ==
    ASSUME NEW S \in SUBSET Keys, NEW T \in SUBSET S
    PROVE  Cardinality(T) \in Nat /\ Cardinality(S) \in Nat /\ Cardinality(T) <= Cardinality(S)
    BY KeySets, FS_Subset

\* Hidden records are keys, and a walk that has seen more has fewer of them.
LEMMA HiddenKeys ==
    ASSUME NEW S, NEW A \in SUBSET Keys, NEW B, NEW V, NEW W, V \subseteq W
    PROVE  /\ Hidden(S, A, B, W) \in SUBSET Hidden(S, A, B, V)
           /\ Hidden(S, A, B, V) \in SUBSET Keys
    BY DEF Hidden

\* A new record moves the others to later places only: it hides none.
LEMMA NewHides ==
    ASSUME NEW S \in SUBSET Keys, NEW T \in SUBSET S, NEW A \in SUBSET Keys, NEW B \in Int, NEW W
    PROVE  Hidden(S, A, B, W) \in SUBSET Hidden(T, A, B, W)
<1>1. ASSUME NEW k \in Hidden(S, A, B, W) PROVE k \in Hidden(T, A, B, W)
  <2>1. k \in A \ W /\ Cardinality(Below(S, k)) < B
      BY DEF Hidden
  <2>2. Cardinality(Below(T, k)) < B
      BY <2>1, BelowMonotone
  <2> QED
      BY <2>1, <2>2 DEF Hidden
<1> QED
    BY <1>1

\* One more key is at most one more.
LEMMA OneMore ==
    ASSUME NEW S \in SUBSET Keys, NEW k
    PROVE  /\ Cardinality(S \cup {k}) <= Cardinality(S) + 1
           /\ k \notin S => Cardinality(S \cup {k}) = Cardinality(S) + 1
<1>1. IsFiniteSet(S) /\ Cardinality(S) \in Nat
    BY KeySets
<1>2. CASE k \in S
  <2>1. S \cup {k} = S
      BY <1>2
  <2> QED
      BY <1>1, <1>2, <2>1
<1>3. CASE k \notin S
  <2>1. Cardinality(S \cup {k}) = Cardinality(S) + 1
      BY <1>1, <1>3, FS_AddElement
  <2> QED
      BY <1>1, <1>3, <2>1
<1> QED
    BY <1>2, <1>3

\* A record that is taken away moves any other by one place at most.
LEMMA PlaceLost ==
    ASSUME NEW S \in SUBSET Keys, NEW j \in S, NEW k
    PROVE  /\ Cardinality(Below(S, k)) \in Nat /\ Cardinality(Below(S \ {j}, k)) \in Nat
           /\ Cardinality(Below(S, k)) <= Cardinality(Below(S \ {j}, k)) + 1
<1> DEFINE L == Below(S \ {j}, k)
<1>1. Below(S, k) \in SUBSET (L \cup {j}) /\ L \in SUBSET Keys /\ L \cup {j} \in SUBSET Keys
    BY DEF Below
<1>2. IsFiniteSet(L) /\ Cardinality(L) \in Nat
    BY <1>1, KeySets
<1>3. Cardinality(L \cup {j}) <= Cardinality(L) + 1
    BY <1>1, OneMore
<1>4. /\ Cardinality(Below(S, k)) \in Nat /\ Cardinality(L \cup {j}) \in Nat
      /\ Cardinality(Below(S, k)) <= Cardinality(L \cup {j})
    BY <1>1, FewMonotone
<1> QED
    BY <1>2, <1>3, <1>4

\* Two records have two places.
LEMMA PlacesDiffer ==
    ASSUME NEW S \in SUBSET Keys, NEW k \in S, NEW l \in S, k < l
    PROVE  Cardinality(Below(S, k)) < Cardinality(Below(S, l))
<1> DEFINE L == Below(S, k)
<1>1. k \in Nat /\ l \in Nat /\ \A j \in S : j \in Nat
    BY KeyNat
<1>2. L \in SUBSET Keys /\ k \notin L
  <2>1. L \in SUBSET S
      BY DEF Below
  <2>2. ~(k < k)
      BY <1>1
  <2> QED
      BY <2>1, <2>2 DEF Below
<1>3. L \cup {k} \in SUBSET Below(S, l) /\ Below(S, l) \in SUBSET Keys
  <2>1. ASSUME NEW j \in L PROVE j \in S /\ j < l
      BY <1>1 DEF Below
  <2>2. k \in Below(S, l) /\ L \in SUBSET Below(S, l) /\ Below(S, l) \in SUBSET S
      BY <2>1 DEF Below
  <2> QED
      BY <2>2
<1>4. IsFiniteSet(L) /\ Cardinality(L) \in Nat
    BY <1>2, KeySets
<1>5. Cardinality(L \cup {k}) = Cardinality(L) + 1
    BY <1>2, OneMore
<1>6. /\ Cardinality(L \cup {k}) <= Cardinality(Below(S, l))
      /\ Cardinality(Below(S, l)) \in Nat
    BY <1>3, FewMonotone
<1> QED
    BY <1>4, <1>5, <1>6

\* A record that is taken away hides one other at most: the one at the offset.
LEMMA GoneHides ==
    ASSUME NEW S \in SUBSET Keys, NEW j \in S, NEW A \in SUBSET S, NEW B \in Int, NEW W
    PROVE  Cardinality(Hidden(S \ {j}, A \ {j}, B, W)) <= Cardinality(Hidden(S, A, B, W)) + 1
<1> DEFINE H == Hidden(S, A, B, W)
           G == Hidden(S \ {j}, A \ {j}, B, W)
<1>1. H \in SUBSET Keys /\ G \in SUBSET Keys /\ IsFiniteSet(H) /\ Cardinality(H) \in Nat
  <2>1. H \in SUBSET Keys /\ G \in SUBSET Keys
      BY DEF Hidden
  <2> QED
      BY <2>1, KeySets
<1>2. ASSUME NEW k \in G, k \notin H PROVE k \in S /\ Cardinality(Below(S, k)) = B
  <2>1. k \in A \ W /\ Cardinality(Below(S \ {j}, k)) < B
      BY <1>2 DEF Hidden
  <2>2. ~(Cardinality(Below(S, k)) < B)
      BY <1>2, <2>1 DEF Hidden
  <2> QED
      BY <2>1, <2>2, PlaceLost
<1>3. ASSUME NEW k \in G, k \notin H, NEW l \in G, l \notin H PROVE k = l
  <2>1. k \in S /\ l \in S /\ k \in Nat /\ l \in Nat
      BY <1>2, <1>3, KeyNat
  <2>2. Cardinality(Below(S, k)) = B /\ Cardinality(Below(S, l)) = B
      BY <1>2, <1>3
  <2>3. ~(k < l) /\ ~(l < k)
      BY <2>1, <2>2, PlacesDiffer
  <2> QED
      BY <2>1, <2>3
<1>4. CASE G \subseteq H
  <2>1. Cardinality(G) <= Cardinality(H) /\ Cardinality(G) \in Nat
      BY <1>1, <1>4, FewMonotone
  <2> QED
      BY <1>1, <2>1
<1>5. CASE ~(G \subseteq H)
  <2>1. PICK k \in G : k \notin H
      BY <1>5
  <2>2. G \in SUBSET (H \cup {k}) /\ H \cup {k} \in SUBSET Keys
      BY <1>1, <1>3, <2>1
  <2>3. /\ Cardinality(G) <= Cardinality(H \cup {k})
        /\ Cardinality(G) \in Nat /\ Cardinality(H \cup {k}) \in Nat
      BY <2>2, FewMonotone
  <2>4. Cardinality(H \cup {k}) <= Cardinality(H) + 1
      BY <1>1, OneMore
  <2> QED
      BY <1>1, <2>3, <2>4
<1> QED
    BY <1>4, <1>5

\* A page of a snapshot shows the records from its offset to its end; a page that
\* is not full shows them all.
LEMMA PageHides ==
    ASSUME NEW S \in SUBSET Keys, NEW list \in Seq(Keys), Increasing(list), Elements(list) = S,
           NEW A \in SUBSET S, NEW F \in Nat, NEW n \in Nat, NEW W
    PROVE  /\ Hidden(S, A, F + n, W \cup Span(list, F, n)) \in SUBSET Hidden(S, A, F, W)
           /\ n = 0 \/ Len(list) < F + n
                  => A \ (W \cup Span(list, F, n)) \in SUBSET Hidden(S, A, F, W)
<1> DEFINE P == Span(list, F, n)
<1>1. Len(list) \in Nat
    BY LenProperties
<1>2. ASSUME NEW k \in A \ (W \cup P),
             Cardinality(Below(S, k)) < F + n \/ n = 0 \/ Len(list) < F + n
      PROVE  k \in Hidden(S, A, F, W)
  <2>1. PICK m \in 1..Len(list) : k = list[m]
      BY DEF Elements
  <2>2. Cardinality(Below(S, k)) = m - 1 /\ m \in Nat
      BY <1>1, <2>1, Position
  <2>3. ~(m > F /\ (n = 0 \/ m <= F + n))
      BY <2>1 DEF Span
  <2>4. m <= F
      BY <1>1, <1>2, <2>2, <2>3
  <2> QED
      BY <2>2, <2>4 DEF Hidden
<1>3. ASSUME NEW k \in Hidden(S, A, F + n, W \cup P) PROVE k \in Hidden(S, A, F, W)
  <2>1. k \in A \ (W \cup P) /\ Cardinality(Below(S, k)) < F + n
      BY DEF Hidden
  <2> QED
      BY <1>2, <2>1
<1> QED
    BY <1>2, <1>3

\* The offset of the due page is an integer.
LEMMA OffsetType ==
    ASSUME TypeOK
    PROVE  (due - 1) * size \in Int /\ (due > 0 => (due - 1) * size \in Nat)
<1>1. due - 1 \in Int /\ size \in Nat /\ (due > 0 => due - 1 \in Nat)
    BY DEF TypeOK, Uint
<1> QED
    BY <1>1

\* When the loop is done, resultList holds the records of the page, and a page
\* that is not full reaches to the end.
LEMMA PageRead ==
    ASSUME LoopInv, phase = "scanning", read = Len(results), InRange
    PROVE  /\ First \in Nat /\ Len(results) \in Nat
           /\ Span(results, First, size) \subseteq Elements(resultList)
           /\ Len(resultList) < size => Len(results) < First + size
<1>1. First \in Nat /\ size \in Nat /\ Len(results) \in Nat
    BY FirstType, LenProperties DEF LoopInv, TypeOK, Uint
<1>2. /\ Len(resultList) = TakenAt(Len(results))
      /\ \A k \in 1..TakenAt(Len(results)) : resultList[k] = results[First + k]
    BY DEF LoopInv, Taken
<1>3. ASSUME NEW n \in 1..Len(results), n > First, size = 0 \/ n <= First + size
      PROVE  results[n] \in Elements(resultList)
  <2>1. n - First \in 1..TakenAt(Len(results)) /\ First + (n - First) = n
      BY <1>1, <1>3 DEF TakenAt
  <2> QED
      BY <1>2, <2>1 DEF Elements
<1>4. ASSUME Len(resultList) < size PROVE Len(results) < First + size
    BY <1>1, <1>2, <1>4 DEF TakenAt
<1> QED
    BY <1>1, <1>3, <1>4 DEF Span

\* The page after the due one begins where the due one ends.
LEMMA NextOffset ==
    ASSUME TypeOK, page = due, due > 0
    PROVE  First = (due - 1) * size /\ due * size = First + size
<1>1. due \in Nat /\ size \in Nat
    BY DEF TypeOK, Uint
<1>2. due * size = (due - 1) * size + size
    BY <1>1
<1> QED
    BY <1>2 DEF First

\* Few records stay few: a commit hides none, and a record that is replaced away
\* is counted when it hides one.
LEMMA LedgerKeeps ==
    ASSUME TypeOK, since \subseteq stored, due > 0, NEW W, NEW B \in Int,
           \/ \E k \in Keys : Commit(k)
           \/ \E j \in Keys, place \in Places : Overwrite(j, place)
    PROVE  /\ Cardinality(since \ W) <= gone => Cardinality(since' \ W) <= gone'
           /\ Cardinality(Hidden(stored, since, B, W)) <= gone
                  => Cardinality(Hidden(stored', since', B, W)) <= gone'
<1> DEFINE H == Hidden(stored, since, B, W)
<1>0. /\ stored \in SUBSET Keys /\ since \in SUBSET Keys /\ gone \in Nat
      /\ H \in SUBSET Keys /\ Cardinality(H) \in Nat
      /\ since \ W \in SUBSET Keys /\ Cardinality(since \ W) \in Nat
  <2>1. H \in SUBSET Keys
      BY DEF Hidden, TypeOK
  <2>2. since \ W \in SUBSET Keys
      BY DEF TypeOK
  <2>3. gone \in Nat
      BY PagingAssumption DEF TypeOK
  <2> QED
      BY <2>1, <2>2, <2>3, KeySets DEF TypeOK
<1>1. ASSUME NEW k \in Keys, Commit(k)
      PROVE  /\ since' = since /\ gone' = gone
             /\ Hidden(stored', since, B, W) \in SUBSET H
  <2>1. since' = since /\ gone' = gone /\ stored' = stored \cup {k}
      BY <1>1 DEF Commit, walkVars
  <2> QED
      BY <1>0, <2>1, NewHides
<1>2. ASSUME NEW j \in Keys, NEW place \in Places, Overwrite(j, place)
      PROVE  /\ since' \ W \in SUBSET (since \ W) /\ gone' \in Nat /\ gone <= gone'
             /\ Cardinality(H) <= gone => Cardinality(Hidden(stored', since', B, W)) <= gone'
  <2>1. /\ j \in stored /\ stored' = (stored \ {j}) \cup place /\ since' = since \ {j}
        /\ gone' = IF j \in place THEN gone ELSE gone + 1
        /\ place \in SUBSET Keys
      BY <1>2 DEF Overwrite, Places
  <2>2. stored' \in SUBSET Keys /\ since' \in SUBSET Keys /\ since' \in SUBSET since
        /\ gone' \in Nat /\ gone <= gone'
      BY <1>0, <2>1
  <2>3. CASE j \in place
    <3>1. stored \in SUBSET stored' /\ gone' = gone
        BY <2>1, <2>3
    <3>2. Hidden(stored', since', B, W) \in SUBSET Hidden(stored, since', B, W)
        BY <2>2, <3>1, NewHides
    <3>3. Hidden(stored, since', B, W) \in SUBSET H
        BY <2>2 DEF Hidden
    <3>4. Cardinality(Hidden(stored', since', B, W)) \in Nat
          /\ Cardinality(Hidden(stored', since', B, W)) <= Cardinality(H)
        BY <1>0, <3>2, <3>3, FewMonotone
    <3> QED
        BY <1>0, <2>2, <3>1, <3>4
  <2>4. CASE j \notin place
    <3>1. stored \ {j} \in SUBSET stored' /\ gone' = gone + 1
        BY <2>1, <2>4
    <3>2. Hidden(stored', since', B, W) \in SUBSET Hidden(stored \ {j}, since', B, W)
        BY <2>2, <3>1, NewHides
    <3>3. Hidden(stored \ {j}, since', B, W) \in SUBSET Keys
        BY <2>2 DEF Hidden
    <3>4. /\ Cardinality(Hidden(stored', since', B, W)) \in Nat
          /\ Cardinality(Hidden(stored \ {j}, since', B, W)) \in Nat
          /\ Cardinality(Hidden(stored', since', B, W))
                 <= Cardinality(Hidden(stored \ {j}, since', B, W))
        BY <3>2, <3>3, FewMonotone
    <3>5. Cardinality(Hidden(stored \ {j}, since', B, W)) <= Cardinality(H) + 1
        BY <1>0, <2>1, GoneHides
    <3> QED
        BY <1>0, <2>2, <3>1, <3>4, <3>5
  <2> QED
      BY <2>2, <2>3, <2>4
<1>3. ASSUME NEW T \in SUBSET H PROVE Cardinality(T) \in Nat /\ Cardinality(T) <= Cardinality(H)
    BY <1>0, <1>3, FewMonotone
<1>4. ASSUME NEW T \in SUBSET (since \ W)
      PROVE  Cardinality(T) \in Nat /\ Cardinality(T) <= Cardinality(since \ W)
    BY <1>0, <1>4, FewMonotone
<1>5. CASE \E k \in Keys : Commit(k)
    BY <1>0, <1>1, <1>3, <1>5
<1>6. CASE \E j \in Keys, place \in Places : Overwrite(j, place)
    BY <1>0, <1>2, <1>4, <1>6
<1> QED
    BY <1>5, <1>6

\* The walk is kept when the ledger changes.
LEMMA LedgerStep ==
    ASSUME WalkInv,
           \/ \E k \in Keys : Commit(k)
           \/ \E j \in Keys, place \in Places : Overwrite(j, place)
    PROVE  WalkState' /\ WalkMissesFew'
<1>0. TypeOK /\ WalkState /\ WalkMissesFew /\ since \subseteq stored
    BY DEF WalkInv, LoopInv, WalkState
<1>1. /\ since' \subseteq stored'
      /\ UNCHANGED <<phase, page, size, results, resultList, seen, due>>
    BY <1>0 DEF Commit, Overwrite, requestVars, loopVars, walkVars
<1>2. SeenNext' = SeenNext /\ (DueInRange' <=> DueInRange) /\ (InRange' <=> InRange)
      /\ First' = First
    BY <1>1 DEF SeenNext, DueInRange, InRange, First
<1>3. CASE due > 0
  <2>1. (due - 1) * size \in Int
      BY <1>0, OffsetType
  <2>2. \A W : Cardinality(since \ W) <= gone => Cardinality(since' \ W) <= gone'
      BY <1>0, <1>3, LedgerKeeps
  <2>3. \A W : \A B \in Int : Cardinality(Hidden(stored, since, B, W)) <= gone
            => Cardinality(Hidden(stored', since', B, W)) <= gone'
      BY <1>0, <1>3, LedgerKeeps
  <2>4. Walked'
      BY <1>0, <1>1, <1>2, <1>3, <2>1, <2>2, <2>3 DEF WalkState, Walked
  <2>5. PageWalked => PageWalked'
    <3>1. InRange => First + size \in Int
        BY <1>0, FirstType DEF TypeOK, Uint
    <3> QED
        BY <1>1, <1>2, <2>2, <2>3, <3>1 DEF PageWalked
  <2>6. WalkMissesFew'
      BY <1>0, <1>1, <2>2 DEF WalkMissesFew
  <2> QED
      BY <1>0, <1>1, <2>4, <2>5, <2>6 DEF WalkState
<1>4. CASE ~(due > 0)
    BY <1>1, <1>4 DEF WalkState, WalkMissesFew
<1> QED
    BY <1>3, <1>4

\* A query of the due page is where the walk is.
LEMMA QueryStep ==
    ASSUME WalkInv, NEW p \in Uint, NEW n \in Uint, Query(p, n)
    PROVE  WalkState' /\ WalkMissesFew'
<1>0. TypeOK /\ WalkState /\ stored \in SUBSET Keys /\ since \subseteq stored
    BY DEF WalkInv, LoopInv, WalkState, TypeOK
<1>1. /\ phase' = "scanning" /\ page' = p /\ size' = n
      /\ stored' = stored /\ results' \in Snapshots
    BY DEF Query
<1>2. results' \in Seq(Keys) /\ Increasing(results') /\ Elements(results') = stored
    BY <1>0, <1>1, SnapshotType, SnapshotComplete
<1>3. WalkMissesFew'
    BY <1>1 DEF WalkMissesFew
<1>4. n \in Nat /\ p \in Nat
    BY DEF Uint
<1> DEFINE F == (p - 1) * n
           next == seen' \cup Span(results', F, n)
<1>5. /\ First' = F /\ SeenNext' = next
      /\ InRange' <=> p > 0 /\ F < Modulus
    BY <1>1 DEF First, SeenNext, InRange
<1>6. ASSUME F \in Nat, F < Modulus, p > 0, since' \in SUBSET stored, gone' \in Nat,
             Cardinality(Hidden(stored, since', F, seen')) <= gone'
      PROVE  PageWalked'
  <2> DEFINE H == Hidden(stored, since', F, seen')
  <2> HIDE DEF F
  <2>1. H \in SUBSET Keys /\ Cardinality(H) \in Nat /\ \A T \in SUBSET H :
            Cardinality(T) \in Nat /\ Cardinality(T) <= Cardinality(H)
    <3>1. H \in SUBSET Keys
        BY <1>0, <1>6 DEF Hidden
    <3> QED
        BY <3>1, FewMonotone, KeySets
  <2>2. /\ Hidden(stored, since', F + n, next) \in SUBSET H
        /\ n = 0 \/ Len(results') < F + n => since' \ next \in SUBSET H
    <3>1. stored \in SUBSET Keys /\ since' \in SUBSET stored /\ F \in Nat /\ n \in Nat
        BY <1>0, <1>4, <1>6
    <3> QED
        BY <1>2, <3>1, PageHides
  <2>3. Cardinality(Hidden(stored, since', F + n, next)) <= gone'
    <3> DEFINE T == Hidden(stored, since', F + n, next)
    <3>1. T \in SUBSET H /\ Cardinality(H) <= gone'
        BY <1>6, <2>2
    <3> HIDE DEF T, H
    <3>2. Cardinality(T) \in Nat /\ Cardinality(T) <= Cardinality(H)
        BY <2>1, <3>1
    <3> QED
        BY <1>6, <2>1, <3>1, <3>2 DEF T
  <2>4. n = 0 \/ Len(results') < F + n => Cardinality(since' \ next) <= gone'
      BY <1>6, <2>1, <2>2
  <2>5. Len(results') \in Nat
      BY <1>2, LenProperties
  <2>6. ~(n = 0 \/ Len(results') < F + n) => F + n <= Len(results')
      BY <1>4, <1>6, <2>5
  <2> QED
      BY <1>1, <1>5, <1>6, <2>3, <2>4, <2>6 DEF PageWalked
<1>7. CASE p = 1 /\ since' = stored /\ seen' = {} /\ due' = 1 /\ gone' = 0
  <2>1. F = 0 /\ (due' - 1) * size' = 0
      BY <1>1, <1>4, <1>7
  <2>2. Hidden(stored, since', 0, seen') = {}
    <3>1. ASSUME NEW k PROVE ~(Cardinality(Below(stored, k)) < 0)
        BY <1>0, BelowMonotone
    <3> QED
        BY <3>1 DEF Hidden
  <2>3. Cardinality(Hidden(stored, since', 0, seen')) = 0
      BY <2>2, FS_EmptySet
  <2>4. Walked'
      BY <1>1, <1>7, <2>1, <2>3, PagingAssumption DEF Walked, DueInRange
  <2>5. PageWalked'
      BY <1>6, <1>7, <2>1, <2>3, PagingAssumption
  <2> QED
      BY <1>1, <1>3, <1>7, <2>4, <2>5 DEF WalkState
<1>8. CASE p = due /\ n = size /\ UNCHANGED walkVars
  <2>1. /\ since' = since /\ seen' = seen /\ due' = due /\ gone' = gone /\ gone \in Nat
        /\ (due - 1) * size = F
      BY <1>0, <1>8, PagingAssumption DEF walkVars, TypeOK
  <2>2. Walked' <=> Walked
      BY <1>1, <1>8, <2>1 DEF Walked, DueInRange
  <2>3. ASSUME due > 0 PROVE PageWalked'
    <3>1. Walked /\ F \in Nat
        BY <1>0, <2>1, <2>3, OffsetType DEF WalkState
    <3>2. CASE Cardinality(since \ seen) <= gone
        BY <2>1, <3>2 DEF PageWalked
    <3>3. CASE DueInRange /\ Cardinality(Hidden(stored, since, F, seen)) <= gone
        BY <1>0, <1>6, <1>8, <2>1, <2>3, <3>1, <3>3 DEF DueInRange
    <3> QED
        BY <2>1, <3>1, <3>2, <3>3 DEF Walked
  <2> QED
      BY <1>0, <1>1, <1>3, <1>8, <2>1, <2>2, <2>3 DEF WalkState
<1>9. CASE since' = {} /\ due' = 0
    BY <1>1, <1>3, <1>9 DEF WalkState
<1> QED
    BY <1>7, <1>8, <1>9 DEF Query

\* An answer moves the walk to the next page.
LEMMA AnswerStep == ASSUME WalkInv, Answer PROVE WalkState' /\ WalkMissesFew'
<1>0. /\ LoopInv /\ TypeOK /\ WalkState /\ since \in SUBSET Keys /\ gone \in Nat
      /\ since \subseteq stored
    BY PagingAssumption DEF WalkInv, LoopInv, TypeOK, WalkState
<1>1. /\ phase = "scanning" /\ phase' = "answered" /\ read = Len(results)
      /\ UNCHANGED <<stored, page, size, results, resultList, since, gone>>
    BY DEF Answer, requestVars, loopVars
<1>2. CASE due = 0
    BY <1>0, <1>1, <1>2 DEF Answer, WalkState, WalkMissesFew
<1>3. CASE due > 0
  <2>1. due' = due + 1 /\ seen' = seen \cup Elements(resultList)
      BY <1>3 DEF Answer
  <2>2. page = due /\ PageWalked
      BY <1>0, <1>1, <1>3 DEF WalkState
  <2>3. ASSUME NEW V, V \subseteq seen', Cardinality(since \ V) <= gone
        PROVE  WalkState' /\ WalkMissesFew'
    <3>1. since \ V \in SUBSET Keys /\ since \ seen' \in SUBSET (since \ V)
        BY <1>0, <2>3
    <3>2. Cardinality(since \ seen') <= gone
        BY <1>0, <2>3, <3>1, FewMonotone
    <3> QED
        BY <1>0, <1>1, <3>2 DEF WalkState, Walked, WalkMissesFew
  <2>4. CASE Cardinality(since \ seen) <= gone
      BY <2>1, <2>3, <2>4
  <2>5. ASSUME InRange PROVE SeenNext \subseteq seen'
      BY <1>0, <1>1, <2>1, <2>5, PageRead DEF SeenNext
  <2>6. CASE InRange /\ Cardinality(since \ SeenNext) <= gone
      BY <2>3, <2>5, <2>6
  <2>7. CASE /\ InRange /\ First + size <= Len(results)
             /\ Cardinality(Hidden(stored, since, First + size, SeenNext)) <= gone
    <3>1. /\ First \in Nat /\ size \in Nat /\ Len(results) \in Nat /\ Len(results) <= MaxKey
          /\ Len(resultList) \in Nat
        BY <1>0, <2>7, FirstType, LenProperties DEF TypeOK, Uint
    <3>2. (due' - 1) * size' = First + size
      <4>1. due * size = First + size
          BY <1>0, <1>3, <2>2, NextOffset
      <4>2. due' - 1 = due /\ size' = size
          BY <1>0, <1>1, <2>1 DEF TypeOK
      <4> QED
          BY <4>1, <4>2
    <3>3. DueInRange'
        BY <2>7, <3>1, <3>2, PagingAssumption DEF DueInRange
    <3>4. Cardinality(Hidden(stored, since, First + size, seen')) <= gone
      <4>1. /\ Hidden(stored, since, First + size, seen')
                   \in SUBSET Hidden(stored, since, First + size, SeenNext)
            /\ Hidden(stored, since, First + size, SeenNext) \in SUBSET Keys
          BY <1>0, <2>5, <2>7, HiddenKeys
      <4>2. /\ Cardinality(Hidden(stored, since, First + size, seen'))
                   <= Cardinality(Hidden(stored, since, First + size, SeenNext))
            /\ Cardinality(Hidden(stored, since, First + size, seen')) \in Nat
            /\ Cardinality(Hidden(stored, since, First + size, SeenNext)) \in Nat
          BY <4>1, FewMonotone
      <4> QED
          BY <1>0, <2>7, <4>2
    <3>5. Walked'
        BY <1>1, <3>2, <3>3, <3>4 DEF Walked
    <3>6. ~(Len(resultList) < size)
        BY <1>0, <1>1, <2>7, <3>1, PageRead
    <3> QED
        BY <1>0, <1>1, <3>5, <3>6 DEF WalkState, WalkMissesFew
  <2> QED
      BY <2>2, <2>4, <2>6, <2>7 DEF PageWalked
<1> QED
    BY <1>0, <1>2, <1>3 DEF TypeOK

\* The walk is kept by every step.
LEMMA WalkStep == ASSUME WalkInv, [Next]_vars PROVE WalkState' /\ WalkMissesFew'
<1>0. WalkState /\ WalkMissesFew
    BY DEF WalkInv
<1>1. CASE SkipRecord \/ TakeRecord \/ CountRecord \/ Fail \/ UNCHANGED vars
  <2>1. /\ UNCHANGED <<stored, page, size, results, since, seen, due, gone>>
        /\ phase' = "failed" \/ (phase' = phase /\ (phase = "scanning" \/ UNCHANGED resultList))
      BY <1>1 DEF SkipRecord, TakeRecord, CountRecord, Fail, HasNext, vars, requestVars, loopVars,
          walkVars
  <2>2. (Walked' <=> Walked) /\ (PageWalked' <=> PageWalked)
      BY <2>1 DEF Walked, PageWalked, DueInRange, InRange, First, SeenNext
  <2> QED
      BY <1>0, <2>1, <2>2 DEF WalkState, WalkMissesFew
<1>2. CASE (\E k \in Keys : Commit(k)) \/ (\E j \in Keys, place \in Places : Overwrite(j, place))
    BY <1>2, LedgerStep
<1> QED
    BY <1>1, <1>2, QueryStep, AnswerStep DEF Next

\* A client that reads page after page misses no more records than were replaced
\* away during its walk, for any ledger, page size, commits and failures in
\* between: none when every id is new.
THEOREM WalkTheorem == Spec => []WalkMissesFew
<1>1. Init => WalkState /\ WalkMissesFew
    BY DEF Init, WalkState, WalkMissesFew
<1>2. Init => WalkInv
    BY <1>1, PagingAssumption DEF WalkInv, Init, LoopInv, TypeOK, Uint, Counted, Taken
<1>3. WalkInv /\ [Next]_vars => WalkInv'
    BY WalkStep, LoopStep DEF WalkInv
<1>4. WalkInv => WalkMissesFew
    BY DEF WalkInv
<1> QED
    BY <1>2, <1>3, <1>4, PTL DEF Spec
=============================================================================
