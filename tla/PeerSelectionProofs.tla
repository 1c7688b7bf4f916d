------------------------ MODULE PeerSelectionProofs -------------------------
(***************************************************************************)
(* Proofs about PeerSelection: types, and what a request is sent to meets  *)
(* the policy, for any sets of peers and organisations.                    *)
(***************************************************************************)
EXTENDS PeerSelection, FiniteSetTheorems, SequenceTheorems, TLAPS

\* The keys of orgMap, organisations and addresses, are finitely many.
LEMMA KeysFinite == \A S \in SUBSET Keys : IsFiniteSet(S) /\ Cardinality(S) \in Nat
<1> DEFINE f == [p \in PeerNames |-> HostOf[p]]
           hosts == {HostOf[p] : p \in PeerNames}
<1>1. f \in Surjection(PeerNames, hosts)
    BY DEF Surjection
<1>2. IsFiniteSet(hosts)
    BY <1>1, FS_Surjection, HostAssumption
<1> QED
    BY <1>2, FS_Union, FS_Subset, FS_CardinalityType, HostAssumption DEF Keys

\* Addresses and organisations are keys, and no address is an organisation.
LEMMA KeyTypes ==
    /\ OrgNames \subseteq Keys
    /\ \A p \in PeerNames : HostOf[p] \in Keys \ OrgNames
BY HostAssumption DEF Keys

LEMMA ReadPeerType ==
    ASSUME TypeOK, NEW p \in PeerNames, ReadPeer(p)
    PROVE  TypeOK'
<1> USE DEF ReadPeer, TypeOK, configVars
<1>1. Append(orgMap[HostOf[p]], p) \in Seq(PeerNames)
    BY KeyTypes, AppendProperties
<1>2. orgMap' \in [Keys -> Seq(PeerNames)]
    BY <1>1
<1> QED
    BY <1>2

LEMMA ListOrgType ==
    ASSUME TypeOK, NEW o \in Keys, ListOrg(o)
    PROVE  TypeOK'
<1> USE DEF ListOrg, TypeOK, configVars
<1>1. orRulePeerNames' \in Seq(PeerNames)
    BY ConcatProperties
<1> QED
    BY <1>1

LEMMA GetSendPeerNameType ==
    ASSUME TypeOK, GetSendPeerName
    PROVE  TypeOK'
<1> USE DEF GetSendPeerName, TypeOK, configVars
<1>1. sendNames' \in Seq(PeerNames)
  <2>1. CASE orRulePeerNames # <<>>
    <3>1. PICK n \in 1..Len(orRulePeerNames) : sendNames' = <<orRulePeerNames[n]>>
        BY <2>1
    <3>2. orRulePeerNames[n] \in PeerNames
        BY ElementOfSeq
    <3> QED
        BY <3>1, <3>2
  <2>2. CASE orRulePeerNames = <<>> /\ policyRule = "and"
    <3>1. Cardinality(OrgKeys) \in Nat
        BY KeysFinite DEF OrgKeys
    <3>2. sendNames' \in [1..Cardinality(OrgKeys) -> PeerNames]
        BY <2>2
    <3> QED
        BY ONLY <3>1, <3>2
  <2>3. CASE orRulePeerNames = <<>> /\ policyRule # "and"
      BY <2>3
  <2> QED
      BY <2>1, <2>2, <2>3
<1> QED
    BY <1>1

\* Every step of the loops and of GetSendPeerName keeps the types.
LEMMA SelectionType == TypeOK /\ [Next]_vars => TypeOK'
<1> SUFFICES ASSUME TypeOK, [Next]_vars PROVE TypeOK'
    OBVIOUS
<1>1. ASSUME NEW p \in PeerNames, ReadPeer(p) PROVE TypeOK'
    BY <1>1, ReadPeerType
<1>2. CASE PeersRead
    BY <1>2 DEF PeersRead, TypeOK, configVars, OrgKeys
<1>3. ASSUME NEW o \in Keys, ListOrg(o) PROVE TypeOK'
    BY <1>3, ListOrgType
<1>4. CASE OrgsListed
    BY <1>4 DEF OrgsListed, TypeOK, configVars
<1>5. CASE GetSendPeerName
    BY <1>5, GetSendPeerNameType
<1>6. CASE UNCHANGED vars
    BY <1>6 DEF vars, TypeOK, configVars
<1> QED
    BY <1>1, <1>2, <1>3, <1>4, <1>5, <1>6 DEF Next
-----------------------------------------------------------------------------
(* What is selected                                                        *)

Eligible(p) == p \in DOMAIN orgOf /\ orgOf[p] \in policyOrgs

\* A list of orgMap has at most one peer, an eligible one of its organisation;
\* every eligible peer is unread or its organisation has a list.
OrgMapInv ==
    /\ phase = "peers" => unread \subseteq DOMAIN orgOf
    /\ \A k \in Keys : orgMap[k] = <<>> \/
            \E p \in PeerNames : Eligible(p) /\ orgOf[p] = k /\ orgMap[k] = <<p>>
    /\ phase = "peers" =>
            \A p \in PeerNames : Eligible(p) => p \in unread \/ orgMap[orgOf[p]] # <<>>
    /\ phase \in {"orgs", "ready"} =>
            \A p \in PeerNames : Eligible(p) => orgMap[orgOf[p]] # <<>>

\* The flat list has eligible peers only, and is what the rule "or" needs.
OrRuleInv ==
    /\ \A n \in 1..Len(orRulePeerNames) : Eligible(orRulePeerNames[n])
    /\ phase = "orgs" => policyRule = "or"
    /\ phase = "peers" \/ policyRule # "or" => orRulePeerNames = <<>>
    /\ phase = "ready" /\ policyRule = "or" => orRulePeerNames # <<>>

SelectionInv ==
    /\ TypeOK
    /\ OrgMapInv
    /\ OrRuleInv
    /\ asked => phase = "ready"
    /\ SelectionMeetsPolicy

\* Under "and" the names of distinct lists are distinct, and there is one for
\* every list.
LEMMA OnePerOrg ==
    ASSUME SelectionInv,
           NEW order \in [1..Cardinality(OrgKeys) -> OrgKeys],
           \A m, n \in 1..Cardinality(OrgKeys) : m # n => order[m] # order[n],
           NEW names \in [1..Cardinality(OrgKeys) -> PeerNames],
           \A m \in 1..Cardinality(OrgKeys) :
                \E n \in 1..Len(orgMap[order[m]]) : names[m] = orgMap[order[m]][n]
    PROVE  LET Chosen == {names[n] : n \in 1..Cardinality(OrgKeys)}
           IN  /\ Cardinality(Chosen) = Cardinality(OrgKeys)
               /\ \A p \in Chosen : Eligible(p)
               /\ phase = "ready" => \A o \in Represented :
                    Cardinality({p \in Chosen : orgOf[p] = o}) = 1
<1> DEFINE size == Cardinality(OrgKeys)
           Chosen == {names[n] : n \in 1..size}
<1>1. size \in Nat /\ IsFiniteSet(OrgKeys)
    BY KeysFinite DEF OrgKeys
<1>2. \A m \in 1..size : Eligible(names[m]) /\ orgOf[names[m]] = order[m]
  <2> TAKE m \in 1..size
  <2>1. order[m] \in Keys /\ orgMap[order[m]] # <<>>
      BY DEF OrgKeys
  <2>2. PICK p \in PeerNames :
            Eligible(p) /\ orgOf[p] = order[m] /\ orgMap[order[m]] = <<p>>
      BY <2>1 DEF SelectionInv, OrgMapInv
  <2>3. names[m] = p
      BY <2>2
  <2> QED
      BY <2>2, <2>3
<1>3. \A m, n \in 1..size : names[m] = names[n] => m = n
    BY <1>2
<1>4. names \in Bijection(1..size, Chosen)
    BY <1>3 DEF Bijection, Injection, Surjection, IsInjective
<1>5. Cardinality(Chosen) = size
  <2>1. IsFiniteSet(1..size) /\ Cardinality(1..size) = size
      BY <1>1, FS_Interval
  <2> QED
      BY <2>1, <1>4, FS_Bijection DEF ExistsBijection
<1>6. order \in Surjection(1..size, OrgKeys)
  <2>1. Cardinality(1..size) = size
      BY <1>1, FS_Interval
  <2>2. order \in Injection(1..size, OrgKeys)
      BY DEF Injection, IsInjective
  <2> QED
      BY <1>1, <2>1, <2>2, FS_Injection
<1>7. ASSUME phase = "ready", NEW o \in Represented
      PROVE  Cardinality({p \in Chosen : orgOf[p] = o}) = 1
  <2>1. PICK q \in PeerNames : Eligible(q) /\ orgOf[q] = o
      BY DEF Represented, Eligible, SelectionInv, TypeOK
  <2>2. o \in OrgKeys
      BY <1>7, <2>1, KeyTypes DEF SelectionInv, OrgMapInv, OrgKeys, TypeOK, Eligible
  <2>3. PICK m \in 1..size : order[m] = o
      BY <1>6, <2>2 DEF Surjection
  <2>4. {p \in Chosen : orgOf[p] = o} = {names[m]}
      BY <1>2, <2>3
  <2> QED
      BY <2>4, FS_Singleton
<1> QED
    BY <1>2, <1>5, <1>7

LEMMA ReadPeerPolicy ==
    ASSUME SelectionInv, NEW p \in PeerNames, ReadPeer(p)
    PROVE  SelectionInv'
<1> USE DEF ReadPeer, configVars, SelectionInv
<1>1. TypeOK' /\ orgMap \in [Keys -> Seq(PeerNames)]
    BY ReadPeerType DEF TypeOK
<1>2. orgMap[HostOf[p]] = <<>>
    BY KeyTypes DEF OrgMapInv, TypeOK, Eligible
<1>3. OrgMapInv'
  <2>1. CASE Eligible(p)
    <3>1. orgMap' = [orgMap EXCEPT ![orgOf[p]] = <<p>>]
        BY <1>2, <2>1 DEF Eligible
    <3>2. orgOf[p] \in Keys
        BY <2>1, KeyTypes DEF Eligible, TypeOK
    <3> QED
        BY <1>1, <2>1, <3>1, <3>2, KeyTypes DEF OrgMapInv, Eligible, TypeOK
  <2>2. CASE ~Eligible(p) /\ orgOf[p] \in policyOrgs
      <3>1. phase = "peers" /\ p \in unread
          OBVIOUS
      <3>2. p \in DOMAIN orgOf
          BY <3>1 DEF OrgMapInv
      <3> QED
          BY <2>2, <3>2 DEF Eligible
  <2>3. CASE orgOf[p] \notin policyOrgs
      BY <2>3, <1>1 DEF OrgMapInv, Eligible
  <2> QED
      BY <2>1, <2>2, <2>3
<1>4. OrRuleInv'
    BY DEF OrRuleInv, Eligible
<1> QED
    BY <1>1, <1>3, <1>4 DEF SelectionMeetsPolicy

LEMMA PeersReadPolicy ==
    ASSUME SelectionInv, PeersRead
    PROVE  SelectionInv'
<1> USE DEF PeersRead, configVars, SelectionInv
<1>1. TypeOK'
    BY SelectionType DEF Next
<1>2. OrgMapInv'
    BY DEF OrgMapInv, Eligible
<1>3. OrRuleInv'
    BY DEF OrRuleInv, Eligible
<1> QED
    BY <1>1, <1>2, <1>3 DEF SelectionMeetsPolicy

LEMMA ListOrgPolicy ==
    ASSUME SelectionInv, NEW o \in Keys, ListOrg(o)
    PROVE  SelectionInv'
<1> USE DEF ListOrg, configVars, SelectionInv
<1>1. TypeOK'
    BY ListOrgType
<1>2. OrgMapInv'
    BY DEF OrgMapInv, Eligible
<1>3. OrRuleInv'
  <2>1. orRulePeerNames \in Seq(PeerNames) /\ orgMap[o] \in Seq(PeerNames)
      BY DEF TypeOK
  <2>2. \A n \in 1..Len(orgMap[o]) : Eligible(orgMap[o][n])
      BY DEF OrgMapInv
  <2>3. \A n \in 1..Len(orRulePeerNames') : Eligible(orRulePeerNames'[n])
    <3> TAKE n \in 1..Len(orRulePeerNames')
    <3>1. /\ n \in 1..(Len(orRulePeerNames) + Len(orgMap[o]))
          /\ orRulePeerNames'[n] = IF n <= Len(orRulePeerNames) THEN orRulePeerNames[n]
                                   ELSE orgMap[o][n - Len(orRulePeerNames)]
        BY <2>1, ConcatProperties
    <3>2. CASE n <= Len(orRulePeerNames)
        BY <2>1, <3>1, <3>2, LenProperties DEF OrRuleInv
    <3>3. CASE n > Len(orRulePeerNames)
      <4>1. n - Len(orRulePeerNames) \in 1..Len(orgMap[o])
          BY <2>1, <3>1, <3>3, LenProperties
      <4> QED
          BY <2>1, <2>2, <3>1, <3>3, <4>1, LenProperties
    <3> QED
        BY <2>1, <3>1, <3>2, <3>3, LenProperties
  <2>4. policyRule # "or" => orRulePeerNames' = <<>>
      BY DEF OrRuleInv
  <2> QED
      BY <2>3, <2>4 DEF OrRuleInv, Eligible
<1> QED
    BY <1>1, <1>2, <1>3 DEF SelectionMeetsPolicy

LEMMA OrgsListedPolicy ==
    ASSUME SelectionInv, OrgsListed
    PROVE  SelectionInv'
<1> USE DEF OrgsListed, configVars, SelectionInv
<1>1. TypeOK'
    BY SelectionType DEF Next
<1>2. OrgMapInv'
    BY DEF OrgMapInv, Eligible
<1>3. OrRuleInv'
    BY DEF OrRuleInv, Eligible
<1> QED
    BY <1>1, <1>2, <1>3 DEF SelectionMeetsPolicy

LEMMA GetSendPeerNamePolicy ==
    ASSUME SelectionInv, GetSendPeerName
    PROVE  SelectionInv'
<1> USE DEF GetSendPeerName, configVars, SelectionInv
<1>1. TypeOK'
    BY GetSendPeerNameType
<1>2. OrgMapInv'
    BY DEF OrgMapInv, Eligible
<1>3. OrRuleInv'
    BY DEF OrRuleInv, Eligible
<1>4. SelectionMeetsPolicy'
  <2>1. CASE orRulePeerNames # <<>>
    <3>1. PICK n \in 1..Len(orRulePeerNames) : sendNames' = <<orRulePeerNames[n]>>
        BY <2>1
    <3>2. policyRule = "or" /\ Eligible(orRulePeerNames[n])
        BY <2>1 DEF OrRuleInv
    <3>3. Asked' = {orRulePeerNames[n]} /\ Len(sendNames') = 1
        BY <3>1 DEF Asked
    <3> QED
        BY <3>2, <3>3, FS_Singleton DEF SelectionMeetsPolicy, Eligible
  <2>2. CASE orRulePeerNames = <<>> /\ policyRule = "and"
    <3> DEFINE size == Cardinality(OrgKeys)
    <3>1. PICK order \in [1..size -> OrgKeys] :
            /\ \A m, n \in 1..size : m # n => order[m] # order[n]
            /\ sendNames' \in [1..size -> PeerNames]
            /\ \A m \in 1..size :
                \E n \in 1..Len(orgMap[order[m]]) : sendNames'[m] = orgMap[order[m]][n]
        BY <2>2
    <3>2. size \in Nat
        BY KeysFinite DEF OrgKeys
    <3>3. Len(sendNames') = size
        BY <1>1, <3>1, <3>2, LenProperties DEF TypeOK
    <3>4. Asked' = {sendNames'[n] : n \in 1..size}
        BY <3>3 DEF Asked
    <3>5. /\ Cardinality(Asked') = size
          /\ \A p \in Asked' : Eligible(p)
          /\ \A o \in Represented : Cardinality({p \in Asked' : orgOf[p] = o}) = 1
        BY <3>1, <3>4, OnePerOrg
    <3> QED
        BY <2>2, <3>3, <3>5 DEF SelectionMeetsPolicy, Represented, Eligible
  <2>3. CASE orRulePeerNames = <<>> /\ policyRule # "and"
    <3>1. policyRule # "or" /\ sendNames' = <<>>
        BY <2>3 DEF OrRuleInv
    <3>2. Asked' = {} /\ Len(sendNames') = 0
        BY <3>1 DEF Asked
    <3> QED
        BY <2>3, <3>1, <3>2, FS_EmptySet DEF SelectionMeetsPolicy
  <2> QED
      BY <2>1, <2>2, <2>3
<1> QED
    BY <1>1, <1>2, <1>3, <1>4

\* Every step keeps the strengthening.
LEMMA SelectionStep == SelectionInv /\ [Next]_vars => SelectionInv'
<1> SUFFICES ASSUME SelectionInv, [Next]_vars PROVE SelectionInv'
    OBVIOUS
<1>1. ASSUME NEW p \in PeerNames, ReadPeer(p) PROVE SelectionInv'
    BY <1>1, ReadPeerPolicy
<1>2. CASE PeersRead
    BY <1>2, PeersReadPolicy
<1>3. ASSUME NEW o \in Keys, ListOrg(o) PROVE SelectionInv'
    BY <1>3, ListOrgPolicy
<1>4. CASE OrgsListed
    BY <1>4, OrgsListedPolicy
<1>5. CASE GetSendPeerName
    BY <1>5, GetSendPeerNamePolicy
<1>6. CASE UNCHANGED vars
    BY <1>6 DEF vars, configVars, SelectionInv, TypeOK, OrgMapInv, OrRuleInv, Eligible,
                SelectionMeetsPolicy, Asked, Represented
<1> QED
    BY <1>1, <1>2, <1>3, <1>4, <1>5, <1>6 DEF Next
=============================================================================
