--------------------------- MODULE PeerSelection ----------------------------
(***************************************************************************)
(* The peers a request is sent to.  SetSendPeerOrder builds the lists from *)
(* the configuration at the start, ranging over maps, whose order is       *)
(* arbitrary; GetSendPeerName picks from the lists for every request.      *)
(* Its answers are the Selections of Invoke.                               *)
(***************************************************************************)
EXTENDS Naturals, Sequences, FiniteSets

CONSTANTS
    PeerNames,      \* keys of the section "peers" of the configuration
    OrgNames,       \* organisations
    HostOf          \* HostOf[p]: the address of peer p

ASSUME HostAssumption ==
    /\ IsFiniteSet(PeerNames) /\ IsFiniteSet(OrgNames)
    /\ DOMAIN HostOf = PeerNames
    /\ \A p \in PeerNames : HostOf[p] \notin OrgNames

VARIABLES
    policyRule,         \* policy.rule, "and", "or" or something else
    policyOrgs,         \* policy.orgs
    orgOf,              \* the configured peers with their OrgName
    phase,              \* "peers" and "orgs" are the loops of SetSendPeerOrder
    unread,             \* what the range of the loop has not visited
    orgMap,             \* peer names by key, <<>> for a key that is not there
    orRulePeerNames,
    asked,              \* GetSendPeerName has been called
    sendNames           \* what GetSendPeerName returned last

configVars == <<policyRule, policyOrgs, orgOf>>
vars == <<configVars, phase, unread, orgMap, orRulePeerNames, asked, sendNames>>

Keys == OrgNames \cup {HostOf[p] : p \in PeerNames}
OrgKeys == {o \in Keys : orgMap[o] # <<>>}

TypeOK ==
    /\ policyRule \in {"and", "or", "other"}
    /\ policyOrgs \in SUBSET OrgNames
    /\ DOMAIN orgOf \in SUBSET PeerNames
    /\ \A p \in DOMAIN orgOf : orgOf[p] \in OrgNames
    /\ phase \in {"peers", "orgs", "ready", "failed"}
    /\ unread \in SUBSET (PeerNames \cup Keys)
    /\ orgMap \in [Keys -> Seq(PeerNames)]
    /\ orRulePeerNames \in Seq(PeerNames)
    /\ asked \in BOOLEAN
    /\ sendNames \in Seq(PeerNames)

\* An empty policy or rule is refused before the first loop.
Init ==
    /\ policyRule \in {"and", "or", "other"}
    /\ policyOrgs \in SUBSET OrgNames
    /\ \E ps \in SUBSET PeerNames : orgOf \in [ps -> OrgNames]
    /\ phase = IF policyOrgs = {} THEN "failed" ELSE "peers"
    /\ unread = DOMAIN orgOf
    /\ orgMap = [o \in Keys |-> <<>>]
    /\ orRulePeerNames = <<>>
    /\ asked = FALSE
    /\ sendNames = <<>>

-----------------------------------------------------------------------------

\* Fault: peers of organisations outside the policy are listed as well.
ReadPeerAnyOrg(p) ==
    /\ phase = "peers" /\ p \in unread
    /\ unread' = unread \ {p}
    /\ orgMap' = [orgMap EXCEPT ![orgOf[p]] = Append(orgMap[HostOf[p]], p)]
    /\ UNCHANGED <<configVars, phase, orRulePeerNames, asked, sendNames>>

\* Fault: the address is listed in place of the name.
ReadPeerAddress(p) ==
    /\ phase = "peers" /\ p \in unread
    /\ unread' = unread \ {p}
    /\ IF orgOf[p] \in policyOrgs
       THEN orgMap' = [orgMap EXCEPT ![orgOf[p]] = Append(orgMap[HostOf[p]], HostOf[p])]
       ELSE UNCHANGED orgMap
    /\ UNCHANGED <<configVars, phase, orRulePeerNames, asked, sendNames>>

\* orgMap[OrgName] = append(orgMap[Host], name), for the organisations of the
\* policy.
ReadPeer(p) ==
    /\ phase = "peers" /\ p \in unread
    /\ unread' = unread \ {p}
    /\ IF orgOf[p] \in policyOrgs
       THEN orgMap' = [orgMap EXCEPT ![orgOf[p]] = Append(orgMap[HostOf[p]], p)]
       ELSE UNCHANGED orgMap
    /\ UNCHANGED <<configVars, phase, orRulePeerNames, asked, sendNames>>

\* Only the rule "or" needs the flat list.
PeersRead ==
    /\ phase = "peers" /\ unread = {}
    /\ IF policyRule = "or"
       THEN phase' = "orgs" /\ unread' = OrgKeys
       ELSE phase' = "ready" /\ UNCHANGED unread
    /\ UNCHANGED <<configVars, orgMap, orRulePeerNames, asked, sendNames>>

ListOrg(o) ==
    /\ phase = "orgs" /\ o \in unread
    /\ unread' = unread \ {o}
    /\ orRulePeerNames' = orRulePeerNames \o orgMap[o]
    /\ UNCHANGED <<configVars, phase, orgMap, asked, sendNames>>

OrgsListed ==
    /\ phase = "orgs" /\ unread = {}
    /\ phase' = IF orRulePeerNames = <<>> THEN "failed" ELSE "ready"
    /\ UNCHANGED <<configVars, unread, orgMap, orRulePeerNames, asked, sendNames>>

\* Under "or" one name of the flat list, under "and" one of each organisation in
\* the order of the range, otherwise none.  The index is a random number.
GetSendPeerName ==
    /\ phase = "ready"
    /\ asked' = TRUE
    /\ IF orRulePeerNames # <<>>
       THEN \E n \in 1..Len(orRulePeerNames) : sendNames' = <<orRulePeerNames[n]>>
       ELSE IF policyRule = "and"
       THEN LET size == Cardinality(OrgKeys)
            IN  \E order \in [1..size -> OrgKeys] :
                    /\ \A m, n \in 1..size : m # n => order[m] # order[n]
                    /\ sendNames' \in [1..size -> PeerNames]
                    /\ \A m \in 1..size :
                        \E n \in 1..Len(orgMap[order[m]]) :
                            sendNames'[m] = orgMap[order[m]][n]
       ELSE sendNames' = <<>>
    /\ UNCHANGED <<configVars, phase, unread, orgMap, orRulePeerNames>>

Next ==
    \/ \E p \in PeerNames : ReadPeer(p)
    \/ PeersRead
    \/ \E o \in Keys : ListOrg(o)
    \/ OrgsListed
    \/ GetSendPeerName
-----------------------------------------------------------------------------
(* Properties                                                              *)

\* The organisations of the policy that have a peer.
Represented == {orgOf[p] : p \in DOMAIN orgOf} \cap policyOrgs

Asked == {sendNames[n] : n \in 1..Len(sendNames)}

\* What a request is sent to meets the rule, in whatever order the maps were
\* visited: under "and" exactly one peer of every organisation of the policy
\* that has one, under "or" a single peer, of an organisation of the policy.
\* No peer is asked twice.
SelectionMeetsPolicy ==
    asked =>
        /\ Cardinality(Asked) = Len(sendNames)
        /\ \A p \in Asked : p \in DOMAIN orgOf /\ orgOf[p] \in policyOrgs
        /\ policyRule = "and" =>
            \A o \in Represented : Cardinality({p \in Asked : orgOf[p] = o}) = 1
        /\ policyRule = "or" => Len(sendNames) = 1
=============================================================================
