------------------------------ MODULE Messages ------------------------------
(***************************************************************************)
(* Who reads what: FormatRequestMessage seals the data of a factor for its *)
(* receivers and its sender with the certificates on the disk of the API   *)
(* server, FormatResponseMessage opens it with the private key on the disk *)
(* of the server that shows it, an API server or an event server.  Pairs   *)
(* of keys are renewed and files installed at any time in between.         *)
(*                                                                         *)
(* A sealed key is the number of the pair of its receiver: it is opened by *)
(* the private key of that pair and by no other, and an attempt with       *)
(* another fails (ECIES is authenticated).                                 *)
(***************************************************************************)
EXTENDS Integers, Sequences, FiniteSets

CONSTANTS
    Users,
    Hosts,          \* servers, each with a working directory of its own
    UserOf,         \* UserOf[h]: user.id or user.alias in the configuration of h
    Directories,    \* <<h, u>> with a directory ./crypto/u on h
    Factors,
    HostOf,         \* HostOf[f]: the API server the factor is sent to
    Sender, Receiver,   \* of each factor; Receiver[f] is a sequence
    MaxPair         \* bound: pairs of keys of each user

ASSUME MessagesAssumption ==
    /\ UserOf \in [Hosts -> Users]
    /\ Directories \subseteq Hosts \X Users
    /\ HostOf \in [Factors -> Hosts]
    /\ Sender \in [Factors -> Users]
    /\ Receiver \in [Factors -> Seq(Users)]
    /\ MaxPair \in [Users -> Nat]

VARIABLES
    pair,           \* the number of key pairs each user has had, the last is current
    cert,           \* enrollment.cert of each user on each host
    key,            \* enrollment.key of the host's own user
    Encrypted,      \* the factors with CryptoFlag 1, as the clients chose
    phase,          \* of each factor
    txData,         \* what the message carries
    next,           \* the loop of FormatRequestMessage
    keys,           \* PeersafeData.Keys: the pair the key is sealed for
    shown,          \* what each host answered last
    opened          \* history: <<h, f>> where h has shown the encrypted f in plain

fileVars == <<cert, key>>
messageVars == <<Encrypted, phase, txData, next, keys>>
shownVars == <<shown, opened>>
vars == <<pair, fileVars, messageVars, shownVars>>

\* The content of a file: a pair, nothing, or no file.
Empty == 0
Absent == -1

\* cryptoRecvSend.
Addressees(f) == Append(Receiver[f], Sender[f])
AddressedTo(f) == {Addressees(f)[n] : n \in DOMAIN Addressees(f)}

Unsealed == <<>>

FilesTypeOK ==
    /\ pair \in [Users -> Nat]
    /\ cert \in [Hosts -> [Users -> Int]] /\ key \in [Hosts -> Int]
    /\ \A h \in Hosts, u \in Users : cert[h][u] \in Absent..pair[u]
    /\ \A h \in Hosts : key[h] \in Absent..pair[UserOf[h]]

KeysTypeOK ==
    /\ keys = [f \in Factors |-> keys[f]]
    /\ \A f \in Factors :
        /\ DOMAIN keys[f] \subseteq AddressedTo(f)
        /\ \A u \in DOMAIN keys[f] : keys[f][u] \in 1..pair[u]

TypeOK ==
    /\ FilesTypeOK
    /\ KeysTypeOK
    /\ Encrypted \subseteq Factors
    /\ txData \in [Factors -> {"plain", "cipher"}]
    /\ phase \in [Factors -> {"idle", "sealing", "formatted", "refused", "stored"}]
    /\ next \in [Factors -> Nat]
    /\ \A f \in Factors : next[f] \in 1..(Len(Addressees(f)) + 1)
    /\ shown \in [Hosts -> [Factors -> {"nothing", "plain", "cipher"}]]
    /\ opened \subseteq Hosts \X Encrypted

Init ==
    /\ pair = [u \in Users |-> 0]
    /\ cert = [h \in Hosts |-> [u \in Users |-> Absent]]
    /\ key = [h \in Hosts |-> Absent]
    /\ Encrypted \in SUBSET Factors
    /\ phase = [f \in Factors |-> "idle"]
    /\ txData = [f \in Factors |-> "plain"]
    /\ next = [f \in Factors |-> 1]
    /\ keys = [f \in Factors |-> Unsealed]
    /\ shown = [h \in Hosts |-> [f \in Factors |-> "nothing"]]
    /\ opened = {}
-----------------------------------------------------------------------------
(* The files                                                               *)

\* A user is enrolled, first or anew.
Enrol(u) ==
    /\ pair[u] < MaxPair[u]
    /\ pair' = [pair EXCEPT ![u] = @ + 1]
    /\ UNCHANGED <<fileVars, messageVars, shownVars>>

InstallCert(h, u) ==
    /\ <<h, u>> \in Directories
    /\ pair[u] > 0
    /\ cert' = [cert EXCEPT ![h][u] = pair[u]]
    /\ UNCHANGED <<pair, key, messageVars, shownVars>>

InstallKey(h) ==
    /\ <<h, UserOf[h]>> \in Directories
    /\ pair[UserOf[h]] > 0
    /\ key' = [key EXCEPT ![h] = pair[UserOf[h]]]
    /\ UNCHANGED <<pair, cert, messageVars, shownVars>>

\* Fault: the file is opened with O_TRUNC.
LeftTruncated(file) == Empty

\* ReadFile opens with O_RDONLY and O_CREATE: a file that is not there is made,
\* empty, and read without an error.
Left(file) == IF file = Absent THEN Empty ELSE file
-----------------------------------------------------------------------------
(* FormatRequestMessage                                                    *)

\* Fault: the encrypted data does not replace the plain text.
FormatPlain(f) ==
    /\ phase[f] = "idle"
    /\ phase' = [phase EXCEPT ![f] = IF f \in Encrypted THEN "sealing" ELSE "formatted"]
    /\ UNCHANGED <<pair, fileVars, Encrypted, txData, next, keys, shownVars>>

\* A new random key encrypts the data; a factor without CryptoFlag is done.
Format(f) ==
    /\ phase[f] = "idle"
    /\ IF f \in Encrypted
       THEN /\ phase' = [phase EXCEPT ![f] = "sealing"]
            /\ txData' = [txData EXCEPT ![f] = "cipher"]
       ELSE /\ phase' = [phase EXCEPT ![f] = "formatted"]
            /\ UNCHANGED txData
    /\ UNCHANGED <<pair, fileVars, Encrypted, next, keys, shownVars>>

\* Fault: a user without a certificate is passed over.
SealForPassing(f) ==
    /\ phase[f] = "sealing"
    /\ next[f] <= Len(Addressees(f))
    /\ LET h == HostOf[f]
           u == Addressees(f)[next[f]]
           file == cert[h][u]
       IN  /\ next' = [next EXCEPT ![f] = @ + 1]
           /\ keys' = IF file > Empty
                      THEN [keys EXCEPT ![f] =
                            [v \in DOMAIN @ \cup {u} |-> IF v = u THEN file ELSE @[v]]]
                      ELSE keys
    /\ UNCHANGED <<pair, fileVars, Encrypted, phase, txData, shownVars>>

\* Fault: an empty file passes for a certificate.
SealForEmpty(f) ==
    /\ phase[f] = "sealing"
    /\ next[f] <= Len(Addressees(f))
    /\ LET h == HostOf[f]
           u == Addressees(f)[next[f]]
           file == cert[h][u]
       IN  /\ cert' = IF <<h, u>> \in Directories
                      THEN [cert EXCEPT ![h][u] = Left(file)] ELSE cert
           /\ IF file >= Empty
              THEN /\ keys' = [keys EXCEPT ![f] =
                        [v \in DOMAIN @ \cup {u} |-> IF v = u THEN file ELSE @[v]]]
                   /\ next' = [next EXCEPT ![f] = @ + 1]
                   /\ UNCHANGED phase
              ELSE /\ phase' = [phase EXCEPT ![f] = "refused"]
                   /\ UNCHANGED <<keys, next>>
    /\ UNCHANGED <<pair, key, Encrypted, txData, shownVars>>

\* One turn of the loop: read the certificate, seal the key for its owner.  No
\* directory, or no certificate in the file, refuses the factor.
SealFor(f) ==
    /\ phase[f] = "sealing"
    /\ next[f] <= Len(Addressees(f))
    /\ LET h == HostOf[f]
           u == Addressees(f)[next[f]]
           file == cert[h][u]
       IN  /\ cert' = IF <<h, u>> \in Directories
                      THEN [cert EXCEPT ![h][u] = Left(file)] ELSE cert
           /\ IF file > Empty
              THEN /\ keys' = [keys EXCEPT ![f] =
                        [v \in DOMAIN @ \cup {u} |-> IF v = u THEN file ELSE @[v]]]
                   /\ next' = [next EXCEPT ![f] = @ + 1]
                   /\ UNCHANGED phase
              ELSE /\ phase' = [phase EXCEPT ![f] = "refused"]
                   /\ UNCHANGED <<keys, next>>
    /\ UNCHANGED <<pair, key, Encrypted, txData, shownVars>>

\* The same where the file, or one half written, cannot be opened, read or parsed.
CertUnread(f) ==
    /\ phase[f] = "sealing"
    /\ next[f] <= Len(Addressees(f))
    /\ LET h == HostOf[f]
           u == Addressees(f)[next[f]]
       IN  \/ UNCHANGED cert
           \/ /\ <<h, u>> \in Directories
              /\ cert' = [cert EXCEPT ![h][u] = Left(@)]
    /\ phase' = [phase EXCEPT ![f] = "refused"]
    /\ UNCHANGED <<pair, key, Encrypted, txData, next, keys, shownVars>>

\* The message is built.
Sealed(f) ==
    /\ phase[f] = "sealing"
    /\ next[f] > Len(Addressees(f))
    /\ phase' = [phase EXCEPT ![f] = "formatted"]
    /\ UNCHANGED <<pair, fileVars, Encrypted, txData, next, keys, shownVars>>

\* The message is invoked, ordered and committed (InvokeSpec, SaveData); where it
\* is not, the factor stays as it is.
Store(f) ==
    /\ phase[f] = "formatted"
    /\ phase' = [phase EXCEPT ![f] = "stored"]
    /\ UNCHANGED <<pair, fileVars, Encrypted, txData, next, keys, shownVars>>
-----------------------------------------------------------------------------
(* FormatResponseMessage                                                   *)

\* The user of the host has a sealed key, and the file opens it.
Opens(h, f) ==
    /\ UserOf[h] \in DOMAIN keys[f]
    /\ key[h] = keys[f][UserOf[h]]

\* FormatResponseMessage looks for the key, in a directory that is there.
Looks(h, f) ==
    /\ f \in Encrypted
    /\ UserOf[h] \in DOMAIN keys[f]
    /\ <<h, UserOf[h]>> \in Directories

\* A host shows a stored factor: in the answer to a DslQuery, or as an event of
\* the event server.  What it cannot open it shows as it is stored.
Show(h, f) ==
    /\ phase[f] = "stored"
    /\ IF f \in Encrypted /\ Opens(h, f)
       THEN /\ shown' = [shown EXCEPT ![h][f] = "plain"]
            /\ opened' = opened \cup {<<h, f>>}
       ELSE /\ shown' = [shown EXCEPT ![h][f] = txData[f]]
            /\ UNCHANGED opened
    /\ key' = IF Looks(h, f) THEN [key EXCEPT ![h] = Left(@)] ELSE key
    /\ UNCHANGED <<pair, cert, messageVars>>

\* The same where the file, or one half written, cannot be opened or read: the
\* error is dropped.
ShowUnread(h, f) ==
    /\ phase[f] = "stored"
    /\ Looks(h, f)
    /\ shown' = [shown EXCEPT ![h][f] = txData[f]]
    /\ \/ UNCHANGED key
       \/ key' = [key EXCEPT ![h] = Left(@)]
    /\ UNCHANGED <<pair, cert, messageVars, opened>>
-----------------------------------------------------------------------------

Next ==
    \/ \E u \in Users : Enrol(u)
    \/ \E h \in Hosts, u \in Users : InstallCert(h, u)
    \/ \E h \in Hosts : InstallKey(h)
    \/ \E f \in Factors :
            Format(f) \/ SealFor(f) \/ CertUnread(f) \/ Sealed(f) \/ Store(f)
    \/ \E h \in Hosts, f \in Factors : Show(h, f) \/ ShowUnread(h, f)

Spec == Init /\ [][Next]_vars
-----------------------------------------------------------------------------
(* Properties                                                              *)

\* What is stored of an encrypted factor is sealed for every receiver and for the
\* sender, each under a pair of their own, though the certificates are read one by
\* one and change in between: nobody is left out when a file is missing.
SealedForAll ==
    \A f \in Encrypted : phase[f] = "stored" => DOMAIN keys[f] = AddressedTo(f)

\* An encrypted factor is read in plain by the servers of its sender and of its
\* receivers only.
OnlyAddressees ==
    \A f \in Encrypted, h \in Hosts :
        shown[h][f] = "plain" => UserOf[h] \in AddressedTo(f)

\* A server that has shown a factor in plain can show it so again until its key is
\* renewed: a read that fails costs one answer, and reading makes files and never
\* spoils one.
ReadableUntilRenewed ==
    \A h \in Hosts, f \in Factors :
        <<h, f>> \in opened => Opens(h, f) \/ key[h] > keys[f][UserOf[h]]
=============================================================================
