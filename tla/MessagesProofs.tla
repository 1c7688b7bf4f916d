--------------------------- MODULE MessagesProofs ---------------------------
(***************************************************************************)
(* Proofs about Messages: for whom a factor is sealed, who reads it and    *)
(* how long, for any users, hosts, factors and any number of renewals.     *)
(***************************************************************************)
EXTENDS Messages, SequenceTheorems, TLAPS

\* While a factor is sealed, its keys are those of the addressees before next;
\* afterwards they are those of all.
SealingInv ==
    \A f \in Factors :
        /\ phase[f] = "idle" => keys[f] = Unsealed /\ next[f] = 1
        /\ phase[f] = "sealing" =>
                DOMAIN keys[f] = {Addressees(f)[n] : n \in 1..(next[f] - 1)}
        /\ phase[f] \in {"formatted", "stored"} /\ f \in Encrypted =>
                DOMAIN keys[f] = AddressedTo(f)

\* Encrypted data never goes out plain, and data without the flag never sealed.
DataInv ==
    \A f \in Factors :
        /\ f \in Encrypted /\ phase[f] # "idle" => txData[f] = "cipher"
        /\ f \notin Encrypted => txData[f] = "plain" /\ phase[f] # "sealing"

\* A host that showed an encrypted factor in plain had the key of its pair, and
\* has that key or a newer one.
ShownInv ==
    \A f \in Factors, h \in Hosts :
        /\ shown[h][f] # "nothing" => phase[f] = "stored"
        /\ shown[h][f] = "plain" /\ f \in Encrypted => <<h, f>> \in opened
        /\ <<h, f>> \in opened =>
                /\ phase[f] = "stored"
                /\ UserOf[h] \in DOMAIN keys[f]
                /\ key[h] >= keys[f][UserOf[h]]

MessagesInv == TypeOK /\ SealingInv /\ DataInv /\ ShownInv

\* The addressees of a factor are a nonempty sequence of users.
LEMMA AddresseesType ==
    ASSUME NEW f \in Factors
    PROVE  /\ Addressees(f) \in Seq(Users)
           /\ Len(Addressees(f)) \in Nat
           /\ DOMAIN Addressees(f) = 1..Len(Addressees(f))
           /\ \A n \in 1..Len(Addressees(f)) : Addressees(f)[n] \in Users
           /\ AddressedTo(f) \subseteq Users
<1>1. Addressees(f) \in Seq(Users)
    BY MessagesAssumption, AppendProperties DEF Addressees
<1> QED
    BY <1>1, LenProperties, ElementOfSeq DEF AddressedTo

\* One more addressee is sealed for.
LEMMA OneMore ==
    ASSUME TypeOK, SealingInv, NEW f \in Factors, phase[f] = "sealing",
           next[f] <= Len(Addressees(f))
    PROVE  /\ Addressees(f)[next[f]] \in AddressedTo(f)
           /\ DOMAIN keys[f] \cup {Addressees(f)[next[f]]}
                  = {Addressees(f)[n] : n \in 1..next[f]}
<1>1. next[f] \in 1..Len(Addressees(f))
    BY AddresseesType DEF TypeOK
<1>2. DOMAIN keys[f] = {Addressees(f)[n] : n \in 1..(next[f] - 1)}
    BY DEF SealingInv
<1>3. 1..next[f] = 1..(next[f] - 1) \cup {next[f]}
    BY <1>1
<1> QED
    BY <1>1, <1>2, <1>3, AddresseesType DEF AddressedTo

\* A certificate or a key that is read or installed keeps the files well typed.
LEMMA FileTypes ==
    ASSUME FilesTypeOK, NEW h \in Hosts, NEW u \in Users, NEW p \in Absent..pair[u],
           UNCHANGED pair
    PROVE  /\ cert' = [cert EXCEPT ![h][u] = p] /\ key' = key => FilesTypeOK'
           /\ u = UserOf[h] /\ key' = [key EXCEPT ![h] = p] /\ cert' = cert => FilesTypeOK'
<1> USE MessagesAssumption DEF FilesTypeOK, Absent
<1>1. pair[u] \in Nat /\ p \in Int
    OBVIOUS
<1>2. ASSUME cert' = [cert EXCEPT ![h][u] = p], key' = key PROVE FilesTypeOK'
  <2>1. cert' \in [Hosts -> [Users -> Int]]
      BY <1>1, <1>2
  <2>2. ASSUME NEW g \in Hosts, NEW v \in Users PROVE cert'[g][v] \in Absent..pair[v]
    <3>1. CASE g = h /\ v = u
        BY <1>2, <3>1
    <3>2. CASE g # h \/ v # u
      <4>1. cert'[g][v] = cert[g][v]
          BY <1>2, <3>2
      <4> QED
          BY <4>1
    <3> QED
        BY <3>1, <3>2
  <2> QED
      BY <1>2, <2>1, <2>2
<1>3. ASSUME u = UserOf[h], key' = [key EXCEPT ![h] = p], cert' = cert PROVE FilesTypeOK'
    BY <1>1, <1>3
<1> QED
    BY <1>2, <1>3

LEMMA EnrolStep ==
    ASSUME MessagesInv, NEW u \in Users, Enrol(u)
    PROVE  MessagesInv'
<1> USE MessagesAssumption DEF MessagesInv, messageVars, fileVars, shownVars, Enrol
<1>1. \A v \in Users : pair'[v] \in Nat /\ pair[v] \in Nat /\ pair[v] <= pair'[v]
    BY DEF TypeOK, FilesTypeOK
<1>2. pair' \in [Users -> Nat]
    BY DEF TypeOK, FilesTypeOK
<1>3. FilesTypeOK'
  <2>1. \A h \in Hosts : UserOf[h] \in Users
      OBVIOUS
  <2>2. FilesTypeOK /\ cert' = cert /\ key' = key
      BY DEF TypeOK
  <2> QED
      BY ONLY <1>1, <1>2, <2>1, <2>2 DEF FilesTypeOK, Absent
<1>4. KeysTypeOK'
  <2>1. KeysTypeOK /\ keys' = keys
      BY DEF TypeOK
  <2>2. ASSUME NEW f \in Factors, NEW v \in DOMAIN keys[f] PROVE keys[f][v] \in 1..pair'[v]
    <3>1. keys[f][v] \in 1..pair[v] /\ v \in Users
        BY <2>1, AddresseesType DEF KeysTypeOK
    <3> QED
        BY ONLY <1>1, <3>1
  <2>3. \A f \in Factors : DOMAIN keys[f] \subseteq AddressedTo(f)
      BY <2>1 DEF KeysTypeOK
  <2> QED
      BY <2>1, <2>2, <2>3 DEF KeysTypeOK, AddressedTo, Addressees
<1>5. TypeOK'
    BY <1>3, <1>4 DEF TypeOK
<1> QED
    BY <1>5 DEF SealingInv, DataInv, ShownInv

LEMMA InstallCertStep ==
    ASSUME MessagesInv, NEW h \in Hosts, NEW u \in Users, InstallCert(h, u)
    PROVE  MessagesInv'
<1> USE DEF MessagesInv, messageVars, shownVars, InstallCert
<1>1. pair[u] \in Absent..pair[u]
    BY DEF TypeOK, FilesTypeOK, Absent
<1>2. FilesTypeOK'
    BY <1>1, FileTypes DEF TypeOK
<1>3. TypeOK'
    BY <1>2 DEF TypeOK, KeysTypeOK
<1> QED
    BY <1>3 DEF SealingInv, DataInv, ShownInv

\* A key that does not get older opens what it opened, or is newer.
LEMMA KeyKept ==
    ASSUME MessagesInv, FilesTypeOK', NEW h \in Hosts,
           NEW p \in Absent..pair[UserOf[h]], key' = [key EXCEPT ![h] = p],
           key[h] > Empty => p >= key[h],
           UNCHANGED <<pair, cert, messageVars, shownVars>>
    PROVE  MessagesInv'
<1> USE MessagesAssumption DEF MessagesInv, messageVars, shownVars
<1>1. TypeOK'
    BY DEF TypeOK, KeysTypeOK
<1>2. ShownInv'
  <2> SUFFICES ASSUME NEW f \in Factors, NEW g \in Hosts,
                      <<g, f>> \in opened
               PROVE  UserOf[g] \in DOMAIN keys[f] /\ key'[g] >= keys[f][UserOf[g]]
      BY DEF ShownInv
  <2>1. UserOf[g] \in DOMAIN keys[f] /\ key[g] >= keys[f][UserOf[g]]
      BY DEF ShownInv
  <2>2. keys[f][UserOf[g]] \in 1..pair[UserOf[g]] /\ pair[UserOf[g]] \in Nat
      BY <2>1 DEF TypeOK, KeysTypeOK, FilesTypeOK
  <2>3. key[g] \in Int /\ p \in Int /\ key'[g] = IF g = h THEN p ELSE key[g]
      BY DEF TypeOK, FilesTypeOK, Absent
  <2> QED
      BY <2>1, <2>2, <2>3 DEF Empty
<1> QED
    BY <1>1, <1>2 DEF SealingInv, DataInv

LEMMA InstallKeyStep ==
    ASSUME MessagesInv, NEW h \in Hosts, InstallKey(h)
    PROVE  MessagesInv'
<1> DEFINE p == pair[UserOf[h]]
<1>1. /\ p \in Absent..pair[UserOf[h]] /\ key[h] \in Int /\ key[h] <= p /\ UserOf[h] \in Users
      /\ FilesTypeOK
    BY MessagesAssumption DEF MessagesInv, TypeOK, FilesTypeOK, Absent
<1>2. key' = [key EXCEPT ![h] = p] /\ UNCHANGED <<pair, cert, messageVars, shownVars>>
    BY DEF InstallKey
<1>3. FilesTypeOK'
    BY <1>1, <1>2, FileTypes
<1> HIDE DEF p
<1>4. p >= key[h]
    BY <1>1 DEF p, MessagesInv, TypeOK, FilesTypeOK
<1> QED
    BY <1>1, <1>2, <1>3, <1>4, KeyKept

LEMMA FormatStep ==
    ASSUME MessagesInv, NEW f \in Factors, Format(f)
    PROVE  MessagesInv'
<1> USE DEF MessagesInv, fileVars, shownVars, Format
<1>1. FilesTypeOK' /\ KeysTypeOK'
    BY DEF TypeOK, FilesTypeOK, KeysTypeOK
<1>2. TypeOK'
    BY <1>1 DEF TypeOK
<1>3. SealingInv'
  <2> SUFFICES ASSUME NEW g \in Factors
               PROVE  /\ phase'[g] # "idle"  \/ (keys[g] = Unsealed /\ next[g] = 1)
                      /\ phase'[g] = "sealing" =>
                            DOMAIN keys[g] = {Addressees(g)[n] : n \in 1..(next[g] - 1)}
                      /\ phase'[g] \in {"formatted", "stored"} /\ g \in Encrypted =>
                            DOMAIN keys[g] = AddressedTo(g)
      BY DEF SealingInv, Addressees, AddressedTo, Unsealed
  <2>1. CASE g = f
    <3>1. keys[f] = Unsealed /\ next[f] = 1
        BY DEF SealingInv
    <3>2. DOMAIN keys[f] = {} /\ 1..(next[f] - 1) = {}
        BY <3>1 DEF Unsealed
    <3> QED
        BY <2>1, <3>1, <3>2 DEF TypeOK
  <2>2. CASE g # f
      BY <2>2 DEF SealingInv, TypeOK
  <2> QED
      BY <2>1, <2>2
<1>4. DataInv'
    BY DEF DataInv, TypeOK
<1>5. ShownInv'
  <2> SUFFICES ASSUME NEW g \in Factors, NEW h \in Hosts
               PROVE  /\ shown[h][g] # "nothing" => phase'[g] = "stored"
                      /\ <<h, g>> \in opened => phase'[g] = "stored"
      BY DEF ShownInv
  <2> QED
      BY DEF ShownInv, TypeOK
<1> QED
    BY <1>2, <1>3, <1>4, <1>5

\* A factor that is done with its loop has the keys it is to have.
LEMMA LoopLeft ==
    ASSUME TypeOK, SealingInv, NEW f \in Factors, NEW p \in {"formatted", "refused", "stored"},
           phase' = [phase EXCEPT ![f] = p], UNCHANGED <<keys, next, Encrypted>>,
           p # "refused" /\ f \in Encrypted => DOMAIN keys[f] = AddressedTo(f)
    PROVE  SealingInv'
<1> SUFFICES ASSUME NEW g \in Factors
             PROVE  /\ phase'[g] = "idle" => keys[g] = Unsealed /\ next[g] = 1
                    /\ phase'[g] = "sealing" =>
                          DOMAIN keys[g] = {Addressees(g)[n] : n \in 1..(next[g] - 1)}
                    /\ phase'[g] \in {"formatted", "stored"} /\ g \in Encrypted =>
                          DOMAIN keys[g] = AddressedTo(g)
    BY DEF SealingInv, Addressees, AddressedTo, Unsealed
<1>1. phase'[g] = IF g = f THEN p ELSE phase[g]
    BY DEF TypeOK
<1> QED
    BY <1>1 DEF SealingInv

LEMMA SealedStep ==
    ASSUME MessagesInv, NEW f \in Factors, Sealed(f)
    PROVE  MessagesInv'
<1> USE DEF MessagesInv, fileVars, shownVars, Sealed
<1>1. TypeOK'
    BY DEF TypeOK, FilesTypeOK, KeysTypeOK
<1>2. DOMAIN keys[f] = AddressedTo(f)
  <2>1. next[f] - 1 = Len(Addressees(f))
      BY AddresseesType DEF TypeOK
  <2> QED
      BY <2>1, AddresseesType DEF SealingInv, AddressedTo
<1>3. SealingInv'
    BY <1>2, LoopLeft
<1>4. DataInv' /\ ShownInv'
    BY DEF DataInv, ShownInv, TypeOK
<1> QED
    BY <1>1, <1>3, <1>4

LEMMA StoreStep ==
    ASSUME MessagesInv, NEW f \in Factors, Store(f)
    PROVE  MessagesInv'
<1> USE DEF MessagesInv, fileVars, shownVars, Store
<1>1. TypeOK'
    BY DEF TypeOK, FilesTypeOK, KeysTypeOK
<1>2. SealingInv'
  <2>1. f \in Encrypted => DOMAIN keys[f] = AddressedTo(f)
      BY DEF SealingInv
  <2> QED
      BY <2>1, LoopLeft
<1>3. DataInv' /\ ShownInv'
    BY DEF DataInv, ShownInv, TypeOK
<1> QED
    BY <1>1, <1>2, <1>3

\* Reading a file leaves it, or makes it empty where there was none.
LEMMA LeftType ==
    ASSUME NEW n \in Nat, NEW file \in Absent..n
    PROVE  Left(file) \in Absent..n /\ (file > Empty => Left(file) = file)
BY DEF Left, Absent, Empty

\* A turn of the loop that finds a certificate.
LEMMA SealForOne ==
    ASSUME MessagesInv, NEW f \in Factors, SealFor(f), FilesTypeOK',
           cert[HostOf[f]][Addressees(f)[next[f]]] > Empty
    PROVE  MessagesInv'
<1> DEFINE u == Addressees(f)[next[f]]
           file == cert[HostOf[f]][u]
<1> USE MessagesAssumption DEF MessagesInv
<1>1. /\ phase[f] = "sealing" /\ next[f] <= Len(Addressees(f))
      /\ keys' = [keys EXCEPT ![f] =
            [v \in DOMAIN @ \cup {u} |-> IF v = u THEN file ELSE @[v]]]
      /\ next' = [next EXCEPT ![f] = @ + 1]
      /\ UNCHANGED <<pair, key, Encrypted, phase, txData, shown, opened>>
    BY DEF SealFor, shownVars
<1>2. /\ u \in AddressedTo(f) /\ u \in Users
      /\ DOMAIN keys[f] \cup {u} = {Addressees(f)[n] : n \in 1..next[f]}
  <2>1. next[f] \in 1..Len(Addressees(f))
      BY <1>1, AddresseesType DEF TypeOK
  <2> QED
      BY <1>1, <2>1, OneMore, AddresseesType
<1>3. file \in 1..pair[u]
  <2>1. HostOf[f] \in Hosts /\ pair[u] \in Nat
      BY <1>2 DEF TypeOK, FilesTypeOK
  <2>2. file \in Absent..pair[u] /\ file > Empty
      BY <1>2, <2>1 DEF TypeOK, FilesTypeOK
  <2> HIDE DEF file, u
  <2> QED
      BY <2>1, <2>2 DEF Absent, Empty
<1> HIDE DEF u, file
<1>4. /\ keys'[f] = [v \in DOMAIN keys[f] \cup {u} |-> IF v = u THEN file ELSE keys[f][v]]
      /\ \A g \in Factors \ {f} : keys'[g] = keys[g] /\ next'[g] = next[g]
      /\ keys' = [g \in Factors |-> keys'[g]]
      /\ next[f] \in Nat /\ next'[f] = next[f] + 1 /\ next'[f] - 1 = next[f]
  <2>1. keys = [g \in Factors |-> keys[g]] /\ next \in [Factors -> Nat]
      BY DEF TypeOK, KeysTypeOK
  <2>2. /\ next[f] \in Nat /\ next'[f] = next[f] + 1
        /\ \A g \in Factors \ {f} : next'[g] = next[g]
      BY <1>1, <2>1
  <2>3. next'[f] - 1 = next[f]
      BY <2>2
  <2>4. /\ keys'[f] = [v \in DOMAIN keys[f] \cup {u} |-> IF v = u THEN file ELSE keys[f][v]]
        /\ \A g \in Factors \ {f} : keys'[g] = keys[g]
        /\ keys' = [g \in Factors |-> keys'[g]]
      BY <1>1, <2>1
  <2> QED
      BY <2>2, <2>3, <2>4
<1>5. KeysTypeOK'
  <2>1. ASSUME NEW g \in Factors
        PROVE  /\ DOMAIN keys'[g] \subseteq AddressedTo(g)
               /\ \A v \in DOMAIN keys'[g] : keys'[g][v] \in 1..pair[v]
    <3>1. DOMAIN keys[g] \subseteq AddressedTo(g)
        BY DEF TypeOK, KeysTypeOK
    <3>2. \A v \in DOMAIN keys[g] : keys[g][v] \in 1..pair[v]
        BY DEF TypeOK, KeysTypeOK
    <3>3. CASE g = f
        BY <1>2, <1>3, <1>4, <3>1, <3>2, <3>3
    <3>4. CASE g # f
        BY <1>4, <3>1, <3>2, <3>4
    <3> QED
        BY <3>3, <3>4
  <2> QED
      BY <1>1, <1>4, <2>1 DEF KeysTypeOK, AddressedTo, Addressees
<1>6. TypeOK'
  <2>1. next' \in [Factors -> Nat]
      BY <1>1, <1>4 DEF TypeOK
  <2>2. ASSUME NEW g \in Factors PROVE next'[g] \in 1..(Len(Addressees(g)) + 1)
    <3>1. next[g] \in 1..(Len(Addressees(g)) + 1) /\ Len(Addressees(g)) \in Nat
        BY AddresseesType DEF TypeOK
    <3> QED
        BY <1>1, <1>4, <3>1
  <2> QED
      BY <1>1, <1>5, <2>1, <2>2 DEF TypeOK, Addressees
<1>7. SealingInv'
  <2>1. DOMAIN keys'[f] = {Addressees(f)[n] : n \in 1..(next'[f] - 1)}
      BY <1>2, <1>4
  <2>2. ASSUME NEW g \in Factors
        PROVE  /\ phase[g] = "idle" => keys'[g] = Unsealed /\ next'[g] = 1
               /\ phase[g] = "sealing" =>
                     DOMAIN keys'[g] = {Addressees(g)[n] : n \in 1..(next'[g] - 1)}
               /\ phase[g] \in {"formatted", "stored"} /\ g \in Encrypted =>
                     DOMAIN keys'[g] = AddressedTo(g)
    <3>1. CASE g = f
        BY <1>1, <2>1, <3>1
    <3>2. CASE g # f
        BY <1>4, <3>2 DEF SealingInv
    <3> QED
        BY <3>1, <3>2
  <2> QED
      BY <1>1, <2>2 DEF SealingInv, Addressees, AddressedTo, Unsealed
<1>8. DataInv'
    BY <1>1 DEF DataInv
<1>9. ShownInv'
  <2> SUFFICES ASSUME NEW g \in Factors, NEW h \in Hosts
               PROVE  /\ shown[h][g] # "nothing" => phase[g] = "stored"
                      /\ shown[h][g] = "plain" /\ g \in Encrypted => <<h, g>> \in opened
                      /\ <<h, g>> \in opened =>
                            /\ phase[g] = "stored"
                            /\ UserOf[h] \in DOMAIN keys'[g]
                            /\ key[h] >= keys'[g][UserOf[h]]
      BY <1>1 DEF ShownInv
  <2>1. CASE g = f
      BY <1>1, <2>1 DEF ShownInv
  <2>2. CASE g # f
      BY <1>4, <2>2 DEF ShownInv
  <2> QED
      BY <2>1, <2>2
<1> QED
    BY <1>6, <1>7, <1>8, <1>9

LEMMA SealForStep ==
    ASSUME MessagesInv, NEW f \in Factors, SealFor(f)
    PROVE  MessagesInv'
<1> DEFINE h == HostOf[f]
           u == Addressees(f)[next[f]]
           file == cert[h][u]
<1> USE DEF MessagesInv
<1>1. h \in Hosts /\ u \in Users /\ file \in Absent..pair[u] /\ pair[u] \in Nat
  <2>1. h \in Hosts
      BY MessagesAssumption
  <2>2. next[f] \in 1..Len(Addressees(f))
      BY AddresseesType DEF SealFor, TypeOK
  <2>3. u \in Users
      BY <2>2, AddresseesType
  <2> QED
      BY <2>1, <2>3 DEF TypeOK, FilesTypeOK
<1>2. /\ cert' = [cert EXCEPT ![h][u] = Left(file)] \/ cert' = cert
      /\ UNCHANGED <<pair, key>>
    BY DEF SealFor
<1>3. FilesTypeOK
    BY DEF TypeOK
<1> HIDE DEF h, u, file
<1>4. Left(file) \in Absent..pair[u]
    BY <1>1, LeftType
<1>5. FilesTypeOK'
  <2>1. CASE cert' = cert
      BY <1>2, <1>3, <2>1 DEF FilesTypeOK
  <2>2. CASE cert' = [cert EXCEPT ![h][u] = Left(file)]
      BY <1>1, <1>2, <1>3, <1>4, <2>2, FileTypes
  <2> QED
      BY <1>2, <2>1, <2>2
<1>6. CASE file > Empty
    BY <1>5, <1>6, SealForOne DEF h, u, file
<1>7. CASE ~(file > Empty)
  <2>1. /\ phase' = [phase EXCEPT ![f] = "refused"] /\ phase[f] = "sealing"
        /\ UNCHANGED <<keys, next, pair, key, Encrypted, txData, shown, opened>>
      BY <1>7 DEF SealFor, shownVars, h, u, file
  <2>2. TypeOK'
      BY <1>5, <2>1 DEF TypeOK, KeysTypeOK
  <2>3. SealingInv'
      BY <2>1, LoopLeft
  <2>4. DataInv' /\ ShownInv'
      BY <2>1 DEF DataInv, ShownInv, TypeOK
  <2> QED
      BY <2>2, <2>3, <2>4
<1> QED
    BY <1>6, <1>7

\* A turn that cannot read or parse the certificate.
LEMMA CertUnreadStep ==
    ASSUME MessagesInv, NEW f \in Factors, CertUnread(f)
    PROVE  MessagesInv'
<1> DEFINE h == HostOf[f]
           u == Addressees(f)[next[f]]
<1> USE DEF MessagesInv
<1>1. h \in Hosts /\ u \in Users /\ cert[h][u] \in Absent..pair[u] /\ pair[u] \in Nat
  <2>1. h \in Hosts
      BY MessagesAssumption
  <2>2. next[f] \in 1..Len(Addressees(f))
      BY AddresseesType DEF CertUnread, TypeOK
  <2>3. u \in Users
      BY <2>2, AddresseesType
  <2> QED
      BY <2>1, <2>3 DEF TypeOK, FilesTypeOK
<1>2. cert' = cert \/ cert' = [cert EXCEPT ![h][u] = Left(cert[h][u])]
    BY <1>1 DEF CertUnread, TypeOK, FilesTypeOK
<1>3. /\ phase' = [phase EXCEPT ![f] = "refused"] /\ phase[f] = "sealing"
      /\ UNCHANGED <<keys, next, pair, key, Encrypted, txData, shown, opened>>
    BY DEF CertUnread, shownVars
<1>4. FilesTypeOK
    BY DEF TypeOK
<1> HIDE DEF h, u
<1>5. Left(cert[h][u]) \in Absent..pair[u]
    BY <1>1, LeftType
<1>6. FilesTypeOK'
  <2>1. CASE cert' = cert
      BY <1>3, <1>4, <2>1 DEF FilesTypeOK
  <2>2. CASE cert' = [cert EXCEPT ![h][u] = Left(cert[h][u])]
      BY <1>1, <1>3, <1>4, <1>5, <2>2, FileTypes
  <2> QED
      BY <1>2, <2>1, <2>2
<1>7. TypeOK'
    BY <1>3, <1>6 DEF TypeOK, KeysTypeOK
<1>8. SealingInv'
    BY <1>3, LoopLeft
<1>9. DataInv' /\ ShownInv'
    BY <1>3 DEF DataInv, ShownInv, TypeOK
<1> QED
    BY <1>7, <1>8, <1>9

\* A host that looks for its key keeps what the file holds, and gains in plain
\* only what the key opens.
LEMMA ShowStep ==
    ASSUME MessagesInv, NEW h \in Hosts, NEW f \in Factors, Show(h, f) \/ ShowUnread(h, f)
    PROVE  MessagesInv'
<1> DEFINE u == UserOf[h]
<1> USE DEF MessagesInv, messageVars
<1>1. /\ u \in Users /\ pair[u] \in Nat /\ key[h] \in Absent..pair[u] /\ FilesTypeOK
      /\ key \in [Hosts -> Int]
    BY MessagesAssumption DEF TypeOK, FilesTypeOK
<1>2. /\ key' = [key EXCEPT ![h] = Left(key[h])] \/ key' = key
      /\ UNCHANGED <<pair, cert, Encrypted, phase, txData, next, keys>>
      /\ phase[f] = "stored"
    BY DEF Show, ShowUnread
<1>3. /\ shown' \in [Hosts -> [Factors -> {"nothing", "plain", "cipher"}]]
      /\ \A g \in Hosts, e \in Factors : <<g, e>> # <<h, f>> => shown'[g][e] = shown[g][e]
      /\ shown'[h][f] # "nothing"
      /\ shown'[h][f] = "plain" /\ f \in Encrypted /\ txData[f] = "cipher"
            => <<h, f>> \in opened'
  <2>1. /\ txData[f] \in {"plain", "cipher"}
        /\ shown[h] \in [Factors -> {"nothing", "plain", "cipher"}]
      BY DEF TypeOK
  <2>2. PICK s \in {"plain", "cipher"} :
            /\ shown' = [shown EXCEPT ![h][f] = s]
            /\ s = txData[f] \/ <<h, f>> \in opened'
      BY <2>1 DEF Show, ShowUnread
  <2>3. shown'[h][f] = s
      BY <2>1, <2>2 DEF TypeOK
  <2>4. shown' \in [Hosts -> [Factors -> {"nothing", "plain", "cipher"}]]
      BY <2>2 DEF TypeOK
  <2>5. \A g \in Hosts, e \in Factors : <<g, e>> # <<h, f>> => shown'[g][e] = shown[g][e]
      BY <2>2 DEF TypeOK
  <2> QED
      BY <2>2, <2>3, <2>4, <2>5
<1>10. \/ opened' = opened
       \/ opened' = opened \cup {<<h, f>>} /\ f \in Encrypted /\ Opens(h, f)
    BY DEF Show, ShowUnread
<1>4. Left(key[h]) \in Absent..pair[u] /\ (key[h] > Empty => Left(key[h]) = key[h])
    BY <1>1, LeftType
<1> HIDE DEF u
<1>5. FilesTypeOK'
  <2>1. CASE key' = key
      BY <1>1, <1>2, <2>1 DEF FilesTypeOK
  <2>2. CASE key' = [key EXCEPT ![h] = Left(key[h])]
      BY <1>1, <1>2, <1>4, <2>2, FileTypes DEF u
  <2> QED
      BY <1>2, <2>1, <2>2
<1>6. TypeOK'
    BY <1>2, <1>3, <1>5, <1>10 DEF TypeOK, KeysTypeOK
<1>7. SealingInv' /\ DataInv'
    BY <1>2 DEF SealingInv, DataInv
<1>8. ASSUME NEW g \in Hosts, key[g] > Empty PROVE key'[g] = key[g]
    BY <1>1, <1>2, <1>4, <1>8
<1>9. ShownInv'
  <2> SUFFICES ASSUME NEW e \in Factors, NEW g \in Hosts
               PROVE  /\ shown'[g][e] # "nothing" => phase[e] = "stored"
                      /\ shown'[g][e] = "plain" /\ e \in Encrypted => <<g, e>> \in opened'
                      /\ <<g, e>> \in opened' =>
                            /\ phase[e] = "stored"
                            /\ UserOf[g] \in DOMAIN keys[e]
                            /\ key'[g] >= keys[e][UserOf[g]]
      BY <1>2 DEF ShownInv
  <2>1. shown'[g][e] # "nothing" => phase[e] = "stored"
      BY <1>2, <1>3 DEF ShownInv
  <2>2. ASSUME shown'[g][e] = "plain", e \in Encrypted PROVE <<g, e>> \in opened'
    <3>1. CASE g = h /\ e = f
      <4>1. txData[f] = "cipher"
          BY <1>2, <2>2, <3>1 DEF DataInv
      <4> QED
          BY <1>3, <2>2, <3>1, <4>1
    <3>2. CASE <<g, e>> # <<h, f>>
        BY <1>3, <1>10, <2>2, <3>2 DEF ShownInv
    <3> QED
        BY <3>1, <3>2
  <2>3. ASSUME <<g, e>> \in opened'
        PROVE  /\ phase[e] = "stored"
               /\ UserOf[g] \in DOMAIN keys[e]
               /\ key'[g] >= keys[e][UserOf[g]]
    <3>1. phase[e] = "stored" /\ UserOf[g] \in DOMAIN keys[e] /\ key[g] >= keys[e][UserOf[g]]
      <4>1. CASE <<g, e>> \in opened
          BY <4>1 DEF ShownInv
      <4>2. CASE <<g, e>> \notin opened
        <5>1. g = h /\ e = f /\ Opens(h, f)
            BY <1>10, <2>3, <4>2
        <5>2. key[h] \in Int
            BY <1>1
        <5> QED
            BY <1>2, <5>1, <5>2 DEF Opens
      <4> QED
          BY <4>1, <4>2
    <3>2. keys[e][UserOf[g]] \in 1..pair[UserOf[g]]
        BY <3>1 DEF TypeOK, KeysTypeOK
    <3>3. key[g] > Empty
      <4>1. key[g] \in Int /\ pair[UserOf[g]] \in Nat
          BY <1>1, MessagesAssumption DEF FilesTypeOK
      <4> QED
          BY <3>1, <3>2, <4>1 DEF Empty
    <3> QED
        BY <1>8, <3>1, <3>3
  <2> QED
      BY <2>1, <2>2, <2>3
<1> QED
    BY <1>6, <1>7, <1>9
-----------------------------------------------------------------------------

LEMMA InitInv == Init => MessagesInv
<1> SUFFICES ASSUME Init PROVE MessagesInv
    OBVIOUS
<1> USE MessagesAssumption DEF Init
<1>1. FilesTypeOK
    BY DEF FilesTypeOK, Absent
<1>2. KeysTypeOK
    BY DEF KeysTypeOK, Unsealed
<1>3. TypeOK
    BY <1>1, <1>2, AddresseesType DEF TypeOK
<1>4. SealingInv /\ DataInv /\ ShownInv
    BY DEF SealingInv, DataInv, ShownInv
<1> QED
    BY <1>3, <1>4 DEF MessagesInv

LEMMA NextInv == MessagesInv /\ [Next]_vars => MessagesInv'
<1> SUFFICES ASSUME MessagesInv, [Next]_vars PROVE MessagesInv'
    OBVIOUS
<1>1. ASSUME NEW u \in Users, Enrol(u) PROVE MessagesInv'
    BY <1>1, EnrolStep
<1>2. ASSUME NEW h \in Hosts, NEW u \in Users, InstallCert(h, u) PROVE MessagesInv'
    BY <1>2, InstallCertStep
<1>3. ASSUME NEW h \in Hosts, InstallKey(h) PROVE MessagesInv'
    BY <1>3, InstallKeyStep
<1>4. ASSUME NEW f \in Factors,
             Format(f) \/ SealFor(f) \/ CertUnread(f) \/ Sealed(f) \/ Store(f)
      PROVE  MessagesInv'
    BY <1>4, FormatStep, SealForStep, CertUnreadStep, SealedStep, StoreStep
<1>5. ASSUME NEW h \in Hosts, NEW f \in Factors, Show(h, f) \/ ShowUnread(h, f)
      PROVE  MessagesInv'
    BY <1>5, ShowStep
<1>6. CASE UNCHANGED vars
    BY <1>6 DEF vars, fileVars, messageVars, shownVars, MessagesInv, TypeOK, FilesTypeOK, KeysTypeOK,
                SealingInv, DataInv, ShownInv
<1> QED
    BY <1>1, <1>2, <1>3, <1>4, <1>5, <1>6 DEF Next

\* The types, the progress of each sealing and the keys of the hosts that showed a
\* factor in plain hold in every reachable state.
THEOREM Inductive == Spec => []MessagesInv
BY InitInv, NextInv, PTL DEF Spec

\* Files, pairs and messages are well typed: a sealed key is under a pair that its
\* owner has, and only addressees have one.
THEOREM Typing == Spec => []TypeOK
<1>1. MessagesInv => TypeOK
    BY DEF MessagesInv
<1> QED
    BY <1>1, Inductive, PTL

\* A stored factor is sealed for every receiver and for the sender, whatever the
\* order in which their certificates are read and renewed.
THEOREM SealedTheorem == Spec => []SealedForAll
<1>1. MessagesInv => SealedForAll
    BY DEF MessagesInv, TypeOK, SealingInv, SealedForAll
<1> QED
    BY <1>1, Inductive, PTL

\* Only the servers of the sender and of the receivers show an encrypted factor in
\* plain.
THEOREM AddresseesTheorem == Spec => []OnlyAddressees
<1>1. MessagesInv => OnlyAddressees
    BY DEF MessagesInv, TypeOK, KeysTypeOK, ShownInv, OnlyAddressees
<1> QED
    BY <1>1, Inductive, PTL

\* A server that has shown a factor in plain keeps a key that opens it until it has
\* a newer one, whatever reads fail.
THEOREM ReadableTheorem == Spec => []ReadableUntilRenewed
<1>1. ASSUME MessagesInv, NEW h \in Hosts, NEW f \in Factors, <<h, f>> \in opened
      PROVE  Opens(h, f) \/ key[h] > keys[f][UserOf[h]]
  <2>1. UserOf[h] \in DOMAIN keys[f] /\ key[h] >= keys[f][UserOf[h]]
      BY <1>1 DEF MessagesInv, ShownInv
  <2>2. key[h] \in Int /\ keys[f][UserOf[h]] \in Int
    <3>1. pair[UserOf[h]] \in Nat /\ key[h] \in Int
        BY <1>1, MessagesAssumption DEF MessagesInv, TypeOK, FilesTypeOK
    <3>2. keys[f][UserOf[h]] \in 1..pair[UserOf[h]]
        BY <1>1, <2>1 DEF MessagesInv, TypeOK, KeysTypeOK
    <3> QED
        BY <3>1, <3>2
  <2> QED
      BY <2>1, <2>2 DEF Opens
<1>2. MessagesInv => ReadableUntilRenewed
    BY <1>1 DEF ReadableUntilRenewed
<1> QED
    BY <1>2, Inductive, PTL
=============================================================================
