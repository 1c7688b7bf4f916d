\* A sender with an API server, a receiver with an event server, and a third user
\* whose certificate the API server has no directory for.
CONSTANTS
    Users <- MCUsers
    Hosts <- MCHosts
    UserOf <- MCUserOf
    Directories <- MCDirectories
    Factors <- MCFactors
    HostOf <- MCHostOf
    Sender <- MCSender
    Receiver <- MCReceiver
    MaxPair <- MCMaxPair
SPECIFICATION Spec
INVARIANTS
    TypeOK
    SealedForAll
    OnlyAddressees
    ReadableUntilRenewed
