\* Each part on its own instance.
SPECIFICATION ServerSpec
CONSTANTS
    \* the list of addresses
    Octets = {1, 2}
    Addresses <- MCAddresses
    RuleTexts <- MCRuleTexts
    MaxAddrs = 2
    \* the buffer
    Byte <- MCByte
    Nul = 0
    Beyond = 1
    Data <- MCData
    Patterns <- MCPatterns
    MinAlloc = 2
    MidAlloc = 5
    LongSize = 1
    MaxDatagram = 3
    MaxCount = 4
    \* a pool of three ids, which runs empty, and callers enough to fill it twice
    MAX_UNIQUE_IDS = 3
    MaxHandedOut = 8
    \* the calls of another program
    MaxDelay = 2
    MaxSize = 2
    MaxPieces = 3
    MaxOpens = 2
    \* starting and stopping
    TCPServers <- MCOneServer
    UDPServers = {"udp"}
    System = "WIN32"
    Failures = {"socket", "bind"}
    MaxRequests = 2
    \* the event-based threads of WIN32: two handlers, three requests
    NoJob = NoJob
    NoHandler = NoHandler
    Handlers = {h1, h2}
    Jobs = {j1, j2, j3}
    Platform = "WIN32"
\* The parts come to their ends, and a lost process stops.
CHECK_DEADLOCK FALSE
INVARIANTS
    ServerTypeOK TerminatorFits FindExact NoIdTwice NoSocketLost ResponseInOrder
    NoEarlyUse HandoverInv
PROPERTIES
    VerdictOfList NeverWithdrawn IsByteString 
    DeinitEnds AcceptedGetsQueued Implements
