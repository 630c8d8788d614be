\* More requests than handlers.
SPECIFICATION FairSpec
CONSTANTS
    NoMsg = NoMsg
    NoCommand = NoCommand
    CQ = CQ
    Msgs = {m1, m2, m3}
    Commands = {web}
    Registered = {web}
    MaxNew = 2
    MAX_MSG_RETRY = 1
    Handlers = {h1}
    UDPServers <- NoThreads
    Apps <- NoThreads
    AppKinds <- NoKinds
    Froms = {web}
    Priorities <- OnePriority
    ReplyActions <- WaitOnly
    NotifyActions <- NoNotify
PROPERTIES PoolDrains RequestAnswered
