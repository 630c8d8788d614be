\* An application's messages beside TCP requests; commands without a handler.
SPECIFICATION Spec
CONSTANTS
    NoMsg = NoMsg
    NoCommand = NoCommand
    CQ = CQ
    Msgs = {m1, m2, m3}
    Commands = {web, other}
    Registered = {web}
    MaxNew = 2
    MAX_MSG_RETRY = 1
    Handlers = {h1, h2}
    UDPServers <- NoThreads
    Apps = {a1}
    AppKinds <- SomeKinds
    Froms = {web}
    Priorities <- OnePriority
    ReplyActions <- WaitOnly
    NotifyActions <- AnyNotify
SYMMETRY Symmetry
INVARIANTS IInv OneReply
PROPERTIES Lifecycle NotifyFirst
