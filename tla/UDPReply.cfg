\* A UDP request is answered before its server has recorded where it came from.
SPECIFICATION Spec
CONSTANTS
    NoMsg = NoMsg
    NoCommand = NoCommand
    CQ = CQ
    Msgs = {m1, m2}
    Commands = {web}
    Registered = {web}
    MaxNew = 1
    MAX_MSG_RETRY = 1
    Handlers = {h1}
    UDPServers = {u1}
    Apps <- NoThreads
    AppKinds <- NoKinds
    Froms = {web}
    Priorities <- OnePriority
    ReplyActions <- AnyReply
    NotifyActions <- NoNotify
INVARIANTS UDPReplyAddressed
