\* A UDP server that still writes to what it dispatched, beside TCP requests.
SPECIFICATION Spec
CONSTANTS
    NoMsg = NoMsg
    NoCommand = NoCommand
    CQ = CQ
    Msgs = {m1, m2, m3}
    Commands = {web}
    Registered = {web}
    MaxNew = 2
    MAX_MSG_RETRY = 1
    Handlers = {h1}
    UDPServers = {u1}
    Apps <- NoThreads
    AppKinds <- NoKinds
    Froms = {web}
    Priorities <- OnePriority
    ReplyActions <- WaitOrNone
    NotifyActions <- NoNotify
SYMMETRY Symmetry
INVARIANTS SoleOwner FreeStackSound NoDanglingRef
