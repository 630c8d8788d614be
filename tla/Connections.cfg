\* Orderly clients, and clients that are not.
\* The model stops where an iterator became invalid.
SPECIFICATION Spec
CONSTANTS
    NoClient = NoClient
    NoFd = NoFd
    Server = Server
    Fds = {f1, f2}
    Clients = {c1, c2, c3}
    FD_SETSIZE = 3
    KeepAlive <- Either
    Scenarios <- AllManners
CHECK_DEADLOCK FALSE
SYMMETRY Symmetry
INVARIANTS CacheInv OwnData
PROPERTIES TimeoutSparesReplies
