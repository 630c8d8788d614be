\* A handler that takes longer than the connection may be idle.
SPECIFICATION Spec
CONSTANTS
    NoClient = NoClient
    NoFd = NoFd
    Server = Server
    Fds = {f1}
    Clients = {c1, c2}
    FD_SETSIZE = 1
    KeepAlive <- Either
    Scenarios <- SlowHandlers
CHECK_DEADLOCK FALSE
INVARIANTS RepliesToSender
