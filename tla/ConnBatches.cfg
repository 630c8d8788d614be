\* More connections than one select takes, some of which are closed meanwhile. The model
\* stops where the marker was erased.
SPECIFICATION FairSpec
CONSTANTS
    NoClient = NoClient
    NoFd = NoFd
    Server = Server
    Fds = {f1, f2}
    Clients = {c1, c2, c3}
    FD_SETSIZE = 1
    KeepAlive <- Either
    Scenarios <- Batches
CHECK_DEADLOCK FALSE
PROPERTIES RepliesArrive
