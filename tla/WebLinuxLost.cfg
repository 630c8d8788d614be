\* The condition variables of LINUX: a signal that comes early.
SPECIFICATION WebFairSpec
CONSTANTS
    NoJob = NoJob
    NoHandler = NoHandler
    Handlers = {h1, h2}
    Jobs = {j1, j2, j3}
    Platform = "LINUX"
PROPERTIES TaskProcessed
\* On Linux the system really may stop: every request lost or every handler waiting.
CHECK_DEADLOCK FALSE
