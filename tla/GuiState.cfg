\* One run, no connection: a start that fails.
\* Nothing happens after the window is closed.
SPECIFICATION Spec
CONSTANTS
    NULL = NULL
    INVALID = INVALID
    Nobody = Nobody
    Runs = {r1}
    Clients = {}
    TcpPorts = {p1}
    MaxChunks = 0
INVARIANT StateIsStoppedOrRunning
CHECK_DEADLOCK FALSE
