\* Two runs without connections, which two clicks may make overlap.
\* Nothing happens after the window is closed.
SPECIFICATION Spec
CONSTANTS
    NULL = NULL
    INVALID = INVALID
    Nobody = Nobody
    Runs = {r1, r2}
    Clients = {}
    TcpPorts = {p1}
    MaxChunks = 0
SYMMETRY Symmetry
INVARIANT RunBehindLabel
CHECK_DEADLOCK FALSE
