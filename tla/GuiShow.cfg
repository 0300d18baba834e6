\* One run and two receives on one connection. No symmetry: temporal
\* properties. Nothing happens after the window is closed.
SPECIFICATION FairSpec
CONSTANTS
    NULL = NULL
    INVALID = INVALID
    Nobody = Nobody
    Runs = {r1}
    Clients = {c1}
    TcpPorts = {p1}
    MaxChunks = 2
INVARIANT
    ReceivedInOrder
PROPERTIES
    ClearEnds
    DataShown
    SendEnds
    StopEnds
CHECK_DEADLOCK FALSE
