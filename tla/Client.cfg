\* Two connections, each of which may fail, be closed by the peer or by the user.
\* A receive thread that finds the other's connection just made starts a third.
\* Nothing happens after the window is closed.
SPECIFICATION FairSpec
CONSTANTS
    Window = Window
    Nobody = Nobody
    NULL = NULL
    Conns = {c1, c2}
    Receivers = {r1, r2, r3}
    MaxChunks = 1
INVARIANTS
    NothingLeft
    CountIsEnd
PROPERTIES
    WindowReturns
    DisconnectEnds
CHECK_DEADLOCK FALSE
