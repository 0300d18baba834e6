\* Two runs one after the other with one connection and one receive, or one run
\* with two connections and two receives on each.
\* A program whose servers have all stopped makes no step.
SPECIFICATION MCSpec
CONSTANTS
    NULL = NULL
    INVALID = INVALID
    Runs = {r1, r2}
    Clients = {c1, c2}
    OnlyRun = r1
    OnlyClient = c1
    TcpPorts = {p1}
    MaxChunks = 2
INVARIANTS
    StopLeavesNothing
    ContextSafe
    ReceiveBuffer
    WriteTarget
CHECK_DEADLOCK FALSE
