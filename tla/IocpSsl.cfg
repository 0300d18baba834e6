\* The server main starts, with two connections that receive data once each. No
\* symmetry: temporal properties. Nothing happens after the process has ended.
SPECIFICATION FairSpec
CONSTANTS
    NULL = NULL
    INVALID = INVALID
    Runs = {r1}
    Clients = {c1, c2}
    TcpPorts = {p1}
    MaxChunks = 1
INVARIANTS
    Decrypted
    ContextSafe
PROPERTIES
    CompletionReturns
    BacklogServed
CHECK_DEADLOCK FALSE
