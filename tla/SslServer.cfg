\* Three connections for two slots, one request on each. No symmetry: temporal
\* properties. The server may end, and peers need not come.
SPECIFICATION FairSpec
CONSTANTS
    NULL = NULL
    Conns = {c1, c2, c3}
    MAX_CONNS = 2
    MaxData = 1
INVARIANTS
    CountMatches
    SlotsAgree
PROPERTIES
    Answered
    SlotFreed
    BacklogServed
CHECK_DEADLOCK FALSE
