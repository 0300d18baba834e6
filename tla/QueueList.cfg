\* A queue without a limit, as startIocpServer creates it: destroyQueue finds
\* up to five nodes to drain while two producers still malloc and free; and the
\* same queue against the abstract first-in first-out buffer.
\* A thread or the process that runs into undefined behaviour stops there.
SPECIFICATION Spec
CONSTANTS
    Owner = Owner
    NoThread = NoThread
    None = None
    NULL = NULL
    IntMax = 2147483647
    Producers = {p1, p2}
    Consumers = {c1}
    Nodes = {n1, n2, n3, n4, n5}
    Items = {a, b}
    Size <- MinusOne
    Destroys = TRUE
    HeapIsZero = {TRUE}
SYMMETRY Symmetry
INVARIANTS
    TypeOK
    ListInv
    OneOwner
PROPERTY ImplementsFifo
CHECK_DEADLOCK FALSE
