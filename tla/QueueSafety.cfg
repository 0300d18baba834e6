\* Two producers, two consumers, room for one item: producers compete for the
\* slot, consumers for the item, and destroyQueue runs against all of them.
\* A thread or the process that runs into undefined behaviour stops there.
SPECIFICATION Spec
CONSTANTS
    Owner = Owner
    NoThread = NoThread
    None = None
    NULL = NULL
    IntMax = 2147483647
    Producers = {p1, p2}
    Consumers = {c1, c2}
    Nodes = {n1, n2, n3, n4}
    Items = {a, b}
    Size = 1
    Destroys = TRUE
    HeapIsZero = {TRUE, FALSE}
SYMMETRY Symmetry
INVARIANTS
    Bounded
    NoLostWakeup
    NoSleeperLeftBehind
CHECK_DEADLOCK FALSE
