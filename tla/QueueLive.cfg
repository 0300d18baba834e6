\* The threads of queue_test.c, one producer and two consumers, on a queue with
\* room for one that may be destroyed at any moment, or never: items and blocked
\* threads get through. No symmetry: the properties are temporal.
\* What runs into undefined behaviour stops there.
SPECIFICATION FairSpec
CONSTANTS
    Owner = Owner
    NoThread = NoThread
    None = None
    NULL = NULL
    IntMax = 2147483647
    Producers = {p1}
    Consumers = {c1, c2}
    Nodes = {n1, n2, n3}
    Items = {a}
    Size = 1
    Destroys = TRUE
    HeapIsZero = {TRUE}
PROPERTIES
    EveryItemLeaves
    ProducerGetsThrough
    SleepersReturnOnceStopped
CHECK_DEADLOCK FALSE
