SPECIFICATION FairSpec
CONSTANTS
    Producers = {main, recv}
    Consumers = {send}
    Addr = {a1, a2}
    Dummy = dummy
    Element = {x, y}
    NULL = NULL
INVARIANTS
    NoNullDereference
    IInv
PROPERTIES
    ImplementsFifo
    SemaphoreReleased
