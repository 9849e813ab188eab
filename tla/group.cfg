SPECIFICATION Spec
CONSTANTS
    c1 = c1
    c2 = c2
    m1 = m1
    m2 = m2
    Cancelled = Cancelled
    Consumers <- MCConsumers
    Messages <- MCMessages
    MainCapacity = 1
    ReqCapacity = 2
INVARIANTS
    TypeOK
    HandoverIsFifo
    HandedToOne
    WaiterHasRequest
PROPERTIES
    NoStarvation
    EndReleasesAll
    MembersProtectGroup
    ImplementsWorkQueue
CHECK_DEADLOCK FALSE
