SPECIFICATION ServedSpec
CONSTANTS
    Calls <- MCCalls
    ClientCalls <- MCClientCalls
    Ids <- MCIds
    IdOf <- MCIdOf
    InboxCapacity = 1
    ReplyCapacity = 1
    MaxReplies = 2
INVARIANTS
    TypeOK
    NoLeakedWaiter
    UniqueCallUndisturbed
    ReplyMatchesId
PROPERTIES
    CallsReturn
CHECK_DEADLOCK FALSE
