SPECIFICATION Spec
CONSTANTS
    Calls <- MCCalls
    ClientCalls <- MCClientCalls
    Ids <- MCIds
    IdOf <- MCIdOf
    InboxCapacity = 1
    ReplyCapacity = 1
    MaxReplies = 2
PROPERTY
    CallsReturn
CHECK_DEADLOCK FALSE
