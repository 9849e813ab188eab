SPECIFICATION Spec
CONSTANTS
    t1 = t1
    t2 = t2
    s1 = s1
    s2 = s2
    s3 = s3
    NoThread = NoThread
    Literals <- MCLiterals
    Partials <- MCPartials
    Threads <- MCThreads
    Slots <- MCSlots2
    Addresses <- PrefixAddresses
    ProbeLength = 3
    FactoryMayPanic = FALSE
SYMMETRY Symmetric2
INVARIANT
    ExclusiveBinding
CHECK_DEADLOCK FALSE
