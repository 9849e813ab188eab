SPECIFICATION Spec
CONSTANTS
    t1 = t1
    t2 = t2
    s1 = s1
    s2 = s2
    NoSlot = NoSlot
    Tasks <- MCTasks
    Slots <- MCSlots
    Capacity = 1
INVARIANTS
    TypeOK
    ValidMeansCurrent
    NoSendToFormerOwner
PROPERTIES
    SelfHealing
    SendsReturn
