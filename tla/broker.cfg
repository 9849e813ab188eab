SPECIFICATION BrokerSpec
CONSTANTS
    t1 = t1
    s1 = s1
    s2 = s2
    m1 = m1
    NoSlot = NoSlot
    Tasks <- MCTasks
    Slots <- MCSlots
    Members <- MCMembers
    Capacity = 1
    MaxVersion = 3
INVARIANTS
    BrokerTypeOK
    NoSendToFormerOwner
    LiveTargetIsRouted
PROPERTIES
    GroupSelfHealing
    SendsReturnIfRead
